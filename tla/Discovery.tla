----------------------------- MODULE Discovery -----------------------------
(***************************************************************************)
(* How sellers find orders.  Buyers' transactions put Order cells, with    *)
(* the address of a Fiber node in a witness, on the chain; an indexer      *)
(* keeps the live cells in the order of their lock args; a listing tool    *)
(* pages through them, and the operator gives an index of its listing to   *)
(* another tool, which scans again.  Cells come and go between the pages,  *)
(* between the scans, and a request may fail.                              *)
(***************************************************************************)
EXTENDS Protocol, Skeleton

CONSTANTS
    Places,         \* number of places in the index
    PubkeyAt,       \* the pubkey the lock args at a place begin with
    Buyer,          \* the lock hash of the buyer
    Offers,         \* what buyers offer: capacity, yield (a fraction), amount,
                    \* typed, and the Fiber address they attach, or NoText
    Address,        \* the addresses of Fiber nodes
    MaxExtra,       \* bound on the wallet cells a balance adds
    OtherCells,     \* what else may be under the lock: tails of args, data
    ListFilters,    \* pubkeys scan_orders may be filtered by, or AnyPubkey
    AnyPubkey,
    BATCH           \* cells in a page

Place == 1..Places
Text  == Address \cup {NoText}

(* Capacity and amount are numbers of the width they are written in, and    *)
(* what is computed of the yield stays within the exponents of f64; what    *)
(* the rate comes to is not bounded.                                        *)
ASSUME DiscoveryAssumption ==
    /\ Places \in Nat /\ MaxExtra \in Nat /\ BATCH \in Nat \ {0}
    /\ PubkeyAt \in [Place -> Bytes(FIBER_PUBKEY_LEN)]
    /\ Buyer \in Bytes(LOCK_HASH_LEN)
    /\ Offers \subseteq [capacity: 0..Largest(CHANNEL_CAPACITY_LEN),
                         yield: [num: Nat, den: Nat \ {0}],
                         amount: 0..Largest(XUDT_AMOUNT_LEN), typed: BOOLEAN,
                         address: Text]
    /\ \A o \in Offers : \A x \in Rounded(o.capacity, o.yield) : InRange(x)
    /\ OtherCells \subseteq [args: Seq(Byte), data: Seq(Byte)]

VARIABLES
    index,      \* what has been at each place, and whether it is live
    run         \* the tool that is running

discoveryVars == <<index, run>>

Nothing    == [status |-> "none"]
NotOffered == [by |-> "anybody"]    \* the offer behind a cell that has none
Idle       == [pc |-> "idle"]

DiscoveryInit ==
    /\ index = [k \in Place |-> Nothing]
    /\ run = Idle

LivePlaces == {k \in Place : index[k].status = "live"}

(* History: through, the cells live since the scan began; changed, whether  *)
(* the index changed since the listing began.                               *)
ChainMoves(gone) ==
    run' = IF run = Idle THEN run
           ELSE [run EXCEPT !.changed = TRUE, !.through = @ \ gone]

-----------------------------------------------------------------------------
(* The chain.                                                               *)

(* The terms create_order writes down.                                      *)
StoredOrder(offer) ==
    [xudtAmount |-> IF offer.typed THEN offer.amount ELSE 0,
     channelCapacity |-> offer.capacity,
     shannonsPerBlock |-> AnnualYieldToRentPerBlock(offer.capacity, offer.yield)]

ArgsAt(k) == [fiberPubkey |-> PubkeyAt[k], buyerLockHash |-> Buyer]

(* The create_order tool: prepare, create with the address, balance.        *)
PlaceOrder(k, offer, more) ==
    LET cell == [lock |-> OrderArgsBytes(ArgsAt(k)), data |-> OrderDataBytes(StoredOrder(offer)),
                 type |-> offer.typed, capacity |-> 0]
        tx   == Assemble(Prepare \o CreateOrderOps(Buyer, cell, offer.typed, offer.address)
                         \o Balance(Buyer, more))
    IN  /\ index[k] = Nothing
        /\ index' = [index EXCEPT ![k] =
               [status |-> "live", cell |-> tx.outputs[1], inputs |-> Len(tx.inputs),
                witnesses |-> tx.witnesses, offer |-> offer]]
        /\ ChainMoves({})

(* Anybody may put a cell under the Opticrum lock; only the parsers tell.   *)
OtherCell(k, other) ==
    /\ index[k] = Nothing
    /\ index' = [index EXCEPT ![k] =
           [status |-> "live", inputs |-> 1, witnesses |-> <<NoText>>, offer |-> NotOffered,
            cell |-> [lock |-> PubkeyAt[k] \o other.args, data |-> other.data,
                      type |-> FALSE, capacity |-> 0]]]
    /\ ChainMoves({})

SpendCell(k) ==
    /\ index[k].status = "live"
    /\ index' = [index EXCEPT ![k].status = "spent"]
    /\ ChainMoves({k})

-----------------------------------------------------------------------------
(* The reader.                                                              *)

(* parse_order_cell, parse_match_cell: scan_cells skips what is Unparsable. *)
ParseOrderCell(cell) ==
    IF Len(cell.lock) = ORDER_ARGS_LEN /\ Len(cell.data) = ORDER_DATA_LEN
    THEN OrderState(cell.lock, cell.data) ELSE Unparsable

ParseMatchCell(cell) ==
    IF Len(cell.lock) = MATCH_ARGS_LEN /\ Len(cell.data) >= MATCH_DATA_LEN
    THEN MatchState(cell.lock, cell.data) ELSE Unparsable

Parse(kind, cell) == IF kind = "Order" THEN ParseOrderCell(cell) ELSE ParseMatchCell(cell)

(* opticrum_query: a prefix search for lock args.                           *)
HasPrefix(k, filter) ==
    filter = AnyPubkey \/ IsPrefix(filter, index[k].cell.lock)

(* GetCellsIter: the next cells after the cursor, in the order of the index. *)
Matching(filter, cursor) == {k \in LivePlaces : k > cursor /\ HasPrefix(k, filter)}
Page(filter, cursor) ==
    LET rest == Matching(filter, cursor)
    IN  {k \in rest : Cardinality({j \in rest : j < k}) < BATCH}

(* A set of places as a sequence in the order of the index.                 *)
InOrder(places) ==
    CHOOSE s \in [1..Cardinality(places) -> places] :
        /\ ToSet(s) = places
        /\ \A i, j \in DOMAIN s : i < j => s[i] < s[j]

Scan(kind, filter, target, changed) ==
    [pc |-> "paging", kind |-> kind, filter |-> filter, cursor |-> 0, found |-> <<>>,
     address |-> <<>>, target |-> target, through |-> LivePlaces, changed |-> changed]

NoTarget == [at |-> 0, place |-> 0, listFilter |-> AnyPubkey]

(* scan_orders asks for one pubkey, or for all if its key does not decode;  *)
(* scan_matches asks for all.                                               *)
StartListing(kind, filter) ==
    /\ run = Idle
    /\ kind = "Match" => filter = AnyPubkey
    /\ run' = Scan(kind, filter, NoTarget, FALSE)
    /\ UNCHANGED index

(* scan_cells: parse a page, skip what does not parse, until one is empty.  *)
Parses(kind, k) == Parse(kind, index[k].cell) # Unparsable

(* Variant: it ends at a page that holds nothing of its kind.               *)
NextPageWhileFound ==
    LET page == Page(run.filter, run.cursor)
        more == {k \in page : Parses(run.kind, k)}
    IN  /\ run.pc = "paging"
        /\ run' = IF more = {}
                  THEN [run EXCEPT !.pc = "scanned"]
                  ELSE [run EXCEPT !.cursor = Max(page), !.found = @ \o InOrder(more)]
        /\ UNCHANGED index

NextPage ==
    LET page == Page(run.filter, run.cursor)
    IN  /\ run.pc = "paging"
        /\ run' = IF page = {}
                  THEN [run EXCEPT !.pc = "scanned"]
                  ELSE [run EXCEPT !.cursor = Max(page),
                           !.found = @ \o InOrder({k \in page : Parses(run.kind, k)})]
        /\ UNCHANGED index

(* fetch_fiber_address: the witness after those of the inputs.              *)
(* Variant: it does not count the inputs.                                   *)
FetchAtOutput(k) == index[k].witnesses[1]
FetchFiberAddress(k) ==
    LET place == index[k].inputs + 1
    IN  IF place <= Len(index[k].witnesses) THEN index[k].witnesses[place] ELSE NoText

(* scan_orders looks up the address of every order it found; a request that *)
(* fails leaves the order without one.  lost: the requests that fail.       *)
Addresses(places, lost) ==
    [i \in 1..Len(places) |->
        IF run.kind = "Match" \/ places[i] \in lost THEN NoText
        ELSE FetchFiberAddress(places[i])]

(* Variant: an order without an address is left out.                        *)
EnrichOrDrop ==
    /\ run.pc = "scanned"
    /\ \E lost \in SUBSET ToSet(run.found) :
          LET kept == SelectSeq(run.found, LAMBDA k : k \notin lost)
          IN  run' = [run EXCEPT !.pc = IF run.target = NoTarget THEN "listed" ELSE "using",
                                 !.found = kept, !.address = Addresses(kept, lost)]
    /\ UNCHANGED index

Enrich ==
    /\ run.pc = "scanned"
    /\ \E lost \in SUBSET ToSet(run.found) :
          run' = [run EXCEPT !.pc = IF run.target = NoTarget THEN "listed" ELSE "using",
                             !.address = Addresses(run.found, lost)]
    /\ UNCHANGED index

(* The operator sets the index of a listed cell in the tool that is to use  *)
(* it (match_order for orders, extract, topup or decline for matches); the  *)
(* tool scans without a filter.                                             *)
UseIndex(i) ==
    /\ run.pc = "listed"
    /\ i \in 1..Len(run.found)
    /\ run' = Scan(run.kind, AnyPubkey,
                   [at |-> i, place |-> run.found[i], listFilter |-> run.filter], run.changed)
    /\ UNCHANGED index

(* A tool ends: after its listing, or with what it found at the index.      *)
Exit ==
    /\ run.pc \in {"listed", "using"}
    /\ run' = Idle
    /\ UNCHANGED index

Chain ==
    \E k \in Place :
        \/ \E offer \in Offers : \E more \in 0..MaxExtra : PlaceOrder(k, offer, more)
        \/ \E other \in OtherCells : OtherCell(k, other)
        \/ SpendCell(k)

Tool ==
    \/ \E kind \in {"Order", "Match"} : \E filter \in ListFilters : StartListing(kind, filter)
    \/ NextPage \/ Enrich \/ Exit
    \/ \E i \in Place : UseIndex(i)

DiscoveryNext == Chain \/ Tool

DiscoverySpec == DiscoveryInit /\ [][DiscoveryNext]_discoveryVars

-----------------------------------------------------------------------------
(* Properties.                                                              *)

(* What is on the chain are bytes, of a transaction with a witness for each *)
(* input; a run has read places that have been filled.                      *)
Entry ==
    [status: {"live", "spent"}, inputs: Nat, witnesses: Seq(Text),
     cell: [lock: Seq(Byte), data: Seq(Byte), type: BOOLEAN, capacity: {0}],
     offer: Offers \cup {NotOffered}]

Running ==
    [pc: {"paging", "scanned", "listed", "using"}, kind: {"Order", "Match"},
     filter: ListFilters \cup {AnyPubkey}, cursor: 0..Places,
     found: Seq(Place), address: Seq(Text),
     target: {NoTarget} \cup [at: Place, place: Place,
                              listFilter: ListFilters \cup {AnyPubkey}],
     through: SUBSET Place, changed: BOOLEAN]

DiscoveryTypeOK ==
    /\ index \in [Place -> {Nothing} \cup Entry]
    /\ \A k \in Place : index[k] # Nothing => Len(index[k].witnesses) >= index[k].inputs
    /\ run # Idle =>
          /\ run \in Running
          /\ \A k \in ToSet(run.found) : index[k] # Nothing

IsOffered(k) == index[k] # Nothing /\ index[k].offer # NotOffered
Got == IF run.target.at <= Len(run.found) THEN run.found[run.target.at] ELSE 0

(* A finished scan has every cell of its kind that was live from its first  *)
(* page to its last and has the prefix, nothing twice and nothing else,     *)
(* whatever cells came and went between the pages.  Of its kind means what  *)
(* the contract takes for an Order or a Match, so no cell the script would  *)
(* let a tool use stays hidden (reader.rs 86-199, state.rs 34-46).          *)
ScanExact ==
    run.pc = "scanned" =>
        LET Wanted(k) == /\ HasPrefix(k, run.filter)
                         /\ BranchParse(index[k].cell.lock, index[k].cell.data).branch = run.kind
            found == ToSet(run.found)
        IN  /\ \A i, j \in 1..Len(run.found) : i < j => run.found[i] < run.found[j]
            /\ \A k \in found : Wanted(k)
            /\ \A k \in run.through : Wanted(k) => k \in found

(* k times the fraction x is at most l times the fraction y.                *)
AtMost(k, x, l, y) == k * x.num * y.den <= l * y.num * x.den
Plus(x, y) == [num |-> x.num * y.den + y.num * x.den, den |-> x.den * y.den]

(* What a listing says of an order is what its buyer offered, through both  *)
(* codecs and the rounding of f64: the parties, the capacity, the amount,   *)
(* and a yield that five roundings and the cast made higher than the one    *)
(* asked for by six last places at the most, and lower by five and the      *)
(* yield of one shannon per block at the most, unless the rate has reached  *)
(* the limit of its width (calculator.rs 41-62 and 116-128, lib.rs 209-236). *)
TermsAsOffered ==
    run.pc = "listed" /\ run.kind = "Order" =>
        \A i \in 1..Len(run.found) :
            LET k     == run.found[i]
                offer == index[k].offer
                order == ParseOrderCell(index[k].cell)
                data  == order.data
                shown == RentPerBlockToAnnualYield(data.shannonsPerBlock, data.channelCapacity)
                oneMore == Plus(shown, Over(Whole(BLOCKS_PER_YEAR), Whole(offer.capacity)))
            IN  IsOffered(k) =>
                  /\ order.args = ArgsAt(k)
                  /\ data.channelCapacity = offer.capacity
                  /\ data.xudtAmount = IF offer.typed THEN offer.amount ELSE 0
                  /\ AtMost(SIGNIFICANDS, shown, SIGNIFICANDS + 6, offer.yield)
                  /\ offer.capacity > 0 =>
                        \/ AtMost(SIGNIFICANDS - 5, offer.yield, SIGNIFICANDS, oneMore)
                        \/ data.shannonsPerBlock = RateMax

(* A listing shows no address but the one the buyer attached, and whatever  *)
(* it leaves out it leaves out for one of two reasons: a request failed, or *)
(* the balance added inputs after the address was attached.  (operation.rs  *)
(* 74-84, reader.rs 232-256.)                                               *)
Unmoved(k) == index[k].inputs = 1

AddressGenuine ==
    run.pc = "listed" /\ run.kind = "Order" =>
        \A i \in 1..Len(run.found) :
            LET k == run.found[i]
            IN  IsOffered(k) =>
                  /\ run.address[i] \in {NoText, index[k].offer.address}
                  /\ Unmoved(k) => FetchFiberAddress(k) = index[k].offer.address

(* As long as nothing was created or spent since the listing began and both *)
(* scans ask for the same cells, the tool gets the cell the operator saw at *)
(* its index, whichever requests fail in either scan.                       *)
IndexStable ==
    run.pc = "using" /\ ~run.changed /\ run.filter = run.target.listFilter =>
        Got = run.target.place

-----------------------------------------------------------------------------
(* Statements of the documentation that the code does not keep.             *)

(* "Must run **after** all inputs are added (i.e., after balance)",         *)
(* operation.rs 59, "so sellers can discover it when scanning orders", 57:  *)
(* the address a buyer attached can be found.                               *)
AddressFound ==
    \A k \in Place : IsOffered(k) => FetchFiberAddress(k) = index[k].offer.address

(* The rate in an order is "channel_capacity x yield_bps / (10_000 x        *)
(* BLOCKS_PER_YEAR) with u128 intermediate precision", calculator README.md *)
(* 46: the exact quotient, rounded down.                                    *)
ExactRates ==
    \A k \in Place : IsOffered(k) =>
        LET offer == index[k].offer
            rate  == (offer.capacity * offer.yield.num)
                     \div (offer.yield.den * BLOCKS_PER_YEAR)
        IN  ParseOrderCell(index[k].cell).data.shannonsPerBlock \in {rate, RateMax}

(* "pick which scanned order to match", match_order.rs 36, and "run         *)
(* scan_orders first", 53: the index is one of scan_orders' listing.        *)
ListedIndex ==
    run.pc = "using" /\ ~run.changed => Got = run.target.place

=============================================================================
