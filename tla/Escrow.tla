------------------------------- MODULE Escrow -------------------------------
(***************************************************************************)
(* The chain as the Opticrum lock script sees it.  An escrow e is the      *)
(* lineage of cells that starts with an Order cell and goes on, one        *)
(* transaction after another, through Match cells until it is spent.       *)
(* Any client may submit any transaction; it commits exactly when the node *)
(* resolves it and the verifier accepts it, so what holds here does not    *)
(* depend on the calculator or the command-line tools.                     *)
(*                                                                         *)
(* tip is the last mined block.  Transactions commit into the open block   *)
(* tip + 1; Mine closes it.  Header deps name mined blocks only.           *)
(* A transaction spends one Opticrum cell and creates at most one.         *)
(***************************************************************************)
EXTENDS Verifier

CONSTANTS
    Slot,           \* escrows
    MaxTip,         \* bound on the number of blocks
    OrderOffers,    \* Order cells a buyer may create
    OutputCells,    \* outputs a client may put into a transaction
    ChannelOffers   \* channel cells Fiber may create

ChannelCell == [fiberLock: BOOLEAN, capacity: U64, amount: Nat, token: Types]

ASSUME EscrowAssumption ==
    /\ MaxTip \in Nat
    /\ MaxTip < U64Max
    /\ \A o \in OrderOffers : o \in OrderCell /\ o.capacity >= Occupied(o)
    /\ \A c \in OutputCells : c \in OrderCell \cup MatchCell \cup {Malformed}
    /\ ChannelOffers \subseteq ChannelCell

VARIABLES
    tip,        \* number of the last mined block
    cells,      \* the live cell of each escrow
    block,      \* the block that included it
    channels,   \* the channel cell behind each outpoint
    orderBlock  \* history: the block that included the Order cell

vars == <<tip, cells, block, channels, orderBlock>>

Spent == [branch |-> "Spent"]
Live(c) == IsOrder(c) \/ IsMatch(c)

(* An outpoint no transaction has created yet has block 0.                  *)
NoChannelCell == [fiberLock |-> FALSE, capacity |-> 0, amount |-> 0,
                  token |-> NoToken, block |-> 0, live |-> FALSE]
Created(ch) == ch.block # 0
LiveChannels == {c \in Channel : channels[c].live}

Cell == OrderCell \cup MatchCell \cup {NoCell, Spent}

TypeOK ==
    /\ tip \in 0..MaxTip
    /\ cells \in [Slot -> Cell]
    /\ block \in [Slot -> 0..(MaxTip + 1)]
    /\ orderBlock \in [Slot -> 0..(MaxTip + 1)]
    /\ channels \in [Channel -> [fiberLock: BOOLEAN, capacity: U64, amount: Nat,
                                 token: Types, block: 0..(MaxTip + 1), live: BOOLEAN]]

Init ==
    /\ tip = 0
    /\ cells = [e \in Slot |-> NoCell]
    /\ block = [e \in Slot |-> 0]
    /\ orderBlock = [e \in Slot |-> 0]
    /\ channels = [c \in Channel |-> NoChannelCell]

-----------------------------------------------------------------------------
(* Blocks and Fiber channels: outside the repository, as it relies on them. *)

Mine ==
    /\ tip < MaxTip
    /\ tip' = tip + 1
    /\ UNCHANGED <<cells, block, channels, orderBlock>>

OpenChannel(c, ch) ==
    /\ ~Created(channels[c])
    /\ channels' = [channels EXCEPT ![c] =
           [fiberLock |-> ch.fiberLock, capacity |-> ch.capacity,
            amount |-> ch.amount, token |-> ch.token,
            block |-> tip + 1, live |-> TRUE]]
    /\ UNCHANGED <<tip, cells, block, orderBlock>>

CloseChannel(c) ==
    /\ channels[c].live
    /\ channels' = [channels EXCEPT ![c].live = FALSE]
    /\ UNCHANGED <<tip, cells, block, orderBlock>>

-----------------------------------------------------------------------------
(* A lock script does not run when its cell is created.                     *)
CreateOrder(e, order) ==
    /\ cells[e] = NoCell
    /\ order.capacity >= Occupied(order)
    /\ cells' = [cells EXCEPT ![e] = order]
    /\ block' = [block EXCEPT ![e] = tip + 1]
    /\ orderBlock' = [orderBlock EXCEPT ![e] = tip + 1]
    /\ UNCHANGED <<tip, channels>>

(* What the node checks before it runs the script of the spent cell.        *)
Resolves(e, tx) ==
    /\ tx.input = cells[e]
    /\ tx.inputBlock = block[e]
    /\ tx.deps \subseteq LiveChannels
    /\ tx.headers \subseteq 0..tip
    /\ IsMatch(tx.output) => tx.output.capacity >= Occupied(tx.output)

(* The transaction commits: its output, if any, is the escrow's live cell.  *)
Spend(e, tx) ==
    /\ cells' = [cells EXCEPT ![e] = IF tx.output = NoCell THEN Spent ELSE tx.output]
    /\ block' = [block EXCEPT ![e] = tip + 1]
    /\ UNCHANGED <<tip, channels, orderBlock>>

CancelOrder(e, tx) ==
    /\ Compare(tx.input, tx.output) = "order_cancel"
    /\ Resolves(e, tx)
    /\ OrderCancel(tx)
    /\ Spend(e, tx)

MatchOrder(e, tx) ==
    /\ Compare(tx.input, tx.output) = "order_match"
    /\ Resolves(e, tx)
    /\ OrderMatch(tx, channels)
    /\ Spend(e, tx)

ExtractRent(e, tx) ==
    /\ Compare(tx.input, tx.output) = "match_update"
    /\ Resolves(e, tx)
    /\ SellerExtracts(tx)
    /\ Spend(e, tx)

UpdateMatch(e, tx) ==
    /\ Compare(tx.input, tx.output) = "match_update"
    /\ Resolves(e, tx)
    /\ BuyerUpdates(tx)
    /\ Spend(e, tx)

DestroyMatch(e, tx) ==
    /\ Compare(tx.input, tx.output) = "match_destroy"
    /\ Resolves(e, tx)
    /\ MatchDestroy(tx)
    /\ Spend(e, tx)

(* The transactions that spend e into new.  Cell deps and header deps other *)
(* than HeaderDep[0] only help a transaction, so it names all there are.    *)
Transactions(e, new) ==
    [input: {cells[e]}, inputBlock: {block[e]}, output: {new},
     auth: SUBSET Party, deps: {LiveChannels},
     headers: {0..tip}, header0: 0..tip]

Commit(e, tx) ==
    \/ CancelOrder(e, tx)
    \/ MatchOrder(e, tx)
    \/ ExtractRent(e, tx)
    \/ UpdateMatch(e, tx)
    \/ DestroyMatch(e, tx)

(* Only outputs that Root routes to some verifier are worth submitting.     *)
Outputs(e) ==
    {new \in OutputCells \cup {NoCell} :
        Live(cells[e]) /\ Compare(cells[e], new) # "unknown"}

Next ==
    \/ Mine
    \/ \E c \in Channel : CloseChannel(c) \/ \E ch \in ChannelOffers : OpenChannel(c, ch)
    \/ \E e \in Slot : \E order \in OrderOffers : CreateOrder(e, order)
    \/ \E e \in Slot : \E new \in Outputs(e) : \E tx \in Transactions(e, new) :
           Commit(e, tx)

Spec == Init /\ [][Next]_vars

-----------------------------------------------------------------------------
(* Safety.                                                                  *)

(* The extraction clock of a Match cell never runs ahead of the chain: a    *)
(* block number from the future would keep saturating_sub at zero and stop  *)
(* the rent (state.rs 115-131, match_update.rs 89-97).                      *)
ClockWithinChain ==
    \A e \in Slot : IsMatch(cells[e]) =>
        /\ cells[e].last <= tip
        /\ block[e] <= tip + 1

(* A Match cell is always backed by a channel that is younger than the      *)
(* order it serves and older than the Match cell itself, also after the     *)
(* channel was closed and the cell was updated (order_match.rs 99-112).     *)
ChannelBetween ==
    \A e \in Slot : IsMatch(cells[e]) =>
        LET ch == channels[cells[e].channel]
        IN  /\ orderBlock[e] < ch.block
            /\ ch.block < block[e]

(* The terms a buyer offered bind the escrow to its end: no transaction     *)
(* changes the rate, the token, the buyer or the pubkey, not at the match   *)
(* and not in any update, and the channel and the seller of a Match stay    *)
(* its own (state.rs 76-112, order_match.rs 68-72, match_update.rs 31-42).  *)
TermsKept(e) ==
    Live(cells[e]) /\ Live(cells'[e]) =>
        /\ cells'[e].rate = cells[e].rate
        /\ cells'[e].orderArgs = cells[e].orderArgs
        /\ cells'[e].token = cells[e].token
        /\ IsMatch(cells[e]) =>
              /\ IsMatch(cells'[e])
              /\ cells'[e].channel = cells[e].channel
              /\ cells'[e].seller = cells[e].seller

AllTermsKept == \A e \in Slot : TermsKept(e)
TermsFixed == [][AllTermsKept]_vars

(* The rent a Match cell owes at the current tip.                           *)
Vested(e) == Rent(cells[e], block[e], tip)

(* Whatever header a transaction shows as the tip, a seller is never paid   *)
(* more than what has vested at the real tip.  A step that moves the clock  *)
(* is an extraction: it pays at most the vested rent and leaves the pool    *)
(* non-empty.  A step that ends a Match finds it exhausted by the vested    *)
(* rent (match_update.rs 55-97, match_destroy.rs 28-32).                    *)
TakesVested(e) ==
    IsMatch(cells[e]) =>
        /\ cells'[e] = Spent => Value(cells[e]) <= Vested(e)
        /\ IsMatch(cells'[e]) /\ cells'[e].last # cells[e].last =>
              /\ Value(cells[e]) - Value(cells'[e]) <= Vested(e)
              /\ Value(cells'[e]) > 0

AllTakeVested == \A e \in Slot : TakesVested(e)
OnlyVested == [][AllTakeVested]_vars

(* The end of a used-up Match is never lost.  The rent at the tip may have  *)
(* grown past u64, which aborts the script, and the channel may be closed;  *)
(* but as long as the value is not itself within one rate of the limit,     *)
(* there is a mined header the seller can end the Match with (state.rs      *)
(* 128-140, match_destroy.rs 28-32).                                        *)
EndTx(e, t) ==
    [input |-> cells[e], inputBlock |-> block[e], output |-> NoCell,
     auth |-> {cells[e].seller}, deps |-> LiveChannels, headers |-> 0..tip, header0 |-> t]

EndOpen ==
    \A e \in Slot :
        /\ IsMatch(cells[e]) /\ block[e] <= tip
        /\ Value(cells[e]) <= Vested(e)
        /\ Value(cells[e]) + cells[e].rate <= U64Max + 1
        => \E t \in 0..tip : Accepts(EndTx(e, t), channels)

-----------------------------------------------------------------------------
(* Refinement: cells, headers and scripts implement the promise.            *)

StreamOf(c, b) ==
    CASE c = NoCell -> [phase |-> "none", pool |-> 0, rate |-> 0, since |-> 0]
      [] c = Spent  -> [phase |-> "closed", pool |-> 0, rate |-> 0, since |-> 0]
      [] IsOrder(c) -> [phase |-> "offered", pool |-> Value(c),
                        rate |-> c.rate, since |-> 0]
      [] IsMatch(c) -> [phase |-> "streaming", pool |-> Value(c),
                        rate |-> c.rate, since |-> BaseBlock(c, b)]

streams == [e \in Slot |-> StreamOf(cells[e], block[e])]

Promise == INSTANCE RentStream WITH Stream <- Slot, now <- tip, stream <- streams

(* Every accepted transaction is a step the rent stream allows: the match   *)
(* keeps the pool and the rate, an extraction pays exactly what is due and  *)
(* never empties the pool, the end of a Match needs the pool used up.       *)
RefinesRentStream == Promise!Spec

=============================================================================
