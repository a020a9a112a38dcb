------------------------------ MODULE Verifier ------------------------------
(***************************************************************************)
(* The on-chain verifier: which transactions the Opticrum lock script      *)
(* accepts.  A module of operators, one per verifier of the tree in        *)
(* contracts/opticrum/src; error codes are abstracted to accept / reject.  *)
(*                                                                         *)
(* A resolved transaction is a record                                      *)
(*   input, inputBlock  GroupInput[0] and the block that included it       *)
(*   output             the first Opticrum output, or NoCell               *)
(*   auth               the parties whose lock is among the inputs         *)
(*   deps               the channel cells among the cell deps              *)
(*   headers, header0   the numbers of the header deps; HeaderDep[0]       *)
(* and chan maps a channel outpoint to the channel cell it names.          *)
(***************************************************************************)
EXTENDS Integers

CONSTANTS
    Party,          \* lock hashes
    Pubkey,         \* Fiber public keys
    Channel,        \* channel outpoints
    Token,          \* xUDT type scripts
    NoToken,        \* the type script of a cell that has none
    U64Max,         \* the largest u64
    OrderOccupied,  \* occupied capacity of an Order cell without a type script
    Reserve,        \* ORDER_TO_MATCH_CAPACITY_RESERVE
    TypeOccupied    \* what a type script adds to the occupied capacity

ASSUME VerifierAssumption ==
    /\ NoToken \notin Token
    /\ U64Max \in Nat
    /\ OrderOccupied \in Nat /\ Reserve \in Nat /\ TypeOccupied \in Nat

-----------------------------------------------------------------------------
(* Cells.  The lock args give the branch: 65 bytes are an Order, 133 bytes  *)
(* a Match; any other length, or data that does not parse, is Malformed.    *)

U64 == 0..U64Max
Types == Token \cup {NoToken}
OrderArgs == [pubkey: Pubkey, buyer: Party]

OrderCell == [branch: {"Order"}, orderArgs: OrderArgs, amount: Nat,
              channelCapacity: U64, rate: U64, capacity: U64, token: Types]

MatchCell == [branch: {"Match"}, orderArgs: OrderArgs, channel: Channel,
              seller: Party, amount: Nat, rate: U64, last: U64,
              capacity: U64, token: Types]

NoCell    == [branch |-> "None"]
Malformed == [branch |-> "Malformed"]

IsOrder(c) == c.branch = "Order"
IsMatch(c) == c.branch = "Match"

Monus(a, b) == IF a >= b THEN a - b ELSE 0      \* saturating_sub

Occupied(c) == OrderOccupied
             + (IF IsMatch(c) THEN Reserve ELSE 0)
             + (IF c.token = NoToken THEN 0 ELSE TypeOccupied)

Unoccupied(c) == Monus(c.capacity, Occupied(c))

(* parse_xudt: Some(amount, type) exactly when there is a type script.      *)
HasXudt(c) == c.token # NoToken

(* What the rent is paid from: the xUDT amount, or the unoccupied capacity. *)
Value(c) == IF HasXudt(c) THEN c.amount ELSE Unoccupied(c)

-----------------------------------------------------------------------------
(* OpticrumState::compare: the pair of states selects the branch verifier.  *)

(* Variant: an output of no known branch counts as no output.               *)
NoOutputOrUnknown(new) == ~IsOrder(new) /\ ~IsMatch(new)
NoOutput(new) == new = NoCell

SameXudt(old, new) ==
    /\ old.token = new.token
    /\ HasXudt(old) => old.amount = new.amount

SameMatchArgs(old, new) ==
    /\ old.orderArgs = new.orderArgs
    /\ old.channel = new.channel
    /\ old.seller = new.seller

Compare(old, new) ==
    IF IsOrder(old) /\ NoOutput(new) THEN "order_cancel"
    ELSE IF IsMatch(old) /\ NoOutput(new) THEN "match_destroy"
    ELSE IF /\ IsOrder(old) /\ IsMatch(new)
            /\ old.orderArgs = new.orderArgs /\ SameXudt(old, new)
         THEN "order_match"
    ELSE IF /\ IsMatch(old) /\ IsMatch(new)
            /\ SameMatchArgs(old, new) /\ SameXudt(old, new)
         THEN "match_update"
    ELSE "unknown"

(* OpticrumState::liquidity_rent.  The product is u64 with overflow checks: *)
(* a transaction whose rent does not fit aborts the script.                 *)
BaseBlock(old, inputBlock) == IF old.last = 0 THEN inputBlock ELSE old.last
Rent(old, inputBlock, tipBlock) ==
    old.rate * Monus(tipBlock, BaseBlock(old, inputBlock))

TxRent(tx) == Rent(tx.input, tx.inputBlock, tx.header0)
RentIsKnown(tx) ==
    /\ tx.input.last = 0 => tx.inputBlock \in tx.headers
    /\ tx.header0 \in tx.headers
    /\ TxRent(tx) <= U64Max

(* Variant: rent that equals the value does not exhaust it.                 *)
IsOverdrawn(tx) == Value(tx.input) < TxRent(tx)
IsExhausted(tx) == Value(tx.input) <= TxRent(tx)

(* find_channel_in_celldeps, as order_match calls it: an xUDT order asks    *)
(* for an xUDT amount and its own type script, a CKB order for a capacity.  *)
FindChannel(tx, chan) ==
    LET order == tx.input
        ch    == chan[tx.output.channel]
    IN  /\ tx.output.channel \in tx.deps
        /\ ch.fiberLock
        /\ HasXudt(order) => ch.token = order.token
        /\ IF order.amount > 0 THEN ch.amount >= order.amount
                               ELSE ch.capacity >= order.channelCapacity

-----------------------------------------------------------------------------
(* The branch verifiers.                                                    *)

OrderCancel(tx) == tx.input.orderArgs.buyer \in tx.auth

(* Variant: a channel as old as the order will do.                          *)
ChannelNotOlder(tx, chan) == chan[tx.output.channel].block >= tx.inputBlock
ChannelNewer(tx, chan)    == chan[tx.output.channel].block > tx.inputBlock

(* Variant: the match may hold more than the order.                         *)
PoolNotShrunk(tx)   == Unoccupied(tx.input) <= Unoccupied(tx.output)
PoolTransferred(tx) == Unoccupied(tx.input) = Unoccupied(tx.output)

OrderMatch(tx, chan) ==
    LET order == tx.input
        new   == tx.output
    IN  /\ FindChannel(tx, chan)
        /\ new.seller \in tx.auth
        /\ new.rate = order.rate
        /\ new.last = 0
        /\ PoolTransferred(tx)
        /\ order.amount = new.amount
        /\ {tx.inputBlock, chan[new.channel].block} \subseteq tx.headers
        /\ ChannelNewer(tx, chan)

(* match_update is one verifier that branches on which party authorised the *)
(* transaction; with both or neither it rejects.                            *)

(* Variant: an update may lower the rate.                                   *)
SameOrLowerRate(tx) == tx.output.rate <= tx.input.rate
SameRate(tx)        == tx.output.rate = tx.input.rate

RentTaken(tx) ==
    LET old == tx.input
        new == tx.output
    IN  TxRent(tx) = IF HasXudt(old)
                     THEN Monus(old.amount, new.amount)
                     ELSE Monus(Unoccupied(old), Unoccupied(new))

(* Variant: any block from the tip on.                                      *)
ClockAtLeastTip(tx) == tx.output.last >= tx.header0
ClockAtTip(tx)      == tx.output.last = tx.header0

SellerExtracts(tx) ==
    LET old == tx.input
    IN  /\ SameRate(tx)
        /\ old.seller \in tx.auth
        /\ old.orderArgs.buyer \notin tx.auth
        /\ old.channel \in tx.deps
        /\ RentIsKnown(tx)
        /\ ~IsExhausted(tx)
        /\ RentTaken(tx)
        /\ ClockAtTip(tx)

BuyerUpdates(tx) ==
    LET old == tx.input
        new == tx.output
    IN  /\ SameRate(tx)
        /\ old.seller \notin tx.auth
        /\ old.orderArgs.buyer \in tx.auth
        /\ new.last = old.last
        /\ HasXudt(old) /\ HasXudt(new) => old.token = new.token

MatchUpdate(tx) == SellerExtracts(tx) \/ BuyerUpdates(tx)

(* Variant: whoever pays for the transaction may end a used-up match.       *)
MatchDestroyByAnybody(tx) == RentIsKnown(tx) /\ IsExhausted(tx)

(* Variant: the end of a match needs its channel, as an extraction does.    *)
MatchDestroyWithChannel(tx) ==
    /\ tx.input.seller \in tx.auth
    /\ tx.input.channel \in tx.deps
    /\ RentIsKnown(tx)
    /\ IsExhausted(tx)

MatchDestroy(tx) ==
    /\ tx.input.seller \in tx.auth
    /\ RentIsKnown(tx)
    /\ IsExhausted(tx)

(* The Root verifier.                                                       *)
Accepts(tx, chan) ==
    LET pattern == Compare(tx.input, tx.output)
    IN  \/ pattern = "order_cancel"  /\ OrderCancel(tx)
        \/ pattern = "order_match"   /\ OrderMatch(tx, chan)
        \/ pattern = "match_update"  /\ MatchUpdate(tx)
        \/ pattern = "match_destroy" /\ MatchDestroy(tx)

=============================================================================
