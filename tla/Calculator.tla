----------------------------- MODULE Calculator -----------------------------
(***************************************************************************)
(* The off-chain calculator: what the reader makes of a live cell, and the *)
(* transaction each builder assembles from it.  A built transaction is the *)
(* record the verifier reads (see Verifier) with the outpoint it spends.   *)
(* The builders read nothing but their arguments and the headers of the    *)
(* cells they name, so a stale argument makes a stale transaction.         *)
(***************************************************************************)
EXTENDS Escrow

(* real_rent_capacity, parse_order_cell, parse_match_cell: OrderInfo and    *)
(* MatchInfo of the live cell of e, which is the n-th of its lineage.       *)
CellInfo(e, n) ==
    [outpoint |-> <<e, n>>, cell |-> cells[e], currentBlock |-> block[e],
     ckbCapacity |-> Unoccupied(cells[e])]

-----------------------------------------------------------------------------
(* types.rs                                                                 *)

ExtractionAmount(info, tipBlock) ==
    LET start == IF info.cell.last = 0 THEN info.currentBlock ELSE info.cell.last
    IN  info.cell.rate * Monus(tipBlock, start)

InfoIsExhausted(info, tipBlock) ==
    IF info.cell.token # NoToken
    THEN info.cell.amount <= ExtractionAmount(info, tipBlock)
    ELSE info.ckbCapacity <= ExtractionAmount(info, tipBlock)

-----------------------------------------------------------------------------
(* calculator.rs                                                            *)

(* create_order: the Order cell of a buyer.  Capacity comes on top of what  *)
(* the cell occupies; an xUDT order carries no spare capacity.              *)
CreatedOrder(orderArgs, amount, channelCapacity, rate, rentCapacity, token) ==
    LET order == [branch |-> "Order", orderArgs |-> orderArgs,
                  amount |-> IF token = NoToken THEN 0 ELSE amount,
                  channelCapacity |-> channelCapacity, rate |-> rate,
                  capacity |-> 0, token |-> token]
    IN  [order EXCEPT !.capacity =
            Occupied(order) + IF token = NoToken THEN rentCapacity ELSE 0]

Built(info, output, party, deps, headers, header0) ==
    [outpoint |-> info.outpoint, input |-> info.cell,
     inputBlock |-> info.currentBlock, output |-> output, auth |-> {party},
     deps |-> deps, headers |-> headers, header0 |-> header0]

CancelOrderTx(info, buyer) == Built(info, NoCell, buyer, {}, {}, 0)

(* The capacity a match adds to that of the order.                          *)
(* Variant: CapacityAdjustment::Keep.                                       *)
MatchCapacityKept(order) == order.capacity
MatchCapacity(order)     == order.capacity + Reserve

(* match_order: header deps are the channel's block, then the order's.      *)
MatchOrderTx(info, seller, channel) ==
    LET order == info.cell
        born  == channels[channel].block
        new   == [branch |-> "Match", orderArgs |-> order.orderArgs,
                  channel |-> channel, seller |-> seller,
                  amount |-> IF order.token = NoToken THEN 0 ELSE order.amount,
                  rate |-> order.rate, last |-> 0,
                  capacity |-> MatchCapacity(order), token |-> order.token]
    IN  Built(info, new, seller, {channel}, {born, info.currentBlock}, born)

(* The creation header goes in only while the match was never extracted.    *)
(* Variant: it never does.                                                  *)
TipHeader(info, tipBlock) == {tipBlock}
ClockHeaders(info, tipBlock) ==
    {tipBlock} \cup IF info.cell.last = 0 THEN {info.currentBlock} ELSE {}

DestroyMatchTx(info, seller, tipBlock) ==
    Built(info, NoCell, seller, {}, ClockHeaders(info, tipBlock), tipBlock)

(* extract_rent of a match that is not exhausted.                           *)
ExtractTx(info, seller, tipBlock) ==
    LET old  == info.cell
        rent == ExtractionAmount(info, tipBlock)
        new  == [old EXCEPT
                   !.last = tipBlock,
                   !.amount = IF old.token = NoToken THEN 0 ELSE Monus(@, rent),
                   !.capacity = IF old.token = NoToken THEN @ - rent ELSE @]
    IN  Built(info, new, seller, {old.channel}, ClockHeaders(info, tipBlock), tipBlock)

(* Variant: extract_rent does not fall back to destroy_match.               *)
ExtractOnlyTx(info, seller, tipBlock) == ExtractTx(info, seller, tipBlock)

ExtractRentTx(info, seller, tipBlock) ==
    IF InfoIsExhausted(info, tipBlock)
    THEN DestroyMatchTx(info, seller, tipBlock)
    ELSE ExtractTx(info, seller, tipBlock)

(* update_match_buyer: no header deps, terms and clock copied.              *)
UpdateMatchTx(info, buyer, newXudtAmount, capacityDelta) ==
    Built(info,
          [info.cell EXCEPT !.amount = newXudtAmount, !.capacity = @ + capacityDelta],
          buyer, {}, {}, 0)

=============================================================================
