------------------------------ MODULE MCEscrow ------------------------------
(* Instances of Escrow and Assembly for TLC. *)
EXTENDS Assembly

CONSTANTS buyer, key, Capacities, Amounts, Rates

MCOrderArgs == [pubkey |-> key, buyer |-> buyer]

(* Orders as the calculator creates them: a CKB order has xudt_amount 0. *)
CkbOrders == [branch: {"Order"}, orderArgs: {MCOrderArgs}, amount: {0},
              channelCapacity: {1}, rate: Rates,
              capacity: {OrderOccupied + 2}, token: Types]
XudtOrders == [branch: {"Order"}, orderArgs: {MCOrderArgs}, amount: Amounts \ {0},
               channelCapacity: {0}, rate: Rates,
               capacity: {OrderOccupied + TypeOccupied}, token: Token]

MCOrderOffers == CkbOrders \cup XudtOrders

(* Matches of any client: CKB matches hold capacity, xUDT matches an amount. *)
Matches(amounts, capacities, token) ==
    [branch: {"Match"}, orderArgs: {MCOrderArgs}, channel: Channel,
     seller: Party, amount: amounts, rate: Rates, last: 0..MaxTip,
     capacity: capacities, token: {token}]

MCOutputCells ==
    Matches({0}, Capacities, NoToken)
    \cup UNION {Matches(Amounts, Capacities \cap 3..4, t) : t \in Token}
    \cup {Malformed} \cup MCOrderOffers

(* Channels: large enough or too small, made by Fiber or not. *)
MCChannelOffers ==
    [fiberLock: {TRUE}, capacity: {0, 1}, amount: {0}, token: {NoToken}]
    \cup [fiberLock: {TRUE}, capacity: {1}, amount: Amounts \ {0}, token: Token]
    \cup [fiberLock: {FALSE}, capacity: {1}, amount: {2}, token: Token]
=============================================================================
