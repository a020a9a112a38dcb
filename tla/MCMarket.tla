------------------------------ MODULE MCMarket ------------------------------
(* Instances of Market for TLC. *)
EXTENDS Market, TLC

CONSTANTS
    buyer, seller, rival,   \* parties
    RivalTerminal,          \* the seller terminals the rival works at
    s1, s2,                 \* the seller terminals
    key, Rates, RentCapacities, MCTokens

(* Orders made by create_order: a CKB order has its rent as spare capacity, *)
(* an xUDT order has it as xudt_amount.                                     *)
MCOrderOffers ==
    {CreatedOrder([pubkey |-> key, buyer |-> buyer], IF t = NoToken THEN 0 ELSE r,
                  1, rate, r, t) :
        t \in MCTokens, rate \in Rates, r \in RentCapacities}

(* Market does not use the outputs of arbitrary clients. *)
MCOutputCells == {}

MCChannelOffers ==
    [fiberLock: {TRUE}, capacity: {1}, amount: RentCapacities, token: MCTokens]

MCDeltas == {-1, 2}

MCOwner == [r \in Terminal |-> IF r \in RivalTerminal THEN rival
                              ELSE IF r \in SellerTerminal THEN seller ELSE buyer]

(* Two sellers may change places, together with their terminals.            *)
MCSymmetry ==
    {f \in Permutations({seller, rival, s1, s2}) :
        \/ f[seller] = seller /\ f[rival] = rival /\ f[s1] = s1
        \/ f[seller] = rival /\ f[rival] = seller /\ f[s1] = s2}
=============================================================================
