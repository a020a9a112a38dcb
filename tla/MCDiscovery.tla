---------------------------- MODULE MCDiscovery ----------------------------
(* Instances of Discovery for TLC. *)
EXTENDS Discovery

CONSTANTS
    Pubkeys,    \* how many of the places belong to the first pubkey
    address     \* the Fiber address of a buyer

(* The first byte of a pubkey is its prefix, 2 or 3. *)
Key1 == <<2, 1>>
Key2 == <<3, 0>>

MCPubkeyAt == [k \in Place |-> IF k <= Pubkeys THEN Key1 ELSE Key2]
MCListFilters == {AnyPubkey, Key2}

MCBuyer == <<1>>

(* Floats with four bits, from 2^-8 on.                                      *)
MCUlps == [num: {2^k : k \in 0..7}, den: {1}] \cup [num: {1}, den: {2^k : k \in 1..8}]

(* No capacity; a rate of 0; one that rounds up; one that saturates, of a    *)
(* capacity that is no float.                                                *)
MCOffers ==
    {[capacity |-> 0, yield |-> [num |-> 1, den |-> 2],
      amount |-> 9, typed |-> TRUE, address |-> NoText],
     [capacity |-> 7, yield |-> [num |-> 7, den |-> 16],
      amount |-> 3, typed |-> FALSE, address |-> NoText],
     [capacity |-> 22, yield |-> [num |-> 7, den |-> 8],
      amount |-> 0, typed |-> FALSE, address |-> address],
     [capacity |-> 45, yield |-> [num |-> 9, den |-> 1],
      amount |-> 0, typed |-> FALSE, address |-> NoText]}

MatchTail == <<1>> \o <<4, 0>> \o <<2>>
MCMatchData == MatchDataBytes([xudtAmount |-> 0, shannonsPerBlock |-> 1,
                               lastExtractionBlock |-> 0])
(* A match, a match with longer data, an order without its data.            *)
MCOtherCells ==
    {[args |-> MatchTail, data |-> MCMatchData],
     [args |-> MatchTail, data |-> MCMatchData \o <<0>>],
     [args |-> <<1>>, data |-> <<>>]}
=============================================================================
