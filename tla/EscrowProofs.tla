---------------------------- MODULE EscrowProofs ----------------------------
(***************************************************************************)
(* Theorems about Escrow, for any parties, escrows, channels, offers and   *)
(* bounds.  The inductive invariant is Inv: the type invariant, the two    *)
(* safety invariants and the block an Order cell is dated with.  The last  *)
(* part shows that Escrow implements RentStream.                           *)
(***************************************************************************)
EXTENDS Escrow, TLAPS

(* The live Order cell of an escrow is the one it was dated with.           *)
OrderDated == \A e \in Slot : IsOrder(cells[e]) => orderBlock[e] = block[e]

Inv == TypeOK /\ ClockWithinChain /\ ChannelBetween /\ OrderDated

-----------------------------------------------------------------------------
(* Which cells the branches are.                                            *)

LEMMA CellKinds ==
    /\ \A c \in OrderCell : IsOrder(c) /\ ~IsMatch(c) /\ c # NoCell /\ c # Spent
    /\ \A c \in MatchCell : IsMatch(c) /\ ~IsOrder(c) /\ c # NoCell /\ c # Spent
    /\ \A c \in Cell : IsMatch(c) <=> c \in MatchCell
    /\ \A c \in Cell : IsOrder(c) <=> c \in OrderCell
    /\ ~IsMatch(NoCell) /\ ~IsOrder(NoCell) /\ ~IsMatch(Spent) /\ ~IsOrder(Spent)
    /\ ~IsMatch(Malformed) /\ ~IsOrder(Malformed)
BY DEF OrderCell, MatchCell, Cell, NoCell, Spent, Malformed, IsOrder, IsMatch

(* What Root's routing says about the two states it compares.               *)
LEMMA Routes ==
    ASSUME NEW old, NEW new
    PROVE  /\ Compare(old, new) = "order_cancel"  => IsOrder(old) /\ new = NoCell
           /\ Compare(old, new) = "match_destroy" => IsMatch(old) /\ new = NoCell
           /\ Compare(old, new) = "order_match"   =>
                 /\ IsOrder(old) /\ IsMatch(new)
                 /\ old.orderArgs = new.orderArgs /\ SameXudt(old, new)
           /\ Compare(old, new) = "match_update"  =>
                 /\ IsMatch(old) /\ IsMatch(new)
                 /\ SameMatchArgs(old, new) /\ SameXudt(old, new)
BY DEF Compare, NoOutput

-----------------------------------------------------------------------------
(* A transaction that commits, case by case.                                *)

(* What any client may submit: like Next, but not bound to OutputCells.     *)
Submitted(e, new, tx) ==
    /\ e \in Slot /\ Live(cells[e])
    /\ Compare(cells[e], new) # "unknown"
    /\ new \in OrderCell \cup MatchCell \cup {Malformed, NoCell}
    /\ tx \in Transactions(e, new)

AnyStep ==
    \/ Mine
    \/ \E c \in Channel : CloseChannel(c) \/ \E ch \in ChannelOffers : OpenChannel(c, ch)
    \/ \E e \in Slot : \E order \in OrderOffers : CreateOrder(e, order)
    \/ \E e, new, tx : Submitted(e, new, tx) /\ Commit(e, tx)

LEMMA NextIsAny == [Next]_vars => [AnyStep]_vars
<1> SUFFICES ASSUME Next PROVE AnyStep
  OBVIOUS
<1>1. CASE \E e \in Slot : \E new \in Outputs(e) : \E tx \in Transactions(e, new) : Commit(e, tx)
  BY <1>1, EscrowAssumption DEF Submitted, Outputs, AnyStep
<1> QED BY <1>1 DEF Next, AnyStep

(* The output of a match or an update is a Match cell the node takes.       *)
LEMMA OutputTyped ==
    ASSUME TypeOK, NEW e, NEW new, NEW tx, Submitted(e, new, tx), IsMatch(tx.output)
    PROVE  tx.output \in MatchCell
<1>1. tx.output = new /\ new \in OrderCell \cup MatchCell \cup {Malformed, NoCell}
  BY DEF Submitted, Transactions
<1> QED BY <1>1, CellKinds

LEMMA InputTyped ==
    ASSUME TypeOK, NEW e, NEW new, NEW tx, Submitted(e, new, tx)
    PROVE  /\ tx.input = cells[e] /\ tx.inputBlock = block[e]
           /\ cells[e] \in OrderCell \cup MatchCell
           /\ tx.headers = 0..tip /\ tx.header0 \in 0..tip
           /\ tx.deps = LiveChannels
<1>1. tx.input = cells[e] /\ tx.inputBlock = block[e] /\ tx.headers = 0..tip
      /\ tx.header0 \in 0..tip /\ tx.deps = LiveChannels
  BY DEF Submitted, Transactions
<1>2. cells[e] \in Cell /\ Live(cells[e])
  BY DEF Submitted, TypeOK
<1> QED BY <1>1, <1>2, CellKinds DEF Live

(* Spend in terms of the next state.                                        *)
LEMMA SpendEffect ==
    ASSUME TypeOK, NEW e \in Slot, NEW tx, Spend(e, tx)
    PROVE  /\ cells'[e] = IF tx.output = NoCell THEN Spent ELSE tx.output
           /\ block'[e] = tip + 1
           /\ \A d \in Slot : d # e => cells'[d] = cells[d] /\ block'[d] = block[d]
           /\ cells' = [cells EXCEPT ![e] = cells'[e]]
           /\ block' = [block EXCEPT ![e] = tip + 1]
           /\ tip' = tip /\ channels' = channels /\ orderBlock' = orderBlock
BY DEF Spend, TypeOK

(* A committed transaction either spends e for good or leaves a Match cell, *)
(* which is dated tip + 1 and keeps to the clock and channel invariants.    *)
LEMMA CommitEffect ==
    ASSUME Inv, NEW e, NEW new, NEW tx, Submitted(e, new, tx), Commit(e, tx)
    PROVE  /\ Spend(e, tx)
           /\ \/ tx.output = NoCell
              \/ /\ tx.output \in MatchCell
                 /\ tx.output.last \in 0..tip
                 /\ orderBlock[e] < channels[tx.output.channel].block
                 /\ channels[tx.output.channel].block < tip + 1
<1> USE DEF Inv
<1>i. /\ tx.input = cells[e] /\ tx.inputBlock = block[e]
      /\ tx.headers = 0..tip /\ tx.header0 \in 0..tip
      /\ cells[e] \in OrderCell \cup MatchCell
  BY InputTyped
<1>0. e \in Slot /\ tip \in Nat /\ block[e] \in Nat /\ orderBlock[e] \in Nat
  BY EscrowAssumption DEF Submitted, TypeOK
<1>1. CASE CancelOrder(e, tx)
  BY <1>1, <1>i, Routes DEF CancelOrder
<1>2. CASE DestroyMatch(e, tx)
  BY <1>2, <1>i, Routes DEF DestroyMatch
<1>3. CASE MatchOrder(e, tx)
  <2>1. IsOrder(cells[e]) /\ IsMatch(tx.output)
    BY <1>3, <1>i, Routes DEF MatchOrder
  <2>2. tx.output \in MatchCell /\ tx.output.channel \in Channel
    BY <2>1, OutputTyped DEF MatchCell
  <2>3. /\ tx.output.last = 0
        /\ channels[tx.output.channel].block \in 0..tip
        /\ channels[tx.output.channel].block > block[e]
    <3>1. OrderMatch(tx, channels)
      BY <1>3 DEF MatchOrder
    <3> QED BY <1>i, <3>1 DEF OrderMatch, ChannelNewer
  <2>4. orderBlock[e] = block[e]
    BY <1>0, <2>1 DEF OrderDated
  <2> QED BY <1>0, <1>3, <2>2, <2>3, <2>4 DEF MatchOrder
<1>4. CASE ExtractRent(e, tx)
  <2>1. IsMatch(cells[e]) /\ IsMatch(tx.output) /\ SameMatchArgs(cells[e], tx.output)
    BY <1>4, <1>i, Routes DEF ExtractRent
  <2>2. tx.output \in MatchCell
    BY <2>1, OutputTyped
  <2>3. tx.output.last \in 0..tip
    BY <1>4, <1>i DEF ExtractRent, SellerExtracts, ClockAtTip
  <2>4. /\ orderBlock[e] < channels[tx.output.channel].block
        /\ channels[tx.output.channel].block < block[e]
        /\ block[e] <= tip + 1
    BY <1>0, <2>1 DEF ChannelBetween, ClockWithinChain, SameMatchArgs
  <2>5. channels[tx.output.channel].block \in Nat
    BY <2>2, EscrowAssumption DEF MatchCell, TypeOK
  <2> QED BY <1>0, <1>4, <2>2, <2>3, <2>4, <2>5 DEF ExtractRent
<1>5. CASE UpdateMatch(e, tx)
  <2>1. IsMatch(cells[e]) /\ IsMatch(tx.output) /\ SameMatchArgs(cells[e], tx.output)
    BY <1>5, <1>i, Routes DEF UpdateMatch
  <2>2. tx.output \in MatchCell
    BY <2>1, OutputTyped
  <2>3. tx.output.last \in 0..tip
    <3>1. tx.output.last = cells[e].last
      BY <1>5, <1>i DEF UpdateMatch, BuyerUpdates
    <3>2. cells[e].last \in Nat /\ cells[e].last <= tip
      BY <1>0, <1>i, <2>1, CellKinds, VerifierAssumption DEF TypeOK, MatchCell, U64, ClockWithinChain
    <3> QED BY <1>0, <3>1, <3>2
  <2>4. /\ orderBlock[e] < channels[tx.output.channel].block
        /\ channels[tx.output.channel].block < block[e]
        /\ block[e] <= tip + 1
    BY <1>0, <2>1 DEF ChannelBetween, ClockWithinChain, SameMatchArgs
  <2>5. channels[tx.output.channel].block \in Nat
    BY <2>2, EscrowAssumption DEF MatchCell, TypeOK
  <2> QED BY <1>0, <1>5, <2>2, <2>3, <2>4, <2>5 DEF UpdateMatch
<1> QED BY <1>1, <1>2, <1>3, <1>4, <1>5 DEF Commit

-----------------------------------------------------------------------------
(* The invariant is inductive: one lemma per group of actions.              *)

LEMMA InitInv == Init => Inv
<1> SUFFICES ASSUME Init PROVE Inv
  OBVIOUS
<1>1. TypeOK
  BY VerifierAssumption, EscrowAssumption
     DEF Init, TypeOK, Cell, NoChannelCell, U64, Types
<1>2. \A e \in Slot : ~IsMatch(cells[e]) /\ ~IsOrder(cells[e])
  BY CellKinds DEF Init
<1> QED BY <1>1, <1>2 DEF Inv, ClockWithinChain, ChannelBetween, OrderDated

LEMMA MineInv == ASSUME Inv, Mine PROVE Inv'
<1> USE DEF Inv, Mine
<1>0. tip \in Nat /\ tip' = tip + 1 /\ MaxTip \in Nat
  BY EscrowAssumption DEF TypeOK
<1>1. TypeOK'
  BY <1>0 DEF TypeOK
<1>2. ClockWithinChain'
  <2> SUFFICES ASSUME NEW e \in Slot, IsMatch(cells[e])
               PROVE  cells[e].last <= tip' /\ block[e] <= tip' + 1
    BY DEF ClockWithinChain, IsMatch
  <2>1. cells[e].last <= tip /\ block[e] <= tip + 1
    BY DEF ClockWithinChain
  <2>2. cells[e].last \in Int /\ block[e] \in Int
    BY CellKinds, VerifierAssumption, EscrowAssumption DEF TypeOK, MatchCell, U64
  <2> QED BY <1>0, <2>1, <2>2
<1>3. ChannelBetween' /\ OrderDated'
  BY DEF ChannelBetween, OrderDated, IsMatch, IsOrder
<1> QED BY <1>1, <1>2, <1>3

(* A channel a Match depends on is created already, so opening another one  *)
(* leaves its block alone; closing leaves every block alone.                *)
LEMMA ChannelInv ==
    ASSUME Inv, NEW c \in Channel,
           CloseChannel(c) \/ \E ch \in ChannelOffers : OpenChannel(c, ch)
    PROVE  Inv'
<1> USE DEF Inv
<1>0. tip \in 0..MaxTip /\ MaxTip \in Nat
  BY EscrowAssumption DEF TypeOK
<1>1. /\ UNCHANGED <<tip, cells, block, orderBlock>>
      /\ \A d \in Channel : Created(channels[d]) => channels'[d].block = channels[d].block
  BY DEF CloseChannel, OpenChannel, TypeOK, Created
<1>2. TypeOK'
  <2>1. CASE CloseChannel(c)
    BY <1>1, <2>1 DEF CloseChannel, TypeOK
  <2>2. CASE \E ch \in ChannelOffers : OpenChannel(c, ch)
    <3>1. PICK ch \in ChannelOffers : OpenChannel(c, ch)
      BY <2>2
    <3>2. ch \in ChannelCell
      BY EscrowAssumption
    <3> QED BY <1>0, <1>1, <3>1, <3>2 DEF OpenChannel, TypeOK, ChannelCell
  <2> QED BY <2>1, <2>2
<1>3. ClockWithinChain' /\ OrderDated'
  BY <1>1 DEF ClockWithinChain, OrderDated, IsMatch, IsOrder
<1>4. ChannelBetween'
  <2> SUFFICES ASSUME NEW e \in Slot, IsMatch(cells[e])
               PROVE  /\ orderBlock[e] < channels'[cells[e].channel].block
                      /\ channels'[cells[e].channel].block < block[e]
    BY <1>1 DEF ChannelBetween, IsMatch
  <2>1. cells[e].channel \in Channel
    BY CellKinds DEF TypeOK, MatchCell
  <2>2. /\ orderBlock[e] < channels[cells[e].channel].block
        /\ channels[cells[e].channel].block < block[e]
    BY DEF ChannelBetween
  <2>3. Created(channels[cells[e].channel])
    BY <1>0, <2>1, <2>2 DEF TypeOK, Created
  <2> QED BY <1>1, <2>1, <2>2, <2>3
<1> QED BY <1>2, <1>3, <1>4

LEMMA CreateOrderInv ==
    ASSUME Inv, NEW e \in Slot, NEW order \in OrderOffers, CreateOrder(e, order)
    PROVE  Inv'
<1> USE DEF Inv
<1>0. tip \in 0..MaxTip /\ MaxTip \in Nat
  BY EscrowAssumption DEF TypeOK
<1>1. order \in OrderCell
  BY EscrowAssumption
<1>2. TypeOK'
  BY <1>0, <1>1 DEF CreateOrder, TypeOK, Cell
<1>3. \A d \in Slot : IsMatch(cells'[d]) =>
         cells'[d] = cells[d] /\ block'[d] = block[d] /\ orderBlock'[d] = orderBlock[d]
  BY <1>1, CellKinds DEF CreateOrder, TypeOK
<1>4. ClockWithinChain' /\ ChannelBetween'
  BY <1>3 DEF CreateOrder, ClockWithinChain, ChannelBetween
<1>5. OrderDated'
  BY <1>0 DEF CreateOrder, TypeOK, OrderDated
<1> QED BY <1>2, <1>4, <1>5

LEMMA CommitInv ==
    ASSUME Inv, NEW e, NEW new, NEW tx, Submitted(e, new, tx), Commit(e, tx)
    PROVE  Inv'
<1> USE DEF Inv
<1>0. e \in Slot /\ tip \in 0..MaxTip /\ MaxTip \in Nat
  BY EscrowAssumption DEF Submitted, TypeOK
<1>1. Spend(e, tx)
  BY CommitEffect
<1>2. /\ block'[e] = tip + 1
      /\ \A d \in Slot : d # e => cells'[d] = cells[d] /\ block'[d] = block[d]
      /\ cells' = [cells EXCEPT ![e] = cells'[e]]
      /\ block' = [block EXCEPT ![e] = tip + 1]
      /\ tip' = tip /\ channels' = channels /\ orderBlock' = orderBlock
  BY <1>0, <1>1, SpendEffect
<1>3. \/ cells'[e] = Spent
      \/ /\ cells'[e] \in MatchCell
         /\ cells'[e].last \in 0..tip
         /\ orderBlock[e] < channels[cells'[e].channel].block
         /\ channels[cells'[e].channel].block < tip + 1
  BY <1>0, <1>1, CommitEffect, SpendEffect, CellKinds
<1>4. cells'[e] \in Cell /\ ~IsOrder(cells'[e])
  BY <1>3, CellKinds DEF Cell
<1>5. TypeOK'
  BY <1>0, <1>2, <1>4 DEF TypeOK
<1>6. ClockWithinChain'
  <2> SUFFICES ASSUME NEW d \in Slot, IsMatch(cells'[d])
               PROVE  cells'[d].last <= tip /\ block'[d] <= tip + 1
    BY <1>2 DEF ClockWithinChain
  <2>1. CASE d = e
    BY <1>0, <1>2, <1>3, <2>1, CellKinds
  <2>2. CASE d # e
    BY <1>2, <2>2 DEF ClockWithinChain
  <2> QED BY <2>1, <2>2
<1>7. ChannelBetween'
  <2> SUFFICES ASSUME NEW d \in Slot, IsMatch(cells'[d])
               PROVE  /\ orderBlock[d] < channels[cells'[d].channel].block
                      /\ channels[cells'[d].channel].block < block'[d]
    BY <1>2 DEF ChannelBetween
  <2>1. CASE d = e
    BY <1>2, <1>3, <2>1, CellKinds
  <2>2. CASE d # e
    BY <1>2, <2>2 DEF ChannelBetween
  <2> QED BY <2>1, <2>2
<1>8. OrderDated'
  BY <1>2, <1>4 DEF OrderDated
<1> QED BY <1>5, <1>6, <1>7, <1>8

LEMMA StepInv == Inv /\ [AnyStep]_vars => Inv'
<1> SUFFICES ASSUME Inv, [AnyStep]_vars PROVE Inv'
  OBVIOUS
<1>1. CASE Mine
  BY <1>1, MineInv
<1>2. CASE \E c \in Channel : CloseChannel(c) \/ \E ch \in ChannelOffers : OpenChannel(c, ch)
  BY <1>2, ChannelInv
<1>3. CASE \E e \in Slot : \E order \in OrderOffers : CreateOrder(e, order)
  BY <1>3, CreateOrderInv
<1>4. CASE \E e, new, tx : Submitted(e, new, tx) /\ Commit(e, tx)
  BY <1>4, CommitInv
<1>5. CASE UNCHANGED vars
  BY <1>5 DEF vars, Inv, TypeOK, ClockWithinChain, ChannelBetween, OrderDated
<1> QED BY <1>1, <1>2, <1>3, <1>4, <1>5 DEF AnyStep

THEOREM Invariance == Spec => []Inv
BY InitInv, StepInv, NextIsAny, PTL DEF Spec

(* The state space is typed: cells are Orders or Matches with u64 fields.   *)
THEOREM TypeCorrect == Spec => []TypeOK
BY Invariance, PTL DEF Inv

(* No extraction clock runs ahead of the chain.                             *)
THEOREM ClockSafe == Spec => []ClockWithinChain
BY Invariance, PTL DEF Inv

(* Order, channel and Match are created in this order.                      *)
THEOREM ChannelSafe == Spec => []ChannelBetween
BY Invariance, PTL DEF Inv

-----------------------------------------------------------------------------
(* Action properties.  Only a commit changes a live cell, and only its own. *)

LEMMA OnlyCommits ==
    ASSUME Inv, [AnyStep]_vars, NEW d \in Slot, Live(cells[d])
    PROVE  \/ cells'[d] = cells[d] /\ block'[d] = block[d]
           \/ \E new, tx : Submitted(d, new, tx) /\ Commit(d, tx)
<1>1. CASE Mine
  BY <1>1 DEF Mine
<1>2. CASE \E c \in Channel : CloseChannel(c) \/ \E ch \in ChannelOffers : OpenChannel(c, ch)
  BY <1>2 DEF CloseChannel, OpenChannel
<1>3. CASE \E e \in Slot : \E order \in OrderOffers : CreateOrder(e, order)
  BY <1>3, CellKinds DEF CreateOrder, Inv, TypeOK, Live
<1>4. CASE \E e, new, tx : Submitted(e, new, tx) /\ Commit(e, tx)
  <2>0. PICK e, new, tx : Submitted(e, new, tx) /\ Commit(e, tx)
    BY <1>4
  <2>1. Commit(e, tx)
    BY <2>0
  <2>2. Submitted(e, new, tx)
    BY <2>0
  <2>3. CASE d = e
    BY <2>1, <2>2, <2>3
  <2>4. CASE d # e
    <3>1. Spend(e, tx) /\ e \in Slot /\ TypeOK
      BY <2>1, <2>2, CommitEffect DEF Submitted, Inv
    <3> QED BY <2>4, <3>1, SpendEffect
  <2> QED BY <2>3, <2>4
<1>5. CASE UNCHANGED vars
  BY <1>5 DEF vars
<1> QED BY <1>1, <1>2, <1>3, <1>4, <1>5 DEF AnyStep

LEMMA CommitTerms ==
    ASSUME Inv, NEW e, NEW new, NEW tx, Submitted(e, new, tx), Commit(e, tx)
    PROVE  TermsKept(e)
<1>0. e \in Slot /\ tx.input = cells[e] /\ TypeOK
  BY InputTyped DEF Submitted, Inv
<1>1. Spend(e, tx)
  BY CommitEffect
<1>2. cells'[e] = IF tx.output = NoCell THEN Spent ELSE tx.output
  BY <1>0, <1>1, SpendEffect
<1>3. CASE tx.output = NoCell
  BY <1>2, <1>3, CellKinds DEF TermsKept, Live
<1>4. CASE tx.output # NoCell
  <2>1. cells'[e] = tx.output
    BY <1>2, <1>4
  <2>2. CASE MatchOrder(e, tx)
    <3>1. Compare(cells[e], cells'[e]) = "order_match" /\ OrderMatch(tx, channels)
      BY <1>0, <2>1, <2>2 DEF MatchOrder
    <3>2. IsOrder(cells[e]) /\ cells[e].orderArgs = cells'[e].orderArgs
          /\ SameXudt(cells[e], cells'[e]) /\ cells'[e].rate = cells[e].rate
      BY <1>0, <2>1, <3>1, Routes DEF OrderMatch
    <3>3. ~IsMatch(cells[e])
      BY <3>2 DEF IsOrder, IsMatch
    <3> QED BY <3>2, <3>3 DEF TermsKept, SameXudt
  <2>3. CASE ExtractRent(e, tx) \/ UpdateMatch(e, tx)
    <3>1. Compare(cells[e], cells'[e]) = "match_update" /\ SameRate(tx)
      BY <1>0, <2>1, <2>3 DEF ExtractRent, UpdateMatch, SellerExtracts, BuyerUpdates
    <3>2. IsMatch(cells'[e]) /\ SameMatchArgs(cells[e], cells'[e])
          /\ SameXudt(cells[e], cells'[e]) /\ cells'[e].rate = cells[e].rate
      BY <1>0, <2>1, <3>1, Routes DEF SameRate
    <3> QED BY <3>2 DEF TermsKept, SameXudt, SameMatchArgs
  <2>4. CASE CancelOrder(e, tx) \/ DestroyMatch(e, tx)
    BY <1>4, <2>4, Routes DEF CancelOrder, DestroyMatch
  <2> QED BY <2>2, <2>3, <2>4 DEF Commit
<1> QED BY <1>3, <1>4

LEMMA TermsStep ==
    Inv /\ [AnyStep]_vars => AllTermsKept
<1> SUFFICES ASSUME Inv, [AnyStep]_vars, NEW e \in Slot
             PROVE  TermsKept(e)
  BY DEF AllTermsKept
<1>1. CASE Live(cells[e])
  <2>1. CASE cells'[e] = cells[e]
    BY <2>1 DEF TermsKept
  <2>2. CASE \E new, tx : Submitted(e, new, tx) /\ Commit(e, tx)
    BY <2>2, CommitTerms
  <2> QED BY <1>1, <2>1, <2>2, OnlyCommits
<1>2. CASE ~Live(cells[e])
  BY <1>2 DEF TermsKept
<1> QED BY <1>1, <1>2

(* No transaction of any client changes the terms of an escrow.             *)
THEOREM TermsSafe == Spec => TermsFixed
<1>1. Inv /\ [AnyStep]_vars => [AllTermsKept]_vars
  BY TermsStep
<1> QED BY <1>1, NextIsAny, Invariance, PTL DEF Spec, TermsFixed

-----------------------------------------------------------------------------
(* Rent.  It grows with the header a transaction shows as the tip, and that *)
(* header is a mined block, so no transaction accounts for more than what   *)
(* has vested at the real tip.                                              *)

LEMMA TimesMonotone ==
    ASSUME NEW r \in Nat, NEW a \in Nat, NEW b \in Nat, a <= b
    PROVE  r * a <= r * b /\ r * a \in Nat /\ r * b \in Nat
<1> DEFINE d == b - a
<1>1. d \in Nat /\ b = a + d
  OBVIOUS
<1> HIDE DEF d
<1>2. r * d \in Nat /\ r * a \in Nat
  BY <1>1
<1>3. r * b = r * a + r * d
  BY <1>1
<1> QED BY <1>2, <1>3

LEMMA RentMonotone ==
    ASSUME NEW c \in MatchCell, NEW b \in Nat, NEW h \in Nat, NEW t \in Nat, h <= t
    PROVE  Rent(c, b, h) <= Rent(c, b, t) /\ Rent(c, b, h) \in Nat /\ Rent(c, b, t) \in Nat
<1> DEFINE base == BaseBlock(c, b)
<1>1. c.rate \in Nat /\ c.last \in Nat
  BY VerifierAssumption DEF MatchCell, U64
<1>2. base \in Nat
  BY <1>1 DEF BaseBlock
<1>3. Monus(h, base) \in Nat /\ Monus(t, base) \in Nat /\ Monus(h, base) <= Monus(t, base)
  BY <1>2 DEF Monus
<1> QED BY <1>1, <1>3, TimesMonotone DEF Rent

LEMMA ValueNat == \A c \in OrderCell \cup MatchCell : Value(c) \in Nat
<1> SUFFICES ASSUME NEW c \in OrderCell \cup MatchCell PROVE Value(c) \in Nat
  OBVIOUS
<1>1. c.amount \in Nat /\ c.capacity \in Nat
  BY VerifierAssumption DEF OrderCell, MatchCell, U64
<1>2. Occupied(c) \in Nat
  BY VerifierAssumption DEF Occupied
<1> QED BY <1>1, <1>2 DEF Value, Unoccupied, Monus

(* An extraction takes the rent of its header from the value of the cell.   *)
LEMMA ExtractionTakes ==
    ASSUME Inv, NEW e, NEW new, NEW tx, Submitted(e, new, tx), ExtractRent(e, tx)
    PROVE  /\ Value(cells[e]) - Value(tx.output) <= TxRent(tx)
           /\ Value(tx.output) > 0
<1>1. tx.input = cells[e] /\ TypeOK /\ tx.header0 \in 0..tip
      /\ tip \in Nat /\ block[e] \in Nat /\ tx.inputBlock = block[e]
  BY InputTyped, EscrowAssumption DEF Inv, TypeOK, Submitted
<1>2. SellerExtracts(tx) /\ Compare(tx.input, tx.output) = "match_update"
  BY DEF ExtractRent
<1>3. /\ IsMatch(tx.input) /\ IsMatch(tx.output)
      /\ HasXudt(tx.output) <=> HasXudt(tx.input)
  BY <1>2, Routes DEF SameXudt, HasXudt
<1>4. tx.input \in MatchCell /\ tx.output \in MatchCell
  BY <1>1, <1>3, OutputTyped, CellKinds DEF TypeOK, Submitted
<1>5. Value(tx.input) \in Nat /\ Value(tx.output) \in Nat /\ TxRent(tx) \in Nat
  <2>1. Value(tx.input) \in Nat /\ Value(tx.output) \in Nat
    BY <1>4, ValueNat
  <2>2. tx.header0 \in Nat /\ tx.inputBlock \in Nat
    BY <1>1
  <2>3. tx.header0 <= tx.header0
    BY <2>2
  <2>4. Rent(tx.input, tx.inputBlock, tx.header0) \in Nat
    BY <1>4, <2>2, <2>3, RentMonotone, Zenon
  <2> QED BY <2>1, <2>4 DEF TxRent
<1>6. TxRent(tx) = Monus(Value(tx.input), Value(tx.output))
  BY <1>2, <1>3 DEF SellerExtracts, RentTaken, Value
<1>7. Value(tx.input) > TxRent(tx)
  BY <1>2, <1>5 DEF SellerExtracts, IsExhausted
<1> QED BY <1>1, <1>5, <1>6, <1>7 DEF Monus

LEMMA CommitTakes ==
    ASSUME Inv, NEW e, NEW new, NEW tx, Submitted(e, new, tx), Commit(e, tx)
    PROVE  TakesVested(e)
<1> SUFFICES ASSUME IsMatch(cells[e]) PROVE TakesVested(e)
  BY DEF TakesVested
<1>1. /\ e \in Slot /\ TypeOK /\ tip \in Nat /\ block[e] \in Nat
      /\ tx.input = cells[e] /\ tx.inputBlock = block[e]
      /\ tx.header0 \in Nat /\ tx.header0 <= tip
  BY InputTyped, EscrowAssumption DEF Submitted, Inv, TypeOK
<1>2. cells[e] \in MatchCell
  BY <1>1, CellKinds DEF TypeOK
<1>3. TxRent(tx) <= Vested(e) /\ TxRent(tx) \in Nat /\ Vested(e) \in Nat
  BY <1>1, <1>2, RentMonotone DEF TxRent, Vested
<1>4. Value(cells[e]) \in Nat
  BY <1>2, ValueNat
<1>5. cells'[e] = IF tx.output = NoCell THEN Spent ELSE tx.output
  BY <1>1, CommitEffect, SpendEffect
<1>6. ~IsOrder(cells[e])
  BY <1>2, CellKinds
<1>7. CASE DestroyMatch(e, tx)
  <2>1. tx.output = NoCell /\ Value(cells[e]) <= TxRent(tx)
    BY <1>1, <1>7, Routes DEF DestroyMatch, MatchDestroy, IsExhausted
  <2>2. cells'[e] = Spent /\ ~IsMatch(cells'[e])
    BY <1>5, <2>1, CellKinds
  <2> QED BY <1>3, <1>4, <2>1, <2>2 DEF TakesVested
<1>8. CASE ExtractRent(e, tx)
  <2>1. IsMatch(tx.output)
    BY <1>8, Routes DEF ExtractRent
  <2>2. cells'[e] = tx.output /\ cells'[e] # Spent /\ tx.output \in MatchCell
    BY <1>1, <1>5, <2>1, OutputTyped, CellKinds
  <2>3. /\ Value(cells[e]) - Value(tx.output) <= TxRent(tx)
        /\ Value(tx.output) > 0
    BY <1>8, ExtractionTakes
  <2>4. Value(tx.output) \in Nat
    BY <2>2, ValueNat
  <2> QED BY <1>3, <1>4, <2>2, <2>3, <2>4 DEF TakesVested
<1>9. CASE UpdateMatch(e, tx)
  <2>1. IsMatch(tx.output) /\ tx.output.last = cells[e].last
    BY <1>1, <1>9, Routes DEF UpdateMatch, BuyerUpdates
  <2>2. cells'[e] = tx.output /\ cells'[e] # Spent
    BY <1>1, <1>5, <2>1, OutputTyped, CellKinds
  <2> QED BY <2>1, <2>2 DEF TakesVested
<1>10. CASE CancelOrder(e, tx) \/ MatchOrder(e, tx)
  BY <1>1, <1>6, <1>10, Routes DEF CancelOrder, MatchOrder
<1> QED BY <1>7, <1>8, <1>9, <1>10 DEF Commit

LEMMA TakesStep == Inv /\ [AnyStep]_vars => [AllTakeVested]_vars
<1> SUFFICES ASSUME Inv, [AnyStep]_vars, NEW e \in Slot, IsMatch(cells[e])
             PROVE  TakesVested(e)
  BY DEF AllTakeVested, TakesVested
<1>1. CASE cells'[e] = cells[e]
  <2>1. cells[e] # Spent
    BY CellKinds
  <2> QED BY <1>1, <2>1 DEF TakesVested
<1>2. CASE \E new, tx : Submitted(e, new, tx) /\ Commit(e, tx)
  BY <1>2, CommitTakes
<1> QED BY <1>1, <1>2, OnlyCommits DEF Live

(* Whatever tip a transaction claims, a seller is never paid more than what *)
(* has vested at the real one, and ends a Match only when it is used up.    *)
THEOREM VestedSafe == Spec => OnlyVested
BY TakesStep, NextIsAny, Invariance, PTL DEF Spec, OnlyVested

-----------------------------------------------------------------------------
(* The end of a used-up Match: the first block whose rent reaches the value *)
(* is within one rate of it, so the rent fits u64 there.                    *)

LEMMA FirstReached ==
    ASSUME NEW k \in Nat, k > 0, NEW v \in Nat, NEW n \in Nat, v <= k * n
    PROVE  \E q \in 0..n : v <= k * q /\ k * q < v + k
<1> DEFINE a == v + (k - 1)
           q == a \div k
<1>1. a \in Nat /\ q \in Nat
  OBVIOUS
<1>2. k * q <= a /\ a < k * q + k
  <2>1. a % k \in 0..(k - 1) /\ a = k * q + (a % k)
    BY <1>1
  <2>2. k * q \in Nat
    BY <1>1
  <2> HIDE DEF a, q
  <2> QED BY <1>1, <2>1, <2>2
<1>3. v <= k * q /\ k * q < v + k
  <2>1. k * q \in Nat
    BY <1>1
  <2> DEFINE p == k * q
  <2> QED BY <1>1, <1>2, <2>1
<1>4. q <= n
  <2> SUFFICES ASSUME q > n PROVE FALSE
    BY <1>1
  <2>1. k * n + k <= k * q
    <3> HIDE DEF q
    <3>1. n + 1 <= q /\ q \in Nat
      BY <1>1
    <3>2. k * (n + 1) <= k * q
      BY <3>1, TimesMonotone
    <3>3. k * (n + 1) = k * n + k
      OBVIOUS
    <3> QED BY <3>2, <3>3
  <2>2. k * n \in Nat /\ k * q \in Nat
    BY <1>1
  <2> HIDE DEF q, a
  <2> QED BY <1>3, <2>1, <2>2
<1> HIDE DEF q, a
<1> QED BY <1>1, <1>3, <1>4

LEMMA EndAccepted ==
    ASSUME Inv, NEW e \in Slot, IsMatch(cells[e]), block[e] <= tip,
           NEW t \in 0..tip,
           Value(cells[e]) <= Rent(cells[e], block[e], t),
           Rent(cells[e], block[e], t) <= U64Max
    PROVE  Accepts(EndTx(e, t), channels)
<1> DEFINE tx == EndTx(e, t)
<1>1. /\ tx.input = cells[e] /\ tx.inputBlock = block[e] /\ tx.output = NoCell
      /\ tx.auth = {cells[e].seller} /\ tx.headers = 0..tip /\ tx.header0 = t
  BY DEF EndTx
<1>2. block[e] \in 0..tip
  BY EscrowAssumption DEF Inv, TypeOK
<1>3. TxRent(tx) = Rent(cells[e], block[e], t)
  BY <1>1 DEF TxRent
<1>4. RentIsKnown(tx) /\ IsExhausted(tx)
  BY <1>1, <1>2, <1>3 DEF RentIsKnown, IsExhausted
<1>5. Compare(cells[e], NoCell) = "match_destroy"
  BY CellKinds DEF Compare, NoOutput, Inv, TypeOK, IsOrder, IsMatch
<1> QED BY <1>1, <1>4, <1>5 DEF MatchDestroy, Accepts

LEMMA InvEndOpen == Inv => EndOpen
<1> SUFFICES ASSUME Inv, NEW e \in Slot, IsMatch(cells[e]), block[e] <= tip,
                    Value(cells[e]) <= Vested(e),
                    Value(cells[e]) + cells[e].rate <= U64Max + 1
             PROVE  \E t \in 0..tip : Accepts(EndTx(e, t), channels)
  BY DEF EndOpen
<1> DEFINE c == cells[e]
           base == BaseBlock(c, block[e])
           v == Value(c)
           k == c.rate
<1>1. c \in MatchCell /\ tip \in Nat /\ block[e] \in Nat /\ c.last <= tip
  BY CellKinds, EscrowAssumption DEF Inv, TypeOK, ClockWithinChain
<1>2. k \in Nat /\ c.last \in Nat /\ v \in Nat /\ base \in 0..tip /\ U64Max \in Nat
  BY <1>1, ValueNat, VerifierAssumption DEF MatchCell, U64, BaseBlock
<1>3. \A t \in Nat : t >= base => Rent(c, block[e], t) = k * (t - base)
  BY <1>2 DEF Rent, Monus
<1>4. v <= k * (tip - base)
  BY <1>1, <1>2, <1>3 DEF Vested
<1>5. CASE k = 0
  <2>1. v = 0 /\ Rent(c, block[e], tip) = 0
    BY <1>1, <1>2, <1>3, <1>4, <1>5
  <2> QED BY <1>1, <1>2, <2>1, EndAccepted
<1>6. CASE k > 0
  <2>1. tip - base \in Nat
    BY <1>1, <1>2
  <2>2. PICK q \in 0..(tip - base) : v <= k * q /\ k * q < v + k
    <3> HIDE DEF k, v, base
    <3> QED BY <1>2, <1>4, <1>6, <2>1, FirstReached
  <2>3. base + q \in 0..tip /\ base + q >= base /\ (base + q) - base = q
    BY <1>1, <1>2
  <2>4. Rent(c, block[e], base + q) = k * q
    BY <1>3, <2>3
  <2>5. k * q <= U64Max
    <3> DEFINE p == k * q
    <3>1. p \in Nat
      BY <1>2
    <3> HIDE DEF k, v, p
    <3> QED BY <1>2, <2>2, <3>1 DEF p, k, v
  <2> HIDE DEF base
  <2> QED BY <2>2, <2>3, <2>4, <2>5, EndAccepted
<1> QED BY <1>2, <1>5, <1>6

(* A used-up Match can be ended by the seller, whatever its rent has grown  *)
(* to, unless its value is within one rate of the limit of u64.             *)
THEOREM EndReachable == Spec => []EndOpen
BY Invariance, InvEndOpen, PTL

-----------------------------------------------------------------------------
(* Cell deps and header deps other than HeaderDep[0] only help: whatever    *)
(* the verifier accepts it also accepts with more of them.  So Transactions *)
(* may name all there are without losing a transaction of any client.       *)

MoreDeps(tx, more) ==
    /\ more.input = tx.input /\ more.inputBlock = tx.inputBlock
    /\ more.output = tx.output /\ more.auth = tx.auth /\ more.header0 = tx.header0
    /\ tx.deps \subseteq more.deps /\ tx.headers \subseteq more.headers

LEMMA MoreDepsEach ==
    ASSUME NEW chan, NEW tx, NEW more, MoreDeps(tx, more)
    PROVE  /\ OrderCancel(tx) => OrderCancel(more)
           /\ OrderMatch(tx, chan) => OrderMatch(more, chan)
           /\ SellerExtracts(tx) => SellerExtracts(more)
           /\ BuyerUpdates(tx) => BuyerUpdates(more)
           /\ MatchDestroy(tx) => MatchDestroy(more)
<1> USE DEF MoreDeps
<1>1. FindChannel(tx, chan) => FindChannel(more, chan)
  BY DEF FindChannel
<1>2. TxRent(more) = TxRent(tx) /\ (RentIsKnown(tx) => RentIsKnown(more))
  BY DEF TxRent, RentIsKnown
<1>3. IsExhausted(more) <=> IsExhausted(tx)
  BY <1>2 DEF IsExhausted
<1>4. OrderCancel(tx) => OrderCancel(more)
  BY DEF OrderCancel
<1>5. OrderMatch(tx, chan) => OrderMatch(more, chan)
  BY <1>1 DEF OrderMatch, PoolTransferred, ChannelNewer
<1>6. SellerExtracts(tx) => SellerExtracts(more)
  BY <1>2, <1>3 DEF SellerExtracts, SameRate, RentTaken, ClockAtTip
<1>7. BuyerUpdates(tx) => BuyerUpdates(more)
  BY DEF BuyerUpdates, SameRate
<1>8. MatchDestroy(tx) => MatchDestroy(more)
  BY <1>2, <1>3 DEF MatchDestroy
<1> QED BY <1>4, <1>5, <1>6, <1>7, <1>8

(* With more cell deps and header deps the verifier accepts no less.        *)
THEOREM MoreDepsAccepted ==
    ASSUME NEW chan, NEW tx, NEW more, MoreDeps(tx, more), Accepts(tx, chan)
    PROVE  Accepts(more, chan)
BY MoreDepsEach DEF MoreDeps, Accepts, MatchUpdate

-----------------------------------------------------------------------------
(* The lock script keeps the promise of RentStream: every step of Escrow is *)
(* a step of the rent stream or leaves it alone, for any instance.          *)

(* The stream a cell stands for, branch by branch.                          *)
LEMMA StreamKinds ==
    ASSUME NEW b
    PROVE  /\ StreamOf(NoCell, b) = Promise!None
           /\ StreamOf(Spent, b) = Promise!Closed
           /\ \A c \in OrderCell : StreamOf(c, b) =
                 [phase |-> "offered", pool |-> Value(c), rate |-> c.rate, since |-> 0]
           /\ \A c \in MatchCell : StreamOf(c, b) =
                 [phase |-> "streaming", pool |-> Value(c), rate |-> c.rate,
                  since |-> BaseBlock(c, b)]
<1>1. NoCell # Spent
  BY DEF NoCell, Spent
<1> QED BY <1>1, CellKinds DEF StreamOf, Promise!None, Promise!Closed

(* A step that changes one escrow changes one stream.                       *)
LEMMA OneStream ==
    ASSUME NEW e \in Slot,
           \A d \in Slot : d # e => cells'[d] = cells[d] /\ block'[d] = block[d]
    PROVE  /\ streams[e] = StreamOf(cells[e], block[e])
           /\ streams'[e] = StreamOf(cells'[e], block'[e])
           /\ streams' = [streams EXCEPT ![e] = streams'[e]]
BY DEF streams

(* What is due in the stream is the rent of the cell.                       *)
LEMMA DueIsRent ==
    ASSUME NEW c \in MatchCell, NEW b \in Nat, NEW t \in Nat
    PROVE  Promise!Due(StreamOf(c, b), t) = Rent(c, b, t)
<1>1. c.rate \in Nat /\ BaseBlock(c, b) \in Nat
  BY VerifierAssumption DEF MatchCell, U64, BaseBlock
<1>2. StreamOf(c, b).rate = c.rate /\ StreamOf(c, b).since = BaseBlock(c, b)
  BY StreamKinds
<1>3. CASE t >= BaseBlock(c, b)
  BY <1>2, <1>3 DEF Promise!Due, Rent, Monus
<1>4. CASE ~(t >= BaseBlock(c, b))
  <2>1. Rent(c, b, t) = c.rate * 0 /\ Promise!Due(StreamOf(c, b), t) = 0
    BY <1>2, <1>4 DEF Promise!Due, Rent, Monus
  <2> QED BY <1>1, <2>1
<1> QED BY <1>3, <1>4

-----------------------------------------------------------------------------
(* Steps.                                                                   *)

LEMMA MineStep == Mine => Promise!Tick
BY DEF Mine, Promise!Tick, streams

LEMMA ChannelStep ==
    ASSUME NEW c \in Channel,
           CloseChannel(c) \/ \E ch \in ChannelOffers : OpenChannel(c, ch)
    PROVE  UNCHANGED Promise!vars
BY DEF CloseChannel, OpenChannel, Promise!vars, streams

LEMMA CreateOrderStep ==
    ASSUME Inv, NEW e \in Slot, NEW order \in OrderOffers, CreateOrder(e, order)
    PROVE  Promise!Offer(e)
<1>1. order \in OrderCell /\ Value(order) \in Nat
  BY EscrowAssumption, ValueNat
<1>2. /\ cells[e] = NoCell /\ cells'[e] = order /\ tip' = tip
      /\ \A d \in Slot : d # e => cells'[d] = cells[d] /\ block'[d] = block[d]
  BY DEF CreateOrder, Inv, TypeOK
<1>3. /\ streams[e] = Promise!None /\ streams' = [streams EXCEPT ![e] = streams'[e]]
      /\ streams'[e] = StreamOf(order, block'[e])
  BY <1>2, OneStream, StreamKinds
<1>4. streams'[e].phase = "offered" /\ streams'[e].pool \in Nat
  BY <1>1, <1>3, StreamKinds
<1> QED BY <1>2, <1>3, <1>4 DEF Promise!Offer, Promise!Becomes

LEMMA CommitStream ==
    ASSUME Inv, NEW e, NEW new, NEW tx, Submitted(e, new, tx), Commit(e, tx)
    PROVE  /\ e \in Slot /\ tip \in Nat /\ tip' = tip /\ block[e] \in Nat
           /\ tx.input = cells[e] /\ tx.inputBlock = block[e] /\ tx.header0 \in 0..tip
           /\ tx.input \in OrderCell \cup MatchCell
           /\ streams[e] = StreamOf(tx.input, block[e])
           /\ streams' = [streams EXCEPT ![e] = streams'[e]]
           /\ tx.output = NoCell => streams'[e] = Promise!Closed
           /\ tx.output # NoCell =>
                 tx.output \in MatchCell /\ streams'[e] = StreamOf(tx.output, tip + 1)
<1>1. e \in Slot /\ TypeOK /\ tip \in Nat /\ block[e] \in Nat
  BY EscrowAssumption DEF Submitted, Inv, TypeOK
<1>2. /\ tx.input = cells[e] /\ tx.inputBlock = block[e] /\ tx.header0 \in 0..tip
      /\ cells[e] \in OrderCell \cup MatchCell
  BY <1>1, InputTyped
<1>3. Spend(e, tx) /\ (tx.output # NoCell => tx.output \in MatchCell)
  BY CommitEffect
<1>4. /\ cells'[e] = IF tx.output = NoCell THEN Spent ELSE tx.output
      /\ block'[e] = tip + 1 /\ tip' = tip
      /\ \A d \in Slot : d # e => cells'[d] = cells[d] /\ block'[d] = block[d]
  BY <1>1, <1>3, SpendEffect
<1>5. /\ streams[e] = StreamOf(cells[e], block[e])
      /\ streams'[e] = StreamOf(cells'[e], block'[e])
      /\ streams' = [streams EXCEPT ![e] = streams'[e]]
  BY <1>1, <1>4, OneStream
<1> QED BY <1>1, <1>2, <1>3, <1>4, <1>5, StreamKinds

LEMMA CancelStep ==
    ASSUME Inv, NEW e, NEW new, NEW tx, Submitted(e, new, tx), CancelOrder(e, tx)
    PROVE  Promise!Withdraw(e)
<1>1. Commit(e, tx)
  BY DEF Commit
<1>2. IsOrder(tx.input) /\ tx.output = NoCell
  BY Routes DEF CancelOrder
<1>3. tx.input \in OrderCell
  BY <1>1, <1>2, CommitStream, CellKinds
<1>4. streams[e].phase = "offered"
  BY <1>1, <1>3, CommitStream, StreamKinds
<1> QED BY <1>1, <1>2, <1>4, CommitStream DEF Promise!Withdraw, Promise!Closes

LEMMA DestroyStep ==
    ASSUME Inv, NEW e, NEW new, NEW tx, Submitted(e, new, tx), DestroyMatch(e, tx)
    PROVE  tx.header0 \in 0..tip /\ Promise!Sweep(e, tx.header0)
<1>1. Commit(e, tx)
  BY DEF Commit
<1>2. IsMatch(tx.input) /\ tx.output = NoCell /\ MatchDestroy(tx)
  BY Routes DEF DestroyMatch
<1>3. tx.input \in MatchCell
  BY <1>1, <1>2, CommitStream, CellKinds
<1>4. streams[e].phase = "streaming" /\ streams[e].pool = Value(tx.input)
  BY <1>1, <1>3, CommitStream, StreamKinds
<1>5. Promise!Due(streams[e], tx.header0) = TxRent(tx)
  BY <1>1, <1>3, CommitStream, DueIsRent DEF TxRent
<1>6. Value(tx.input) <= TxRent(tx)
  BY <1>2 DEF MatchDestroy, IsExhausted
<1> QED BY <1>1, <1>2, <1>4, <1>5, <1>6, CommitStream DEF Promise!Sweep, Promise!Closes

LEMMA MatchStep ==
    ASSUME Inv, NEW e, NEW new, NEW tx, Submitted(e, new, tx), MatchOrder(e, tx)
    PROVE  Promise!Start(e)
<1>1. Commit(e, tx)
  BY DEF Commit
<1>2. /\ IsOrder(tx.input) /\ IsMatch(tx.output) /\ SameXudt(tx.input, tx.output)
      /\ OrderMatch(tx, channels)
  BY Routes DEF MatchOrder
<1>3. tx.output # NoCell
  BY <1>2, CellKinds
<1>4. tx.input \in OrderCell /\ tx.output \in MatchCell
  BY <1>1, <1>2, <1>3, CommitStream, CellKinds
<1>5. /\ Value(tx.output) = Value(tx.input) /\ tx.output.rate = tx.input.rate
      /\ BaseBlock(tx.output, tip + 1) = tip + 1
  BY <1>2 DEF OrderMatch, PoolTransferred, SameXudt, HasXudt, Value, BaseBlock
<1>6. /\ streams[e].phase = "offered" /\ streams[e].pool = Value(tx.input)
      /\ streams[e].rate = tx.input.rate
  BY <1>1, <1>4, CommitStream, StreamKinds
<1>7. /\ streams'[e].phase = "streaming" /\ streams'[e].pool = Value(tx.output)
      /\ streams'[e].rate = tx.output.rate
      /\ streams'[e].since = BaseBlock(tx.output, tip + 1)
  BY <1>1, <1>3, <1>4, CommitStream, StreamKinds
<1> QED BY <1>1, <1>5, <1>6, <1>7, CommitStream DEF Promise!Start, Promise!Becomes

(* What an accepted update leaves of the stream: both paths share this.     *)
LEMMA UpdateStream ==
    ASSUME Inv, NEW e, NEW new, NEW tx, Submitted(e, new, tx),
           ExtractRent(e, tx) \/ UpdateMatch(e, tx)
    PROVE  /\ tx.input \in MatchCell /\ tx.output \in MatchCell
           /\ HasXudt(tx.output) <=> HasXudt(tx.input)
           /\ streams[e].phase = "streaming" /\ streams[e].pool = Value(tx.input)
           /\ streams[e].since = BaseBlock(tx.input, block[e])
           /\ streams'[e].phase = "streaming" /\ streams'[e].pool = Value(tx.output)
           /\ streams'[e].since = BaseBlock(tx.output, tip + 1)
           /\ streams'[e].rate = streams[e].rate
<1>1. Commit(e, tx)
  BY DEF Commit
<1>2. /\ IsMatch(tx.input) /\ IsMatch(tx.output) /\ SameXudt(tx.input, tx.output)
      /\ tx.output.rate = tx.input.rate
  BY Routes DEF ExtractRent, UpdateMatch, SellerExtracts, BuyerUpdates, SameRate
<1>3. tx.output # NoCell
  BY <1>2, CellKinds
<1>4. tx.input \in MatchCell /\ tx.output \in MatchCell
  BY <1>1, <1>2, <1>3, CommitStream, CellKinds
<1>5. HasXudt(tx.output) <=> HasXudt(tx.input)
  BY <1>2 DEF SameXudt, HasXudt
<1>6. streams[e] = StreamOf(tx.input, block[e]) /\ streams'[e] = StreamOf(tx.output, tip + 1)
  BY <1>1, <1>3, CommitStream
<1>7. /\ streams[e].phase = "streaming" /\ streams[e].pool = Value(tx.input)
      /\ streams[e].since = BaseBlock(tx.input, block[e]) /\ streams[e].rate = tx.input.rate
  BY <1>4, <1>6, StreamKinds
<1>8. /\ streams'[e].phase = "streaming" /\ streams'[e].pool = Value(tx.output)
      /\ streams'[e].since = BaseBlock(tx.output, tip + 1)
      /\ streams'[e].rate = tx.output.rate
  BY <1>4, <1>6, StreamKinds
<1> QED BY <1>2, <1>4, <1>5, <1>7, <1>8

LEMMA ExtractStep ==
    ASSUME Inv, NEW e, NEW new, NEW tx, Submitted(e, new, tx), ExtractRent(e, tx)
    PROVE  tx.header0 \in 0..tip /\ Promise!Pay(e, tx.header0)
<1>1. Commit(e, tx) /\ SellerExtracts(tx)
  BY DEF Commit, ExtractRent
<1>2. tx.header0 \in 0..tip /\ tip \in Nat
  BY <1>1, CommitStream
<1>3. Promise!Due(streams[e], tx.header0) = TxRent(tx)
  BY <1>1, UpdateStream, CommitStream, DueIsRent DEF TxRent
<1>4. /\ streams[e].pool = Value(tx.input) /\ streams'[e].pool = Value(tx.output)
      /\ Value(tx.input) \in Nat /\ Value(tx.output) \in Nat
  BY UpdateStream, ValueNat
<1>5. TxRent(tx) \in Nat
  <2>1. tx.input \in MatchCell /\ tx.inputBlock \in Nat
    BY <1>1, CommitStream, UpdateStream
  <2>2. tx.header0 \in Nat /\ tx.header0 <= tip
    BY <1>2
  <2> QED BY <1>2, <2>1, <2>2, RentMonotone DEF TxRent
<1>6. TxRent(tx) = Monus(Value(tx.input), Value(tx.output))
  BY <1>1, UpdateStream DEF SellerExtracts, RentTaken, Value
<1>7. TxRent(tx) < Value(tx.input)
  BY <1>1, <1>4, <1>5 DEF SellerExtracts, IsExhausted
<1>8. streams'[e].since = IF tx.header0 = 0 THEN tip + 1 ELSE tx.header0
  BY <1>1, UpdateStream DEF SellerExtracts, ClockAtTip, BaseBlock
<1>9. IF TxRent(tx) > 0 THEN streams'[e].pool = streams[e].pool - TxRent(tx)
                        ELSE streams'[e].pool >= streams[e].pool
  BY <1>4, <1>5, <1>6 DEF Monus
<1> QED BY <1>1, <1>2, <1>3, <1>4, <1>7, <1>8, <1>9, CommitStream, UpdateStream
        DEF Promise!Pay, Promise!Becomes

LEMMA AdjustStep ==
    ASSUME Inv, NEW e, NEW new, NEW tx, Submitted(e, new, tx), UpdateMatch(e, tx)
    PROVE  Promise!Adjust(e)
<1>1. Commit(e, tx) /\ tx.output.last = tx.input.last
  BY DEF Commit, UpdateMatch, BuyerUpdates
<1>2. streams'[e].pool \in Nat
  BY UpdateStream, ValueNat
<1>3. streams'[e].since \in {streams[e].since, tip + 1}
  BY <1>1, UpdateStream DEF BaseBlock
<1> QED BY <1>1, <1>2, <1>3, CommitStream, UpdateStream DEF Promise!Adjust, Promise!Becomes

-----------------------------------------------------------------------------
(* The refinement.                                                          *)

LEMMA InitStream == Init => Promise!Init
BY StreamKinds DEF Init, Promise!Init, streams

LEMMA StepStream == Inv /\ [AnyStep]_vars => [Promise!Next]_(Promise!vars)
<1> SUFFICES ASSUME Inv, [AnyStep]_vars PROVE Promise!Next \/ UNCHANGED Promise!vars
  OBVIOUS
<1>1. CASE Mine
  BY <1>1, MineStep DEF Promise!Next
<1>2. CASE \E c \in Channel : CloseChannel(c) \/ \E ch \in ChannelOffers : OpenChannel(c, ch)
  BY <1>2, ChannelStep
<1>3. CASE \E e \in Slot : \E order \in OrderOffers : CreateOrder(e, order)
  BY <1>3, CreateOrderStep DEF Promise!Next
<1>4. CASE \E e, new, tx : Submitted(e, new, tx) /\ Commit(e, tx)
  <2>1. PICK e, new, tx : Submitted(e, new, tx) /\ Commit(e, tx)
    BY <1>4
  <2>2. e \in Slot
    BY <2>1 DEF Submitted
  <2>3. CASE CancelOrder(e, tx)
    BY <2>1, <2>2, <2>3, CancelStep DEF Promise!Next
  <2>4. CASE MatchOrder(e, tx)
    BY <2>1, <2>2, <2>4, MatchStep DEF Promise!Next
  <2>5. CASE ExtractRent(e, tx)
    BY <2>1, <2>2, <2>5, ExtractStep DEF Promise!Next
  <2>6. CASE UpdateMatch(e, tx)
    BY <2>1, <2>2, <2>6, AdjustStep DEF Promise!Next
  <2>7. CASE DestroyMatch(e, tx)
    BY <2>1, <2>2, <2>7, DestroyStep DEF Promise!Next
  <2> QED BY <2>1, <2>3, <2>4, <2>5, <2>6, <2>7 DEF Commit
<1>5. CASE UNCHANGED vars
  BY <1>5 DEF vars, Promise!vars, streams
<1> QED BY <1>1, <1>2, <1>3, <1>4, <1>5 DEF AnyStep

(* Whatever clients submit, every accepted transaction is a step the rent   *)
(* stream allows: the verifiers together implement the promise.             *)
THEOREM Refinement == Spec => RefinesRentStream
BY InitStream, StepStream, NextIsAny, Invariance, PTL DEF Spec, RefinesRentStream, Promise!Spec

=============================================================================
