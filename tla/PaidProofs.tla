------------------------------ MODULE PaidProofs ------------------------------
(***************************************************************************)
(* No block is paid for twice: PaidOnce for any escrows, channels, offers  *)
(* and bounds, as long as no two seller terminals work for the same party  *)
(* and a match run is not killed (KilledMatch shows why not: the next run  *)
(* may read the tip before the Match it was killed over is mined).         *)
(*                                                                         *)
(* The invariant keeps the books of each Match: what was paid is at most   *)
(* the rent from the block that created it to the block rent is counted    *)
(* from.  For an extraction to keep them, the tip it names must not be     *)
(* older than the Match, which follows the runs from the match to the      *)
(* extraction.                                                             *)
(***************************************************************************)
EXTENDS SellerProofs

MatchLasts == "match" \notin Killable

Matching(tx)   == IsOrder(tx.input) /\ IsMatch(tx.output)
Extraction(tx) ==
    IsMatch(tx.input) /\ IsMatch(tx.output) /\ tx.input.orderArgs.buyer \notin tx.auth

Base(e) == BaseBlock(cells[e], block[e])

Unpaid == \A e \in Slot : cells[e] = NoCell \/ IsOrder(cells[e]) => paid[e] = 0

Books ==
    \A e \in Slot : IsMatch(cells[e]) =>
        /\ matchBlock[e] \in 1..Base(e) /\ matchBlock[e] <= tip + 1
        /\ cells[e].last = 0 => paid[e] = 0
        /\ paid[e] <= cells[e].rate * (Base(e) - matchBlock[e])

(* Between the moment a match is sent and the moment it is mined, the       *)
(* terminal that sent it waits.                                             *)
MatchWaits ==
    \A tx \in pool : Matching(tx) =>
        \E r \in SellerTerminal :
            /\ Owner[r] = tx.output.seller
            /\ run[r].pc = "waiting" /\ run[r].tx = tx /\ run[r].command = "match"

MatchLands ==
    \A e \in Slot : IsMatch(cells[e]) /\ matchBlock[e] > tip =>
        \E r \in SellerTerminal :
            /\ Owner[r] = cells[e].seller
            /\ run[r].pc = "landed" /\ run[r].command = "match" /\ run[r].block > tip

(* So the tip an extraction works with is not older than the Match.         *)
ReadAfter ==
    \A r \in Terminal, e \in Slot :
        Reading(r) /\ IsMatch(cells[e]) /\ cells[e].seller = Owner[r] =>
            matchBlock[e] <= run[r].tipBlock

SentAfter ==
    \A tx \in pool :
        Extraction(tx) /\ tx.input.seller \in tx.auth /\ Fresh(tx.outpoint) =>
            matchBlock[tx.outpoint[1]] <= tx.header0

PInv == CInv /\ Unpaid /\ Books /\ MatchWaits /\ MatchLands /\ ReadAfter /\ SentAfter

-----------------------------------------------------------------------------
(* Arithmetic.                                                              *)

LEMMA TimesSum ==
    ASSUME NEW r \in Nat, NEW a \in Nat, NEW b \in Nat, NEW c \in Nat, a <= b, b <= c
    PROVE  r * (b - a) + r * (c - b) = r * (c - a)
<1> DEFINE d == b - a
           f == c - b
<1>1. d \in Nat /\ f \in Nat /\ c - a = d + f
  OBVIOUS
<1> HIDE DEF d, f
<1>2. r * (d + f) = r * d + r * f
  BY <1>1
<1> QED BY <1>1, <1>2 DEF d, f

LEMMA TimesNat == ASSUME NEW a \in Nat, NEW b \in Nat PROVE a * b \in Nat
OBVIOUS

(* An extraction with header t of a Match dated m, whose rent is counted    *)
(* from base: the books balance again, counted from t.                      *)
LEMMA BooksBalance ==
    ASSUME NEW r \in Nat, NEW m \in Nat, NEW base \in Nat, NEW t \in Nat, NEW p \in Nat,
           m <= base, m <= t, p <= r * (base - m), t < base => p = 0
    PROVE  p + r * Monus(t, base) <= r * (t - m)
<1>1. CASE t >= base
  <2>1. Monus(t, base) = t - base
    BY <1>1 DEF Monus
  <2>2. r * (base - m) + r * (t - base) = r * (t - m)
    BY <1>1, TimesSum
  <2>3. r * (base - m) \in Nat /\ r * (t - base) \in Nat
    BY <1>1, TimesNat
  <2> DEFINE u == r * (base - m)
             v == r * (t - base)
             w == r * (t - m)
  <2>4. u \in Nat /\ v \in Nat /\ u + v = w /\ p <= u
    BY <2>2, <2>3
  <2>5. r * Monus(t, base) = v
    BY <2>1
  <2> HIDE DEF u, v, w
  <2>6. p + v <= w
    BY <2>4
  <2> QED BY <2>5, <2>6 DEF w
<1>2. CASE t < base
  <2>1. Monus(t, base) = 0 /\ p = 0
    BY <1>2 DEF Monus
  <2>2. r * (t - m) \in Nat
    BY TimesNat
  <2> QED BY <2>1, <2>2
<1> QED BY <1>1, <1>2

LEMMA BooksPaidOnce == PInv => PaidOnce
<1> SUFFICES ASSUME PInv, NEW e \in Slot, IsMatch(cells[e])
             PROVE  paid[e] + Vested(e) <= cells[e].rate * Monus(tip, matchBlock[e])
  BY DEF PaidOnce
<1> DEFINE m == matchBlock[e]
           k == cells[e].rate
           p == paid[e]
<1>1. /\ TypeOK /\ tip \in Nat /\ cells[e] \in MatchCell /\ block[e] \in Nat
      /\ block[e] <= tip + 1 /\ cells[e].last <= tip
      /\ p \in Nat /\ m \in Nat
  BY EscrowAssumption, CellKinds
     DEF PInv, CInv, MInv, Inv, TypeOK, MarketTypeOK, ClockWithinChain
<1>2. k \in Nat /\ cells[e].last \in Nat /\ Base(e) \in Nat
  BY <1>1, VerifierAssumption DEF MatchCell, U64, Base, BaseBlock
<1>3. /\ m <= Base(e) /\ m <= tip + 1
      /\ cells[e].last = 0 => p = 0
      /\ p <= k * (Base(e) - m)
  BY <1>1, <1>2 DEF PInv, Books
<1>4. tip < Base(e) => p = 0
  BY <1>1, <1>2, <1>3 DEF Base, BaseBlock
<1>5. Vested(e) = k * Monus(tip, Base(e))
  BY DEF Vested, Rent, Base
<1>6. CASE m <= tip
  <2>1. p + k * Monus(tip, Base(e)) <= k * (tip - m)
    <3> HIDE DEF m, k, p
    <3> QED BY <1>1, <1>2, <1>3, <1>4, <1>6, BooksBalance
  <2>2. Monus(tip, m) = tip - m
    BY <1>1, <1>6 DEF Monus
  <2> QED BY <1>5, <2>1, <2>2
<1>7. CASE m = tip + 1
  <2>1. tip < Base(e)
    BY <1>1, <1>2, <1>3, <1>7
  <2>2. Monus(tip, Base(e)) = 0 /\ Monus(tip, m) = 0 /\ p = 0
    BY <1>1, <1>2, <1>4, <1>7, <2>1 DEF Monus
  <2> QED BY <1>2, <1>5, <2>2
<1> QED BY <1>1, <1>3, <1>6, <1>7

-----------------------------------------------------------------------------
(* What a step does to a Match and to its books.                            *)

(* What the verifier made sure of when it let a Match cell into the chain.  *)
LEMMA IncludedMatch ==
    ASSUME MInv, NEW tx \in pool, Include(tx), IsMatch(tx.output)
    PROVE  LET e == tx.outpoint[1]
           IN  /\ tx.output \in MatchCell /\ cells'[e] = tx.output /\ block'[e] = tip + 1
               /\ tx.inputBlock = block[e]
               /\ IsOrder(tx.input) => tx.output.last = 0
               /\ IsMatch(tx.input) =>
                     /\ tx.output.rate = tx.input.rate
                     /\ tx.output.seller = tx.input.seller
                     /\ \/ /\ tx.input.orderArgs.buyer \in tx.auth
                           /\ tx.output.last = tx.input.last
                        \/ /\ tx.input.orderArgs.buyer \notin tx.auth
                           /\ tx.input.seller \in tx.auth
                           /\ tx.output.last = tx.header0
                           /\ TxRent(tx) = Monus(Value(tx.input), Value(tx.output))
<1> DEFINE e == tx.outpoint[1]
<1>1. /\ Commit(e, tx) /\ e \in Slot /\ TypeOK
      /\ tx.output \in MatchCell \cup {NoCell}
      /\ cells'[e] = IF tx.output = NoCell THEN Spent ELSE tx.output
  BY IncludeEffect DEF Include, MInv, Inv
<1>2. tx.output \in MatchCell /\ cells'[e] = tx.output
  BY <1>1, CellKinds
<1>3. Spend(e, tx) /\ Resolves(e, tx)
  BY <1>1 DEF Commit, CancelOrder, MatchOrder, ExtractRent, UpdateMatch, DestroyMatch
<1>4. block'[e] = tip + 1 /\ tx.inputBlock = block[e]
  BY <1>1, <1>3, SpendEffect DEF Resolves
<1>5. CASE CancelOrder(e, tx) \/ DestroyMatch(e, tx)
  BY <1>5, CellKinds, Routes DEF CancelOrder, DestroyMatch
<1>6. CASE MatchOrder(e, tx)
  <2>1. IsOrder(tx.input) /\ ~IsMatch(tx.input) /\ tx.output.last = 0
    BY <1>6, Routes DEF MatchOrder, OrderMatch, IsOrder, IsMatch
  <2> QED BY <1>2, <1>4, <2>1
<1>7. CASE ExtractRent(e, tx)
  <2>1. /\ IsMatch(tx.input) /\ ~IsOrder(tx.input)
        /\ SameMatchArgs(tx.input, tx.output) /\ SameXudt(tx.input, tx.output)
    BY <1>7, Routes DEF ExtractRent, IsOrder, IsMatch
  <2>2. SellerExtracts(tx)
    BY <1>7 DEF ExtractRent
  <2>3. HasXudt(tx.input) <=> HasXudt(tx.output)
    BY <2>1 DEF SameXudt, HasXudt
  <2>4. TxRent(tx) = Monus(Value(tx.input), Value(tx.output))
    BY <2>2, <2>3 DEF SellerExtracts, RentTaken, Value
  <2> QED BY <1>2, <1>4, <2>1, <2>2, <2>4 DEF SellerExtracts, SameRate, ClockAtTip, SameMatchArgs
<1>8. CASE UpdateMatch(e, tx)
  <2>1. /\ IsMatch(tx.input) /\ ~IsOrder(tx.input) /\ SameMatchArgs(tx.input, tx.output)
    BY <1>8, Routes DEF UpdateMatch, IsOrder, IsMatch
  <2> QED BY <1>2, <1>4, <1>8, <2>1 DEF UpdateMatch, BuyerUpdates, SameRate, SameMatchArgs
<1> QED BY <1>1, <1>5, <1>6, <1>7, <1>8 DEF Commit

(* A step leaves an escrow and its books alone, places its order, or is the *)
(* inclusion of a transaction that spends it.                               *)
LEMMA BooksMove ==
    ASSUME MInv, [MarketNext]_marketVars, NEW e \in Slot
    PROVE  \/ /\ cells'[e] = cells[e] /\ block'[e] = block[e]
              /\ matchBlock'[e] = matchBlock[e] /\ paid'[e] = paid[e]
           \/ /\ cells[e] = NoCell /\ ~IsMatch(cells'[e])
              /\ matchBlock'[e] = matchBlock[e] /\ paid'[e] = paid[e]
           \/ \E tx \in pool : Include(tx) /\ tx.outpoint[1] = e
<1>0. /\ cells \in [Slot -> Cell] /\ block \in [Slot -> 0..(MaxTip + 1)]
      /\ matchBlock \in [Slot -> 0..(MaxTip + 1)] /\ paid \in [Slot -> Nat]
  BY DEF MInv, Inv, TypeOK, MarketTypeOK
<1>1. CASE UNCHANGED <<cells, block, matchBlock, paid>>
  BY <1>1
<1>2. CASE \E d \in Slot : \E order \in OrderOffers : PlaceOrder(d, order)
  <2>1. PICK d \in Slot : \E order \in OrderOffers : PlaceOrder(d, order)
    BY <1>2
  <2>2. PICK order \in OrderOffers : PlaceOrder(d, order)
    BY <2>1
  <2>3. /\ cells[d] = NoCell /\ cells' = [cells EXCEPT ![d] = order]
        /\ block' = [block EXCEPT ![d] = tip + 1]
        /\ matchBlock' = matchBlock /\ paid' = paid /\ ~IsMatch(order)
    BY <2>2, EscrowAssumption, CellKinds DEF PlaceOrder, CreateOrder, history
  <2> QED BY <1>0, <2>3
<1>3. CASE \E tx \in pool : Include(tx)
  <2>1. PICK tx \in pool : Include(tx)
    BY <1>3
  <2> DEFINE d == tx.outpoint[1]
  <2>2. d \in Slot /\ \A c \in Slot : c # d => cells'[c] = cells[c]
    BY <2>1, IncludeEffect
  <2>3. Spend(d, tx)
    BY <2>1 DEF Include, Commit, CancelOrder, MatchOrder, ExtractRent, UpdateMatch, DestroyMatch
  <2>4. \A c \in Slot : c # d => block'[c] = block[c]
    BY <1>0, <2>3 DEF Spend
  <2>5. \A c \in Slot : c # d => matchBlock'[c] = matchBlock[c] /\ paid'[c] = paid[c]
    BY <1>0, <2>1 DEF Include
  <2> QED BY <2>1, <2>2, <2>4, <2>5
<1>4. \/ UNCHANGED <<cells, block, matchBlock, paid>>
      \/ \E d \in Slot : \E order \in OrderOffers : PlaceOrder(d, order)
      \/ \E tx \in pool : Include(tx)
  BY DEF MarketNext, Outside, Mine, OpenChannel, CloseChannel, PoolStep, Settle, Reject,
         ToolStep, ReadTip, ScanFails, Send, BuildFails, Finish, Kill, Step, ScanToExtract,
         ScanToMatch, ScanToUpdate, ScanToCancel, Pick, marketVars, vars, history
<1> QED BY <1>1, <1>2, <1>3, <1>4

(* The books of a Match that an included transaction leaves behind.         *)
LEMMA IncludedBooks ==
    ASSUME MInv, NEW tx \in pool, Include(tx), IsMatch(tx.output)
    PROVE  LET e == tx.outpoint[1]
           IN  /\ Matching(tx) => matchBlock'[e] = tip + 1 /\ paid'[e] = paid[e]
               /\ IsMatch(tx.input) => matchBlock'[e] = matchBlock[e]
               /\ IsMatch(tx.input) /\ ~Extraction(tx) => paid'[e] = paid[e]
               /\ Extraction(tx) /\ tx.output.last # 0 => paid'[e] = paid[e] + TxRent(tx)
<1> DEFINE e == tx.outpoint[1]
<1>1. /\ e \in Slot
      /\ matchBlock \in [Slot -> 0..(MaxTip + 1)] /\ paid \in [Slot -> Nat]
  BY IncludeEffect DEF MInv, MarketTypeOK
<1>2. Matching(tx) => matchBlock'[e] = tip + 1 /\ paid'[e] = paid[e]
  BY <1>1, IncludedMatch DEF Include, Matching
<1>3. IsMatch(tx.input) => matchBlock'[e] = matchBlock[e]
  BY <1>1 DEF Include, IsMatch, IsOrder
<1>4. IsMatch(tx.input) /\ ~Extraction(tx) => paid'[e] = paid[e]
  BY <1>1 DEF Include, Extraction
<1>5. Extraction(tx) /\ tx.output.last # 0 => paid'[e] = paid[e] + TxRent(tx)
  BY <1>1, IncludedMatch DEF Include, Extraction
<1> QED BY <1>2, <1>3, <1>4, <1>5

-----------------------------------------------------------------------------
(* The invariant is inductive: one lemma per part of it.                    *)

LEMMA UnpaidKept ==
    ASSUME PInv, [MarketNext]_marketVars
    PROVE  Unpaid'
<1> SUFFICES ASSUME NEW e \in Slot, cells'[e] = NoCell \/ IsOrder(cells'[e])
             PROVE  paid'[e] = 0
  BY DEF Unpaid
<1>1. CASE \E tx \in pool : Include(tx) /\ tx.outpoint[1] = e
  <2>1. PICK tx \in pool : Include(tx) /\ tx.outpoint[1] = e
    BY <1>1
  <2>2. cells'[e] = Spent \/ cells'[e] \in MatchCell
    BY <2>1, IncludeEffect DEF PInv, CInv
  <2> QED BY <2>2, CellKinds DEF Spent, NoCell
<1> QED BY <1>1, BooksMove DEF PInv, CInv, Unpaid

(* The books of a cell c that is in block b.                                *)
Balanced(c, b, m, p, t) ==
    /\ m \in 1..BaseBlock(c, b) /\ m <= t + 1
    /\ c.last = 0 => p = 0
    /\ p <= c.rate * (BaseBlock(c, b) - m)

LEMMA BooksKept ==
    ASSUME PInv, [MarketNext]_marketVars
    PROVE  Books'
<1> SUFFICES ASSUME NEW e \in Slot, IsMatch(cells'[e])
             PROVE  Balanced(cells'[e], block'[e], matchBlock'[e], paid'[e], tip')
  BY DEF Books, Base, Balanced
<1>0. /\ MInv /\ tip \in Nat /\ tip' \in Nat /\ tip' >= tip
      /\ matchBlock[e] \in Nat /\ paid[e] \in Nat /\ block[e] \in Nat
      /\ cells[e] \in Cell
  <2>1. MInv /\ TypeOK /\ MarketTypeOK /\ TypeOK' /\ tip' >= tip
    BY MarketMoves, StepInv DEF PInv, CInv, MInv, Inv
  <2> QED BY <2>1, EscrowAssumption DEF TypeOK, MarketTypeOK
<1>1. IsMatch(cells[e]) => Balanced(cells[e], block[e], matchBlock[e], paid[e], tip)
  BY DEF PInv, Books, Base, Balanced
<1>2. CASE /\ cells'[e] = cells[e] /\ block'[e] = block[e]
           /\ matchBlock'[e] = matchBlock[e] /\ paid'[e] = paid[e]
  BY <1>0, <1>1, <1>2 DEF Balanced
<1>3. CASE \E tx \in pool : Include(tx) /\ tx.outpoint[1] = e
  <2>1. PICK tx \in pool : Include(tx) /\ tx.outpoint[1] = e
    BY <1>3
  <2> DEFINE new == tx.output
  <2>2. /\ tx.input = cells[e] /\ Fresh(tx.outpoint) /\ tip' = tip
        /\ cells'[e] = IF new = NoCell THEN Spent ELSE new
        /\ new \in MatchCell \cup {NoCell}
        /\ tx \in PendingTx
    BY <1>0, <2>1, IncludeEffect DEF Include
  <2>3. IsMatch(new)
    BY <2>2, CellKinds
  <2>4. /\ new \in MatchCell /\ cells'[e] = new /\ block'[e] = tip + 1
        /\ tx.inputBlock = block[e]
    BY <1>0, <2>1, <2>3, IncludedMatch
  <2>5. new.rate \in Nat /\ new.last \in Nat
    BY <2>4, VerifierAssumption DEF MatchCell, U64
  <2>6. CASE IsOrder(tx.input)
    <3>1. new.last = 0 /\ matchBlock'[e] = tip + 1 /\ paid'[e] = paid[e]
      BY <1>0, <2>1, <2>3, <2>6, IncludedMatch, IncludedBooks DEF Matching
    <3>2. paid[e] = 0
      BY <2>2, <2>6 DEF PInv, Unpaid
    <3>3. BaseBlock(new, tip + 1) = tip + 1 /\ (tip + 1) - (tip + 1) = 0
      BY <1>0, <3>1 DEF BaseBlock
    <3>4. new.rate * 0 = 0
      BY <2>5
    <3> QED BY <1>0, <2>2, <2>4, <3>1, <3>2, <3>3, <3>4 DEF Balanced
  <2>7. CASE IsMatch(tx.input)
    <3>1. /\ cells[e] \in MatchCell
          /\ cells[e].last \in Nat /\ new.rate = cells[e].rate
          /\ matchBlock'[e] = matchBlock[e]
      BY <1>0, <2>1, <2>2, <2>3, <2>7, CellKinds, VerifierAssumption, IncludedMatch, IncludedBooks
         DEF MatchCell, U64
    <3>2. Balanced(cells[e], block[e], matchBlock[e], paid[e], tip)
      BY <1>1, <2>2, <2>7
    <3> DEFINE m == matchBlock[e]
               base == BaseBlock(cells[e], block[e])
    <3>3. base \in Nat /\ m \in 1..base /\ m <= tip + 1
      BY <1>0, <3>1, <3>2 DEF BaseBlock, Balanced
    <3>4. CASE ~Extraction(tx)
      <4>1. new.last = cells[e].last /\ paid'[e] = paid[e]
        BY <1>0, <2>1, <2>2, <2>3, <2>7, <3>4, IncludedMatch, IncludedBooks DEF Extraction
      <4>2. CASE new.last = 0
        <5>1. BaseBlock(new, tip + 1) = tip + 1 /\ paid[e] = 0
          BY <3>2, <4>1, <4>2 DEF BaseBlock, Balanced
        <5>2. new.rate * ((tip + 1) - m) \in Nat
          BY <1>0, <2>5, <3>3, TimesNat
        <5> QED BY <1>0, <2>2, <2>4, <3>1, <3>3, <4>1, <5>1, <5>2 DEF Balanced
      <4>3. CASE new.last # 0
        <5>1. BaseBlock(new, tip + 1) = base
          BY <4>1, <4>3 DEF BaseBlock
        <5> QED BY <2>2, <2>4, <3>1, <3>2, <4>1, <4>3, <5>1 DEF Balanced
      <4> QED BY <4>2, <4>3
    <3>5. CASE Extraction(tx)
      <4> DEFINE t == tx.header0
                 p == paid[e]
                 k == new.rate
      <4>1. m <= t /\ t \in Nat
        <5>1. tx.input.seller \in tx.auth
          BY <1>0, <2>1, <2>3, <2>7, <3>5, IncludedMatch DEF Extraction
        <5> QED BY <2>1, <2>2, <3>5, <5>1, EscrowAssumption DEF PInv, SentAfter, PendingTx
      <4>2. new.last = t /\ new.last # 0
        BY <1>0, <2>1, <2>3, <2>7, <3>3, <3>5, <4>1, IncludedMatch DEF Extraction
      <4>3. paid'[e] = p + TxRent(tx)
        BY <1>0, <2>1, <2>3, <3>5, <4>2, IncludedBooks
      <4>4. TxRent(tx) = k * Monus(t, base)
        BY <2>2, <2>4, <3>1 DEF TxRent, Rent
      <4>5. t < base => p = 0
        <5>1. cells[e].last <= t
          BY <2>1, <2>2, <2>3, <2>7, <4>2, OnlyEffective DEF PInv, CInv, SentOnward
        <5> QED BY <3>1, <3>2, <4>1, <5>1 DEF BaseBlock, Balanced
      <4>6. p + k * Monus(t, base) <= k * (t - m)
        <5>1. p <= k * (base - m)
          BY <3>1, <3>2 DEF Balanced
        <5>2. k \in Nat /\ m \in Nat /\ p \in Nat /\ m <= base
          BY <1>0, <2>5, <3>3
        <5> HIDE DEF k, m, p, base, t
        <5> QED BY <3>3, <4>1, <4>5, <5>1, <5>2, BooksBalance
      <4>7. BaseBlock(new, tip + 1) = t
        BY <4>2 DEF BaseBlock
      <4>8. m \in 1..t
        BY <3>3, <4>1
      <4> QED BY <2>2, <2>4, <3>1, <3>3, <4>2, <4>3, <4>4, <4>6, <4>7, <4>8 DEF Balanced
    <3> QED BY <3>4, <3>5
  <2>8. tx.input \in OrderCell \cup MatchCell
    BY DEF PInv, CInv, MInv, PoolRight, TxRight, Ref
  <2> QED BY <2>6, <2>7, <2>8, CellKinds
<1> QED BY <1>0, <1>2, <1>3, BooksMove

(* A Match is where it was, with its seller and date, or has just been made. *)
LEMMA MatchOrigin ==
    ASSUME MInv, [MarketNext]_marketVars, NEW e \in Slot, IsMatch(cells'[e])
    PROVE  \/ /\ IsMatch(cells[e]) /\ cells'[e].seller = cells[e].seller
              /\ matchBlock'[e] = matchBlock[e]
           \/ \E tx \in pool :
                 /\ Include(tx) /\ Matching(tx) /\ tx.outpoint[1] = e
                 /\ cells'[e] = tx.output /\ matchBlock'[e] = tip + 1 /\ tip' = tip
<1>1. CASE cells'[e] = cells[e] /\ matchBlock'[e] = matchBlock[e]
  BY <1>1
<1>2. CASE \E tx \in pool : Include(tx) /\ tx.outpoint[1] = e
  <2>1. PICK tx \in pool : Include(tx) /\ tx.outpoint[1] = e
    BY <1>2
  <2>2. /\ tx.input = cells[e] /\ tip' = tip
        /\ cells'[e] = IF tx.output = NoCell THEN Spent ELSE tx.output
    BY <2>1, IncludeEffect
  <2>3. IsMatch(tx.output) /\ cells'[e] = tx.output
    BY <2>2, CellKinds
  <2>4. tx.input \in OrderCell \cup MatchCell
    BY DEF MInv, PoolRight, TxRight, Ref
  <2>5. CASE IsMatch(tx.input)
    BY <2>1, <2>2, <2>3, <2>5, IncludedMatch, IncludedBooks
  <2>6. CASE IsOrder(tx.input)
    BY <2>1, <2>2, <2>3, <2>6, IncludedBooks DEF Matching
  <2> QED BY <2>4, <2>5, <2>6, CellKinds
<1> QED BY <1>1, <1>2, BooksMove

(* A run that matches keeps on waiting until its transaction is settled.    *)
LEMMA MatchRunKept ==
    ASSUME MatchLasts, MInv, [MarketNext]_marketVars, NEW r \in Terminal,
           run[r].command = "match", run[r].pc \in {"waiting", "landed"}
    PROVE  \/ run'[r] = run[r]
           \/ run[r].pc = "landed" /\ Finish(r)
           \/ /\ run[r].pc = "waiting" /\ run[r].tx \in pool /\ Reject(run[r].tx)
           \/ /\ run[r].pc = "waiting" /\ run[r].tx \in pool /\ Include(run[r].tx)
              /\ run'[r].pc = "landed" /\ run'[r].block = tip + 1 /\ run'[r].command = "match"
<1>1. ToolStep(r) => run[r].pc = "landed" /\ Finish(r)
  BY DEF ToolStep, ReadTip, ScanFails, Send, BuildFails, Finish, Kill,
         ScanToExtract, ScanToMatch, ScanToUpdate, ScanToCancel, MatchLasts
<1>2. CASE run[r].pc = "waiting" /\ run[r].tx \in pool /\ Include(run[r].tx)
           /\ run'[r] = [pc |-> "landed", block |-> tip + 1, command |-> run[r].command]
  BY <1>2
<1> QED BY <1>1, <1>2, RunChange, Zenon

LEMMA MatchWaitsKept ==
    ASSUME MatchLasts, PInv, [MarketNext]_marketVars
    PROVE  MatchWaits'
<1> SUFFICES ASSUME NEW tx \in pool', Matching(tx)
             PROVE  \E r \in SellerTerminal :
                       /\ Owner[r] = tx.output.seller
                       /\ run'[r].pc = "waiting" /\ run'[r].tx = tx /\ run'[r].command = "match"
  BY DEF MatchWaits
<1>0. MInv /\ run \in [Terminal -> RunState]
  BY DEF PInv, CInv, MInv, MarketTypeOK
<1>1. CASE tx \in pool
  <2>1. PICK r \in SellerTerminal :
           /\ Owner[r] = tx.output.seller
           /\ run[r].pc = "waiting" /\ run[r].tx = tx /\ run[r].command = "match"
    BY <1>1 DEF PInv, MatchWaits
  <2>2. r \in Terminal
    BY DEF Terminal
  <2>3. ~Reject(tx) /\ ~Include(tx)
    BY DEF Reject, Include
  <2>4. run'[r] = run[r]
    BY <1>0, <2>1, <2>2, <2>3, MatchRunKept
  <2> QED BY <2>1, <2>4
<1>2. CASE \E r \in Terminal : Send(r) /\ tx \in MayBuild(r) /\ tx \notin pool
              /\ run'[r] = [pc |-> "waiting", tx |-> tx, command |-> run[r].command]
  <2>1. PICK r \in Terminal : Send(r) /\ tx \in MayBuild(r) /\ tx \notin pool
              /\ run'[r] = [pc |-> "waiting", tx |-> tx, command |-> run[r].command]
    BY <1>2
  <2>2. run[r].pc = "scanned"
    BY <2>1 DEF Send
  <2>3. ~IsMatch(tx.input) /\ IsMatch(tx.output)
    BY DEF Matching, IsOrder, IsMatch
  <2>4. run[r].command = "match" /\ r \in SellerTerminal /\ tx.output.seller = Owner[r]
    BY <1>0, <2>1, <2>2, <2>3, SentForms
  <2> QED BY <2>1, <2>4
<1>3. tx \in pool \/ \E r \in Terminal : Send(r) /\ tx \in MayBuild(r) /\ tx \notin pool
              /\ run'[r] = [pc |-> "waiting", tx |-> tx, command |-> run[r].command]
  <2>1. CASE \E r \in Terminal : Send(r)
    <3>1. PICK r \in Terminal : Send(r)
      BY <2>1
    <3>2. PICK new \in MayBuild(r) :
             /\ pool' = pool \cup {new}
             /\ run' = [run EXCEPT ![r] = [pc |-> "waiting", tx |-> new,
                                           command |-> run[r].command]]
      BY <3>1 DEF Send
    <3>3. run'[r] = [pc |-> "waiting", tx |-> new, command |-> run[r].command]
      BY <1>0, <3>2
    <3> QED BY <3>1, <3>2, <3>3
  <2>2. CASE pool' \subseteq pool
    BY <2>2
  <2>3. pool' \subseteq pool \/ \E r \in Terminal : Send(r)
    BY DEF MarketNext, Outside, PlaceOrder, PoolStep, Settle, Include, Reject,
           ToolStep, ReadTip, ScanFails, BuildFails, Finish, Kill, Step, ScanToExtract,
           ScanToMatch, ScanToUpdate, ScanToCancel, Pick, marketVars
  <2> QED BY <2>1, <2>2, <2>3
<1> QED BY <1>1, <1>2, <1>3

LEMMA MatchLandsKept ==
    ASSUME MatchLasts, PInv, [MarketNext]_marketVars
    PROVE  MatchLands'
<1> SUFFICES ASSUME NEW e \in Slot, IsMatch(cells'[e]), matchBlock'[e] > tip'
             PROVE  \E r \in SellerTerminal :
                       /\ Owner[r] = cells'[e].seller
                       /\ run'[r].pc = "landed" /\ run'[r].command = "match"
                       /\ run'[r].block > tip'
  BY DEF MatchLands
<1>0. /\ MInv /\ tip \in Nat /\ tip' \in Nat /\ tip' >= tip
      /\ run \in [Terminal -> RunState]
      /\ matchBlock[e] \in Nat
  <2>1. MInv /\ TypeOK /\ MarketTypeOK /\ TypeOK' /\ tip' >= tip
    BY MarketMoves, StepInv DEF PInv, CInv, MInv, Inv
  <2> QED BY <2>1, EscrowAssumption DEF TypeOK, MarketTypeOK
<1>1. CASE /\ IsMatch(cells[e]) /\ cells'[e].seller = cells[e].seller
           /\ matchBlock'[e] = matchBlock[e]
  <2>1. matchBlock[e] <= tip + 1
    BY <1>1 DEF PInv, Books
  <2>2. tip' = tip
    BY <1>0, <1>1, <2>1
  <2>3. PICK r \in SellerTerminal :
           /\ Owner[r] = cells[e].seller
           /\ run[r].pc = "landed" /\ run[r].command = "match" /\ run[r].block > tip
    BY <1>1, <2>2 DEF PInv, MatchLands
  <2>4. r \in Terminal /\ run[r].block \in Nat
    BY <1>0, <2>3, RunKinds, EscrowAssumption DEF Terminal
  <2>5. ~Finish(r)
    BY <1>0, <2>3, <2>4 DEF Finish
  <2>6. run'[r] = run[r]
    BY <1>0, <2>3, <2>4, <2>5, MatchRunKept
  <2> QED BY <1>1, <2>2, <2>3, <2>6
<1>2. CASE \E tx \in pool :
              /\ Include(tx) /\ Matching(tx) /\ tx.outpoint[1] = e
              /\ cells'[e] = tx.output /\ matchBlock'[e] = tip + 1 /\ tip' = tip
  <2>1. PICK tx \in pool :
              /\ Include(tx) /\ Matching(tx) /\ tx.outpoint[1] = e
              /\ cells'[e] = tx.output /\ matchBlock'[e] = tip + 1 /\ tip' = tip
    BY <1>2
  <2>2. PICK r \in SellerTerminal :
           /\ Owner[r] = tx.output.seller
           /\ run[r].pc = "waiting" /\ run[r].tx = tx /\ run[r].command = "match"
    BY <2>1 DEF PInv, MatchWaits
  <2>3. run'[r] = [pc |-> "landed", block |-> tip + 1, command |-> run[r].command]
    BY <2>1, <2>2 DEF Include, Waiters, Terminal
  <2> QED BY <1>0, <2>1, <2>2, <2>3
<1> QED BY <1>0, <1>1, <1>2, MatchOrigin

LEMMA ReadAfterKept ==
    ASSUME OneTerminal, PInv, [MarketNext]_marketVars
    PROVE  ReadAfter'
<1> SUFFICES ASSUME NEW r \in Terminal, NEW e \in Slot, Reading(r)', IsMatch(cells'[e]),
                    cells'[e].seller = Owner[r]
             PROVE  matchBlock'[e] <= run'[r].tipBlock
  BY DEF ReadAfter
<1>0. MInv /\ tip \in Nat /\ matchBlock[e] \in Nat
  BY EscrowAssumption DEF PInv, CInv, MInv, Inv, TypeOK, MarketTypeOK
<1>1. CASE ReadTip(r) /\ run'[r].tipBlock = tip
  <2>1. /\ r \in SellerTerminal /\ run[r].pc = "idle"
        /\ cells' = cells /\ matchBlock' = matchBlock
    BY <1>1 DEF ReadTip, Step, vars, history
  <2>2. ASSUME matchBlock[e] > tip PROVE FALSE
    <3>1. PICK q \in SellerTerminal : Owner[q] = cells[e].seller /\ run[q].pc = "landed"
      BY <2>1, <2>2 DEF PInv, MatchLands
    <3>2. q = r
      BY <2>1, <3>1 DEF OneTerminal
    <3> QED BY <2>1, <3>1, <3>2
  <2> QED BY <1>0, <1>1, <2>1, <2>2
<1>2. CASE Reading(r) /\ run'[r].tipBlock = run[r].tipBlock
  <2>1. CASE /\ IsMatch(cells[e]) /\ cells'[e].seller = cells[e].seller
             /\ matchBlock'[e] = matchBlock[e]
    BY <1>2, <2>1 DEF PInv, ReadAfter
  <2>2. ASSUME NEW tx \in pool, Matching(tx), cells'[e] = tx.output PROVE FALSE
    <3>1. PICK q \in SellerTerminal : Owner[q] = tx.output.seller /\ run[q].pc = "waiting"
      BY <2>2 DEF PInv, MatchWaits
    <3>2. r \in SellerTerminal
      BY <1>2 DEF PInv, CInv, MInv, RunsRight, RunRight, ScannedRight, Reading
    <3>3. q = r
      BY <2>2, <3>1, <3>2 DEF OneTerminal
    <3> QED BY <1>2, <3>1, <3>3 DEF Reading
  <2> QED BY <1>0, <2>1, <2>2, MatchOrigin
<1> QED BY <1>0, <1>1, <1>2, ReadingStep

LEMMA SentAfterKept ==
    ASSUME PInv, [MarketNext]_marketVars
    PROVE  SentAfter'
<1> SUFFICES ASSUME NEW tx \in pool', Extraction(tx), tx.input.seller \in tx.auth,
                    Fresh(tx.outpoint)'
             PROVE  matchBlock'[tx.outpoint[1]] <= tx.header0
  BY DEF SentAfter, Extraction
<1> DEFINE e == tx.outpoint[1]
<1>0. MInv /\ version \in [Slot -> 0..(MaxVersion + 1)] /\ MaxVersion \in Nat
  BY MarketAssumption DEF PInv, CInv, MInv, MarketTypeOK
<1>1. CASE tx \in pool
  <2>1. /\ e \in Slot /\ tx.outpoint[2] <= version[e] /\ tx.outpoint[2] \in Nat
        /\ Onward(e)
    BY <1>0, <1>1, MarketMoves DEF MInv, PoolRight, TxRight, Ref
  <2>2. version'[e] = tx.outpoint[2] /\ Live(cells'[e])
    BY DEF Fresh
  <2>3. version'[e] = version[e] /\ cells'[e] = cells[e]
    BY <1>0, <2>1, <2>2 DEF Onward
  <2>4. Fresh(tx.outpoint)
    BY <2>2, <2>3 DEF Fresh
  <2>5. \A new \in pool : Include(new) => new.outpoint[1] # e
    BY <1>0, <2>1, <2>3 DEF Include
  <2>6. matchBlock'[e] = matchBlock[e]
    BY <1>0, <2>1, <2>5, BooksMove
  <2> QED BY <1>1, <2>4, <2>6 DEF PInv, SentAfter
<1>2. CASE \E r \in Terminal : Send(r) /\ tx \in MayBuild(r)
  <2>1. PICK r \in Terminal : Send(r) /\ tx \in MayBuild(r)
    BY <1>2
  <2>2. /\ run[r].pc = "scanned" /\ ScannedRight(r)
        /\ UNCHANGED <<cells, version, matchBlock>>
    BY <2>1 DEF Send, PInv, CInv, MInv, RunsRight, RunRight, vars, history
  <2>3. /\ run[r].command = "extract" /\ tx.input.seller = Owner[r]
        /\ tx.header0 = run[r].tipBlock
        /\ tx.outpoint = run[r].info.outpoint /\ tx.input = run[r].info.cell
    <3>1. ~IsOrder(tx.input)
      BY DEF Extraction, IsOrder, IsMatch
    <3> QED BY <1>0, <2>1, <2>2, <3>1, SentForms DEF Extraction
  <2>4. version[e] = tx.outpoint[2] /\ Live(cells[e])
    BY <2>2 DEF Fresh
  <2>5. e \in Slot /\ cells[e] = tx.input
    BY <2>2, <2>3, <2>4 DEF ScannedRight, Ref
  <2>6. Reading(r)
    BY <2>2, <2>3 DEF Reading
  <2> QED BY <2>2, <2>3, <2>5, <2>6 DEF PInv, ReadAfter, Extraction
<1>3. tx \in pool \/ \E r \in Terminal : Send(r) /\ tx \in MayBuild(r)
  BY DEF MarketNext, Outside, PlaceOrder, PoolStep, Settle, Include, Reject, Send,
         ToolStep, ReadTip, ScanFails, BuildFails, Finish, Kill, Step, ScanToExtract,
         ScanToMatch, ScanToUpdate, ScanToCancel, Pick, marketVars
<1> QED BY <1>1, <1>2, <1>3

LEMMA PaidInit == MarketInit => PInv
<1> SUFFICES ASSUME MarketInit PROVE PInv
  OBVIOUS
<1>1. CInv
  BY ClockInit
<1>2. \A e \in Slot : ~IsMatch(cells[e]) /\ paid[e] = 0
  BY CellKinds DEF MarketInit, Init
<1>3. pool = {}
  BY DEF MarketInit
<1> QED BY <1>1, <1>2, <1>3
     DEF PInv, Unpaid, Books, MatchWaits, MatchLands, ReadAfter, SentAfter

(* What was extracted from a Match and what it owes now are together never  *)
(* more than its rate times the blocks since it was created.                *)
THEOREM PaidAtMostOnce ==
    ASSUME OneTerminal, MatchLasts
    PROVE  MarketSpec => []PaidOnce
<1>1. PInv /\ [MarketNext]_marketVars => PInv'
  <2> SUFFICES ASSUME PInv, [MarketNext]_marketVars PROVE PInv'
    OBVIOUS
  <2>1. CInv /\ MInv
    BY DEF PInv, CInv
  <2>2. CInv'
    BY <2>1, MarketStepRight, WrittenKept, SentKept DEF CInv
  <2> QED BY <2>2, UnpaidKept, BooksKept, MatchWaitsKept, MatchLandsKept, ReadAfterKept,
             SentAfterKept DEF PInv
<1> QED BY <1>1, PaidInit, BooksPaidOnce, PTL DEF MarketSpec

=============================================================================
