-------------------------- MODULE DiscoveryProofs --------------------------
(***************************************************************************)
(* What a listing shows.  First sets of places and their sequences; then   *)
(* the pages, and that a scan leaves out nothing between two of them; then *)
(* the transaction that puts an order on the chain with an address, and    *)
(* the numbers in its data, with the rounding of f64 in the rate.          *)
(***************************************************************************)
EXTENDS Discovery, SkeletonProofs

-----------------------------------------------------------------------------
(* Sets of places, and their members in the order of the index.             *)

Sorted(s, P) ==
    /\ s \in [1..Cardinality(P) -> P]
    /\ ToSet(s) = P
    /\ \A i, j \in DOMAIN s : i < j => s[i] < s[j]

LEMMA Finite ==
    ASSUME NEW m \in Nat, NEW P \in SUBSET (1..m)
    PROVE  IsFiniteSet(P) /\ Cardinality(P) \in Nat
<1>1. IsFiniteSet(1..m)
  BY FS_Interval
<1>2. IsFiniteSet(P)
  BY <1>1, FS_Subset
<1> QED
  BY <1>2, FS_CardinalityType

LEMMA SortedExists ==
    ASSUME NEW m \in Nat, NEW P \in SUBSET (1..m)
    PROVE  \E s : Sorted(s, P)
<1> DEFINE S == {n \in Nat : \A Q \in SUBSET (1..n) : \E s : Sorted(s, Q)}
<1>1. 0 \in S
  <2>1. \A Q \in SUBSET (1..0) : Q = {}
    OBVIOUS
  <2>2. Cardinality({}) = 0
    BY FS_EmptySet
  <2>3. Sorted(<<>>, {})
    BY <2>2 DEF Sorted, ToSet
  <2>4. \A Q \in SUBSET (1..0) : \E s : Sorted(s, Q)
    BY <2>1, <2>3, Zenon
  <2> QED
    BY <2>4
<1>2. ASSUME NEW n \in Nat, n \in S
      PROVE  n + 1 \in S
  <2>1. ASSUME NEW Q \in SUBSET (1..(n + 1))
        PROVE  \E s : Sorted(s, Q)
    <3>1. CASE n + 1 \notin Q
      <4>1. Q \in SUBSET (1..n)
        BY <3>1
      <4> QED
        BY <1>2, <4>1
    <3>2. CASE n + 1 \in Q
      <4> DEFINE R == Q \ {n + 1}
      <4>1. R \in SUBSET (1..n) /\ Q = R \cup {n + 1} /\ n + 1 \notin R
        BY <3>2
      <4>2. IsFiniteSet(R) /\ Cardinality(R) \in Nat
        BY <4>1, Finite
      <4>3. Cardinality(Q) = Cardinality(R) + 1
        BY <4>1, <4>2, FS_AddElement
      <4>4. PICK s : Sorted(s, R)
        BY <1>2, <4>1
      <4> DEFINE c == Cardinality(R)
                 t == [i \in 1..(c + 1) |-> IF i <= c THEN s[i] ELSE n + 1]
      <4>5. /\ s \in [1..c -> R] /\ {s[i] : i \in 1..c} = R
            /\ \A i, j \in 1..c : i < j => s[i] < s[j]
        BY <4>4 DEF Sorted, ToSet
      <4>6. \A i \in 1..c : s[i] \in R /\ s[i] \in 1..n
        BY <4>1, <4>5
      <4> HIDE DEF c, R
      <4>7. c \in Nat /\ Cardinality(Q) = c + 1
        BY <4>2, <4>3 DEF c
      <4>8. DOMAIN t = 1..(c + 1)
        OBVIOUS
      <4>9. t \in [1..(c + 1) -> Q]
        BY <4>1, <4>6, <4>7
      <4>10. \A i, j \in 1..(c + 1) : i < j => t[i] < t[j]
        BY <4>5, <4>6, <4>7
      <4>11. ToSet(t) = Q
        <5>1. ASSUME NEW x \in Q
              PROVE  \E i \in 1..(c + 1) : t[i] = x
          <6>1. CASE x = n + 1
            BY <4>7, <6>1
          <6>2. CASE x \in R
            <7>1. PICK i \in 1..c : s[i] = x
              BY <4>5, <6>2
            <7>2. i \in 1..(c + 1) /\ t[i] = x
              BY <4>7, <7>1
            <7> QED
              BY <7>2
          <6> QED
            BY <4>1, <6>1, <6>2
        <5>2. \A i \in 1..(c + 1) : t[i] \in Q
          BY <4>9
        <5> HIDE DEF t
        <5> QED
          BY <4>8, <5>1, <5>2 DEF ToSet
      <4> HIDE DEF t
      <4>12. Sorted(t, Q)
        BY <4>7, <4>8, <4>9, <4>10, <4>11 DEF Sorted
      <4> QED
        BY <4>12
    <3> QED
      BY <3>1, <3>2
  <2> QED
    BY <2>1
<1>3. Nat \subseteq S
  BY <1>1, <1>2, Induction
<1> QED
  BY <1>3

LEMMA SortedOnce ==
    ASSUME NEW P, P \subseteq Nat, Cardinality(P) \in Nat,
           NEW s, Sorted(s, P), NEW t, Sorted(t, P)
    PROVE  s = t
<1> DEFINE c == Cardinality(P)
           D == {i \in 1..c : s[i] # t[i]}
<1>1. /\ s \in [1..c -> P] /\ {s[i] : i \in 1..c} = P
      /\ \A i, j \in 1..c : i < j => s[i] < s[j]
  BY DEF Sorted, ToSet
<1>2. /\ t \in [1..c -> P] /\ {t[i] : i \in 1..c} = P
      /\ \A i, j \in 1..c : i < j => t[i] < t[j]
  BY DEF Sorted, ToSet
<1> HIDE DEF c
<1>3. ASSUME D # {}
      PROVE  FALSE
  <2>1. D \subseteq Nat
    OBVIOUS
  <2>2. PICK i \in D : \A j \in D : i <= j
    BY <1>3, <2>1, LeastNat
  <2>3. i \in 1..c /\ s[i] # t[i] /\ s[i] \in P /\ t[i] \in P /\ s[i] \in Nat /\ t[i] \in Nat
    BY <1>1, <1>2, <2>2
  <2>4. \A j \in 1..c : j < i => s[j] = t[j]
    BY <2>2, <2>3
  <2>5. CASE s[i] < t[i]
    <3>1. PICK j \in 1..c : t[j] = s[i]
      BY <1>2, <2>3
    <3>2. CASE j < i
      <4>1. s[j] = t[j] /\ s[j] < s[i]
        BY <1>1, <2>3, <2>4, <3>2
      <4> QED
        BY <2>3, <3>1, <4>1
    <3>3. CASE j = i
      BY <2>3, <3>1, <3>3
    <3>4. CASE i < j
      <4>1. t[i] < t[j]
        BY <1>2, <2>3, <3>4
      <4> QED
        BY <2>3, <2>5, <3>1, <4>1
    <3> QED
      BY <2>3, <3>2, <3>3, <3>4
  <2>6. CASE t[i] < s[i]
    <3>1. PICK j \in 1..c : s[j] = t[i]
      BY <1>1, <2>3
    <3>2. CASE j < i
      <4>1. s[j] = t[j] /\ t[j] < t[i]
        BY <1>2, <2>3, <2>4, <3>2
      <4> QED
        BY <2>3, <3>1, <4>1
    <3>3. CASE j = i
      BY <2>3, <3>1, <3>3
    <3>4. CASE i < j
      <4>1. s[i] < s[j]
        BY <1>1, <2>3, <3>4
      <4> QED
        BY <2>3, <2>6, <3>1, <4>1
    <3> QED
      BY <2>3, <3>2, <3>3, <3>4
  <2> QED
    BY <2>3, <2>5, <2>6
<1>4. \A i \in 1..c : s[i] = t[i]
  BY <1>3
<1>5. s \in Seq(P) /\ t \in Seq(P) /\ Len(s) = c /\ Len(t) = c
  <2>1. c \in Nat
    BY DEF c
  <2> QED
    BY <1>1, <1>2, <2>1
<1> QED
  BY <1>4, <1>5, SeqEqual

LEMMA InOrderSorted ==
    ASSUME NEW m \in Nat, NEW P \in SUBSET (1..m)
    PROVE  Sorted(InOrder(P), P)
<1>1. \E s : Sorted(s, P)
  BY SortedExists
<1>2. \E s \in [1..Cardinality(P) -> P] :
          ToSet(s) = P /\ \A i, j \in DOMAIN s : i < j => s[i] < s[j]
  BY <1>1, Zenon DEF Sorted
<1> QED
  BY <1>2, Zenon DEF Sorted, InOrder

(* The first page and the next.                                             *)
LEMMA SortedConcat ==
    ASSUME NEW m \in Nat, NEW P \in SUBSET (1..m), NEW Q \in SUBSET (1..m),
           \A p \in P, q \in Q : p < q,
           NEW s, Sorted(s, P), NEW t, Sorted(t, Q)
    PROVE  Sorted(s \o t, P \cup Q)
<1> DEFINE c == Cardinality(P)
           d == Cardinality(Q)
           u == s \o t
<1>1. Cardinality(P \cup Q) = c + d /\ c \in Nat /\ d \in Nat
  <2>1. IsFiniteSet(P) /\ IsFiniteSet(Q) /\ c \in Nat /\ d \in Nat
    BY Finite
  <2>2. P \cap Q = {}
    <3> SUFFICES ASSUME NEW p \in P, p \in Q
                 PROVE  FALSE
      OBVIOUS
    <3>1. p < p
      OBVIOUS
    <3>2. p \in Nat
      OBVIOUS
    <3> QED
      BY <3>1, <3>2
  <2>3. Cardinality(P \cup Q) = c + d - Cardinality({})
    BY <2>1, <2>2, FS_Union
  <2>4. Cardinality({}) = 0
    BY FS_EmptySet
  <2> QED
    BY <2>1, <2>3, <2>4
<1>2. /\ s \in [1..c -> P] /\ {s[i] : i \in 1..c} = P
      /\ \A i, j \in 1..c : i < j => s[i] < s[j]
  BY DEF Sorted, ToSet
<1>3. /\ t \in [1..d -> Q] /\ {t[i] : i \in 1..d} = Q
      /\ \A i, j \in 1..d : i < j => t[i] < t[j]
  BY DEF Sorted, ToSet
<1> HIDE DEF c, d
<1>4. s \in Seq(P \cup Q) /\ Len(s) = c /\ t \in Seq(P \cup Q) /\ Len(t) = d
  BY <1>1, <1>2, <1>3
<1>5. u \in Seq(P \cup Q) /\ Len(u) = c + d
  BY <1>4, ConcatProperties
<1>6. \A i \in 1..(c + d) : u[i] = IF i <= c THEN s[i] ELSE t[i - c]
  BY <1>4, ConcatProperties
<1> HIDE DEF u
<1>7. u \in [1..(c + d) -> P \cup Q]
  BY <1>1, <1>5
<1>8. ToSet(u) = P \cup Q
  <2>1. ASSUME NEW x \in P \cup Q
        PROVE  \E i \in 1..(c + d) : u[i] = x
    <3>1. CASE x \in P
      <4>1. PICK i \in 1..c : s[i] = x
        BY <1>2, <3>1
      <4>2. i \in 1..(c + d) /\ u[i] = x
        BY <1>1, <1>6, <4>1
      <4> QED
        BY <4>2
    <3>2. CASE x \in Q
      <4>1. PICK i \in 1..d : t[i] = x
        BY <1>3, <3>2
      <4>2. c + i \in 1..(c + d) /\ ~(c + i <= c) /\ (c + i) - c = i
        BY <1>1
      <4>3. u[c + i] = x
        BY <1>6, <4>1, <4>2
      <4> QED
        BY <4>2, <4>3
    <3> QED
      BY <3>1, <3>2
  <2> QED
    BY <1>7, <2>1 DEF ToSet
<1>9. ASSUME NEW i \in 1..(c + d), NEW j \in 1..(c + d), i < j
      PROVE  u[i] < u[j]
  <2>1. CASE j <= c
    BY <1>1, <1>2, <1>6, <1>9, <2>1
  <2>2. CASE i <= c /\ ~(j <= c)
    <3>1. i \in 1..c /\ j - c \in 1..d
      BY <1>1, <2>2
    <3>2. s[i] \in P /\ t[j - c] \in Q
      BY <1>2, <1>3, <3>1
    <3> QED
      BY <1>6, <2>2, <3>2
  <2>3. CASE ~(i <= c)
    <3>1. i - c \in 1..d /\ j - c \in 1..d /\ i - c < j - c /\ ~(j <= c)
      BY <1>1, <1>9, <2>3
    <3> QED
      BY <1>3, <1>6, <2>3, <3>1
  <2> QED
    BY <1>1, <2>1, <2>2, <2>3
<1>10. DOMAIN u = 1..(c + d)
  BY <1>7
<1> QED
  BY <1>1, <1>7, <1>8, <1>9, <1>10 DEF Sorted, c, d, u

-----------------------------------------------------------------------------
(* The transaction of create_order.                                         *)

AddressOps(address) == IF address = NoText THEN <<>> ELSE <<OutputWitness(0, address)>>

LEMMA PerformAddress ==
    ASSUME NEW d, NEW h, NEW x, NEW o, NEW address
    PROVE  /\ IsSeq(AddressOps(address))
           /\ Perform(Sk(d, h, <<x>>, o, <<NoText>>), AddressOps(address))
                 = Sk(d, h, <<x>>, o, IF address = NoText THEN <<NoText>>
                                      ELSE <<NoText, address>>)
<1> DEFINE op == OutputWitness(0, address)
           sk == Sk(d, h, <<x>>, o, <<NoText>>)
<1>1. CASE address = NoText
  <2>1. <<>> \in Seq({op})
    OBVIOUS
  <2>2. IsSeq(<<>>) /\ Perform(sk, <<>>) = sk
    BY <2>1, PerformNone, Zenon DEF IsSeq
  <2> QED
    BY <1>1, <2>2 DEF AddressOps
<1>2. CASE address # NoText
  <2>1. <<op>> \in Seq({op})
    OBVIOUS
  <2>2. IsSeq(<<op>>) /\ Perform(sk, <<op>>) = Apply(sk, op)
    BY <2>1, PerformOne, Zenon DEF IsSeq
  <2>3. Apply(sk, op) = SetOutputWitness(sk, 0, address)
    BY ApplyOutputWitness
  <2>4. SetOutputWitness(sk, 0, address) = Sk(d, h, <<x>>, o, <<NoText, address>>)
    <3> DEFINE place == Len(sk.inputs) + 0 + 1
               wits  == sk.witnesses
               n     == IF Len(wits) > place THEN Len(wits) ELSE place
               f     == [i \in 1..n |-> IF i = place THEN address
                                        ELSE IF i <= Len(wits) THEN wits[i] ELSE NoText]
    <3>1. SetOutputWitness(sk, 0, address) = Sk(d, h, <<x>>, o, f)
      <4> HIDE DEF f
      <4>1. SetOutputWitness(sk, 0, address) = [sk EXCEPT !.witnesses = f]
        BY DEF SetOutputWitness, f
      <4> QED
        BY <4>1 DEF Sk
    <3>2. sk.inputs = <<x>> /\ wits = <<NoText>>
      BY DEF Sk
    <3> HIDE DEF sk, wits
    <3>3. place = 2 /\ Len(wits) = 1
      BY <3>2
    <3> HIDE DEF place
    <3>4. n = 2
      BY <3>3
    <3> HIDE DEF n
    <3>5. f = <<NoText, address>>
      BY <3>2, <3>3, <3>4
    <3> QED
      BY <3>1, <3>5
  <2> QED
    BY <1>2, <2>2, <2>3, <2>4 DEF AddressOps
<1> QED
  BY <1>1, <1>2

LEMMA CreateMakes ==
    ASSUME NEW buyer, NEW cell, NEW typed \in BOOLEAN, NEW address
    PROVE  LET ops == CreateOrderOps(buyer, cell, typed, address)
               two == Append(Append(None, Sighash), Contract)
           IN  /\ IsSeq(ops)
               /\ Perform(Sk(Append(None, Sighash), None, None, None, None), ops)
                     = Sk(IF typed THEN Append(two, XudtCode) ELSE two, None,
                          <<WalletCellInput(buyer)>>, <<cell>>,
                          IF address = NoText THEN <<NoText>> ELSE <<NoText, address>>)
<1> DEFINE x  == WalletCellInput(buyer)
           d0 == Append(None, Sighash)
           d1 == Append(d0, Contract)
           d2 == IF typed THEN Append(d1, XudtCode) ELSE d1
           i1 == <<x>>
           w1 == <<NoText>>
           o1 == <<cell>>
           w2 == IF address = NoText THEN <<NoText>> ELSE <<NoText, address>>
           p1 == <<CellDep(Contract), WalletInput(buyer)>>
           p2 == XudtDep(typed)
           p3 == <<Output(cell)>>
           p4 == AddressOps(address)
           sk == Sk(d0, None, None, None, None)
<1>1. Apply(sk, CellDep(Contract)) = Sk(d1, None, None, None, None)
  BY ApplyCellDep
<1>2. Apply(Sk(d1, None, None, None, None), WalletInput(buyer)) = Sk(d1, None, i1, None, w1)
  <2>1. Append(None, x) = i1 /\ Append(None, NoText) = w1
    BY Longer, Zenon DEF None
  <2> HIDE DEF i1, w1, x, d1
  <2>2. WalletInput(buyer) = Input(x)
    BY WalletInputIs DEF x
  <2>3. Apply(Sk(d1, None, None, None, None), Input(x))
           = Sk(d1, None, Append(None, x), None, Append(None, NoText))
    BY ApplyInput
  <2> QED
    BY <2>1, <2>2, <2>3
<1>3. Apply(Sk(d2, None, i1, None, w1), Output(cell)) = Sk(d2, None, i1, o1, w1)
  <2>1. Append(None, cell) = o1
    BY Longer, Zenon DEF None
  <2> HIDE DEF i1, w1, o1, d2
  <2>2. Apply(Sk(d2, None, i1, None, w1), Output(cell)) = Sk(d2, None, i1, Append(None, cell), w1)
    BY ApplyOutput
  <2> QED
    BY <2>1, <2>2
<1>4. /\ IsSeq(p4)
      /\ Perform(Sk(d2, None, i1, o1, w1), p4) = Sk(d2, None, i1, o1, w2)
  BY PerformAddress
<1> HIDE DEF d1, i1, w1, o1, w2, x, sk, p4
<1>5. IsSeq(p1) /\ Perform(sk, p1) = Sk(d1, None, i1, None, w1)
  BY <1>1, <1>2, PerformTwo
<1>6. IsSeq(p2) /\ Perform(Sk(d1, None, i1, None, w1), p2) = Sk(d2, None, i1, None, w1)
  BY PerformXudtDep
<1> HIDE DEF d2
<1>7. IsSeq(p3) /\ Perform(Sk(d2, None, i1, None, w1), p3) = Sk(d2, None, i1, o1, w1)
  <2>1. p3 \in Seq({Output(cell)})
    OBVIOUS
  <2> QED
    BY <1>3, <2>1, PerformOne DEF IsSeq
<1> HIDE DEF p1, p2, p3
<1>8. IsSeq(p1 \o p2) /\ Perform(sk, p1 \o p2) = Sk(d2, None, i1, None, w1)
  BY <1>5, <1>6, PerformThen
<1>9. IsSeq((p1 \o p2) \o p3) /\ Perform(sk, (p1 \o p2) \o p3) = Sk(d2, None, i1, o1, w1)
  BY <1>7, <1>8, PerformThen
<1>10. /\ IsSeq(((p1 \o p2) \o p3) \o p4)
       /\ Perform(sk, ((p1 \o p2) \o p3) \o p4) = Sk(d2, None, i1, o1, w2)
  BY <1>4, <1>9, PerformThen
<1> QED
  BY <1>10 DEF CreateOrderOps, AddressOps, sk, d1, d2, i1, w1, o1, w2, x, p1, p2, p3, p4

(* The order comes first of the outputs, the wallet's cells stand behind    *)
(* one input, and the address stays where it was put.                       *)
OrderTx(cell, typed, address, more) ==
    Assemble(Prepare \o CreateOrderOps(Buyer, cell, typed, address) \o Balance(Buyer, more))
FirstTexts(address) == IF address = NoText THEN <<NoText>> ELSE <<NoText, address>>

Created(tx, cell, address, more) ==
    /\ tx.outputs[1] = cell
    /\ Len(tx.inputs) = 1 + more
    /\ Extended({NoText, address}, FirstTexts(address), NoText, more, tx.witnesses)

LEMMA CreatedTx ==
    ASSUME NEW cell, NEW typed \in BOOLEAN, NEW address, NEW more \in Nat
    PROVE  Created(OrderTx(cell, typed, address, more), cell, address, more)
<1> DEFINE ops == CreateOrderOps(Buyer, cell, typed, address)
           two == Append(Append(None, Sighash), Contract)
           d   == IF typed THEN Append(two, XudtCode) ELSE two
           x   == WalletCellInput(Buyer)
           i   == <<x>>
           o   == <<cell>>
           S   == {x}
           T   == {NoText, address}
           w   == IF address = NoText THEN <<NoText>> ELSE <<NoText, address>>
           tx  == Assemble(Prepare \o ops \o Balance(Buyer, more))
<1>1. IsSeq(ops) /\ Perform(Sk(Append(None, Sighash), None, None, None, None), ops)
                       = Sk(d, None, i, o, w)
  BY CreateMakes, Zenon
<1>2. i \in Seq(S) /\ Len(i) = 1 /\ x \in S
  OBVIOUS
<1>3. w \in Seq(T) /\ NoText \in T
  <2>1. <<NoText>> \in Seq(T) /\ <<NoText, address>> \in Seq(T)
    OBVIOUS
  <2> QED
    BY <2>1
<1> HIDE DEF ops, d, i, S, T, w, x
<1>4. Perform(Sk(Append(<<>>, Sighash), <<>>, <<>>, <<>>, <<>>), ops) = Sk(d, None, i, o, w)
  BY <1>1 DEF None
<1>5. tx = Sk(d, None, i \o Times(more, x), Append(o, WalletCell(Buyer)), w \o Times(more, NoText))
  BY <1>1, <1>2, <1>3, <1>4, AssemblePrepared DEF x
<1>6. Extended(S, i, x, more, i \o Times(more, x))
  BY <1>2, RepeatedAt, Zenon
<1>7. Extended(T, w, NoText, more, w \o Times(more, NoText))
  BY <1>3, RepeatedAt, Zenon
<1>8. tx.outputs[1] = cell
  <2>1. Append(o, WalletCell(Buyer)) = <<cell, WalletCell(Buyer)>>
    BY Longer
  <2> QED
    BY <1>5, <2>1 DEF Sk
<1>9. Len(tx.inputs) = 1 + more
  BY <1>2, <1>5, <1>6 DEF Extended, Sk
<1>10. tx.witnesses = w \o Times(more, NoText)
  BY <1>5 DEF Sk
<1> QED
  BY <1>7, <1>8, <1>9, <1>10 DEF T, w, ops, OrderTx, FirstTexts, Created

-----------------------------------------------------------------------------
(* Numbers as bytes.                                                        *)

(* The recursion in the definition of FoldRight.                            *)
Weighs(it, S, bytes) ==
    it = [s \in SUBSET S |-> IF s = {} THEN 0
                             ELSE Horner(bytes[Min(s)], it[s \ {Min(s)}])]

LEMMA WeighsExists ==
    ASSUME NEW bytes, NEW n \in Nat
    PROVE  \E it : Weighs(it, 1..n, bytes)
<1> DEFINE From(k) == (n - k + 1)..n
           S == {k \in Nat : k <= n => \E it : Weighs(it, From(k), bytes)}
<1>1. 0 \in S
  <2>1. SUBSET From(0) = {{}}
    OBVIOUS
  <2>2. Weighs([s \in SUBSET From(0) |-> 0], From(0), bytes)
    BY <2>1, Zenon DEF Weighs
  <2> QED
    BY <2>2
<1>2. ASSUME NEW k \in Nat, k \in S
      PROVE  k + 1 \in S
  <2> SUFFICES ASSUME k + 1 <= n
               PROVE  \E it : Weighs(it, From(k + 1), bytes)
    OBVIOUS
  <2> DEFINE m == n - k
             A == From(k)
             B == From(k + 1)
  <2>1. m \in Nat /\ m >= 1 /\ m <= n /\ A = (m + 1)..n /\ B = m..n /\ B \subseteq Nat
    OBVIOUS
  <2>2. PICK it : Weighs(it, A, bytes)
    BY <1>2
  <2> HIDE DEF m, A, B, From
  <2>3. m \in B /\ m \notin A /\ A \subseteq B /\ B \subseteq A \cup {m} /\ \A i \in A : m < i
    BY <2>1
  <2> DEFINE g == [s \in SUBSET B |->
                      IF m \in s THEN Horner(bytes[m], it[s \ {m}]) ELSE it[s]]
             h == [s \in SUBSET B |->
                      IF s = {} THEN 0 ELSE Horner(bytes[Min(s)], g[s \ {Min(s)}])]
  <2>4. ASSUME NEW s \in SUBSET B
        PROVE  g[s] = h[s]
    <3>0. s \subseteq Nat
      BY <2>1
    <3>1. CASE m \in s
      <4>1. Min(s) \in s /\ \A i \in s : Min(s) <= i
        BY <3>0, <3>1, MinLeast
      <4>2. Min(s) = m
        <5>1. Min(s) \in B /\ Min(s) <= m
          BY <4>1, <3>1
        <5>2. Min(s) = m \/ m < Min(s)
          BY <5>1, <2>3
        <5> QED
          BY <2>1, <5>1, <5>2
      <4>3. s \ {m} \in SUBSET B /\ m \notin s \ {m}
        OBVIOUS
      <4>4. g[s \ {m}] = it[s \ {m}]
        BY <4>3
      <4> QED
        BY <4>2, <4>4, <3>1
    <3>2. CASE m \notin s /\ s # {}
      <4>1. s \in SUBSET A
        BY <2>3, <3>2
      <4>2. Min(s) \in s
        BY <3>0, <3>2, MinLeast
      <4>3. s \ {Min(s)} \in SUBSET B /\ m \notin s \ {Min(s)}
        BY <3>2
      <4>4. it[s] = Horner(bytes[Min(s)], it[s \ {Min(s)}])
        BY <2>2, <4>1, <3>2, Zenon DEF Weighs
      <4>5. g[s \ {Min(s)}] = it[s \ {Min(s)}] /\ g[s] = it[s]
        BY <4>3, <3>2
      <4> QED
        BY <4>4, <4>5, <3>2, Zenon
    <3>3. CASE s = {}
      <4>1. it[{}] = 0
        BY <2>2, Zenon DEF Weighs
      <4> QED
        BY <3>3, <4>1
    <3> QED
      BY <3>1, <3>2, <3>3
  <2>5. g = h
    BY <2>4
  <2>6. Weighs(g, B, bytes)
    BY <2>5, Zenon DEF Weighs
  <2> QED
    BY <2>6 DEF B
<1>3. n \in S
  <2>1. Nat \subseteq S
    BY <1>1, <1>2, Induction
  <2> QED
    BY <2>1
<1>4. From(n) = 1..n
  OBVIOUS
<1> QED
  BY <1>3, <1>4

(* The value of a byte string from each place on.                           *)
Values(h, bytes, width) ==
    /\ h[width] = 0
    /\ \A i \in 1..width : h[i - 1] = bytes[i] + Base * h[i]

LEMMA NumberValues ==
    ASSUME NEW width \in Nat, NEW bytes \in Bytes(width)
    PROVE  \E h : Values(h, bytes, width) /\ Number(bytes) = h[0]
<1> DEFINE it == CHOOSE f : f = [s \in SUBSET DOMAIN bytes |->
                    IF s = {} THEN 0 ELSE Horner(bytes[Min(s)], f[s \ {Min(s)}])]
           h  == [i \in 0..width |-> it[(i + 1)..width]]
<1>0. DOMAIN bytes = 1..width
  BY DEF Bytes
<1>1. \E f : f = [s \in SUBSET DOMAIN bytes |->
                     IF s = {} THEN 0 ELSE Horner(bytes[Min(s)], f[s \ {Min(s)}])]
  <2>1. \E f : Weighs(f, 1..width, bytes)
    BY WeighsExists
  <2> QED
    BY <1>0, <2>1, Zenon DEF Weighs
<1>2. it = [s \in SUBSET DOMAIN bytes |->
               IF s = {} THEN 0 ELSE Horner(bytes[Min(s)], it[s \ {Min(s)}])]
  BY <1>1, Zenon
<1>3. Number(bytes) = it[DOMAIN bytes]
  BY Zenon DEF Number, FoldRight, MapThenFoldSet
<1> HIDE DEF it
<1>4. Number(bytes) = h[0]
  BY <1>0, <1>3
<1>5. h[width] = 0
  <2>1. it[{}] = 0
    BY <1>2, Zenon
  <2>2. (width + 1)..width = {} /\ width \in 0..width
    OBVIOUS
  <2> QED
    BY <2>1, <2>2
<1>6. ASSUME NEW i \in 1..width
      PROVE  h[i - 1] = bytes[i] + Base * h[i]
  <2>1. i..width \in SUBSET DOMAIN bytes /\ i..width # {} /\ i..width \subseteq Nat
    <3>1. i..width \subseteq 1..width /\ i \in i..width /\ 1..width \subseteq Nat
      OBVIOUS
    <3> QED
      BY <1>0, <3>1
  <2>2. Min(i..width) \in i..width /\ \A j \in i..width : Min(i..width) <= j
    BY <2>1, MinLeast
  <2>3. Min(i..width) = i
    BY <2>2
  <2>4. (i..width) \ {i} = (i + 1)..width
    OBVIOUS
  <2>5. it[i..width] = Horner(bytes[i], it[(i + 1)..width])
    BY <1>2, <2>1, <2>3, <2>4, Zenon
  <2>6. i \in 0..width /\ i - 1 \in 0..width /\ (i - 1) + 1 = i
    OBVIOUS
  <2> QED
    BY <2>5, <2>6 DEF Horner
<1>7. Values(h, bytes, width)
  BY <1>5, <1>6 DEF Values
<1> QED
  BY <1>4, <1>7

(* What is left after each byte.                                            *)
Rests(f, n, width) ==
    f = [i \in 0..width |-> IF i = 0 THEN n ELSE f[i - 1] \div Base]

LEMMA RestsExists ==
    ASSUME NEW n, NEW width \in Nat
    PROVE  \E f : Rests(f, n, width)
<1> DEFINE S == {k \in Nat : \E f : Rests(f, n, k)}
<1>1. 0 \in S
  <2>1. Rests([i \in 0..0 |-> n], n, 0)
    BY DEF Rests
  <2> QED
    BY <2>1
<1>2. ASSUME NEW k \in Nat, k \in S
      PROVE  k + 1 \in S
  <2>1. PICK f : Rests(f, n, k)
    BY <1>2
  <2> DEFINE g == [i \in 0..(k + 1) |-> IF i <= k THEN f[i] ELSE f[k] \div Base]
  <2>2. Rests(g, n, k + 1)
    BY <2>1 DEF Rests
  <2> QED
    BY <2>2
<1>3. Nat \subseteq S
  BY <1>1, <1>2, Induction
<1> QED
  BY <1>3

LEMMA RestIs ==
    ASSUME NEW n, NEW width \in Nat
    PROVE  /\ Rest(n, width)[0] = n
           /\ \A i \in 1..width : Rest(n, width)[i] = Rest(n, width)[i - 1] \div Base
<1> DEFINE c == CHOOSE f : f = [i \in 0..width |-> IF i = 0 THEN n ELSE f[i - 1] \div Base]
<1>1. \E f : f = [i \in 0..width |-> IF i = 0 THEN n ELSE f[i - 1] \div Base]
  BY RestsExists, Zenon DEF Rests
<1>2. c = [i \in 0..width |-> IF i = 0 THEN n ELSE c[i - 1] \div Base]
  BY <1>1, Zenon
<1>3. Rest(n, width) = c
  BY Zenon DEF Rest
<1> HIDE DEF c
<1> QED
  BY <1>2, <1>3

(* Up and down the places of a byte string.                                 *)
LEMMA Upward ==
    ASSUME NEW w \in Nat, NEW S, 0 \in S, \A i \in 1..w : i - 1 \in S => i \in S
    PROVE  0..w \subseteq S
<1> DEFINE T == {k \in Nat : k <= w => k \in S}
<1>1. 0 \in T
  OBVIOUS
<1>2. ASSUME NEW k \in Nat, k \in T
      PROVE  k + 1 \in T
  <2> SUFFICES ASSUME k + 1 <= w
               PROVE  k + 1 \in S
    OBVIOUS
  <2>1. k + 1 \in 1..w /\ (k + 1) - 1 = k /\ k \in S
    BY <1>2
  <2> QED
    BY <2>1
<1>3. Nat \subseteq T
  BY <1>1, <1>2, Induction
<1> QED
  BY <1>3

LEMMA Downward ==
    ASSUME NEW w \in Nat, NEW S, w \in S, \A i \in 1..w : i \in S => i - 1 \in S
    PROVE  0..w \subseteq S
<1> DEFINE T == {k \in Nat : k <= w => w - k \in S}
<1>1. 0 \in T
  OBVIOUS
<1>2. ASSUME NEW k \in Nat, k \in T
      PROVE  k + 1 \in T
  <2> SUFFICES ASSUME k + 1 <= w
               PROVE  w - (k + 1) \in S
    OBVIOUS
  <2>1. w - k \in 1..w /\ (w - k) - 1 = w - (k + 1) /\ w - k \in S
    BY <1>2
  <2> QED
    BY <2>1
<1>3. Nat \subseteq T
  BY <1>1, <1>2, Induction
<1>4. ASSUME NEW i \in 0..w
      PROVE  i \in S
  <2>1. w - i \in Nat /\ w - i <= w /\ w - (w - i) = i
    OBVIOUS
  <2> QED
    BY <1>3, <2>1
<1> QED
  BY <1>4

LEMMA DivMod ==
    ASSUME NEW x \in Nat, NEW b \in Nat, b > 0
    PROVE  /\ x \div b \in Nat /\ x % b \in 0..(b - 1)
           /\ x = (x % b) + b * (x \div b)
OBVIOUS

(* A quotient of what is no more than b - 1 and b times c is no more than c. *)
LEMMA DivLeast ==
    ASSUME NEW x \in Nat, NEW b \in Nat, b > 0, NEW c \in Nat, x <= (b - 1) + b * c
    PROVE  x \div b <= c
<1> DEFINE q == x \div b
<1>1. q \in Nat /\ b * q <= x
  <2>1. x % b \in Nat /\ x = (x % b) + b * q /\ q \in Nat
    BY DivMod
  <2>2. b * q \in Nat
    BY <2>1
  <2> QED
    BY <2>1, <2>2
<1> HIDE DEF q
<1>2. ASSUME q >= c + 1
      PROVE  FALSE
  <2>1. b * q >= b * (c + 1)
    BY <1>1, <1>2
  <2>2. b * (c + 1) = b * c + b
    OBVIOUS
  <2>3. b * c \in Nat /\ b * q \in Nat
    BY <1>1
  <2> QED
    BY <1>1, <2>1, <2>2, <2>3
<1> QED
  BY <1>1, <1>2 DEF q

(* A number that fits is what its bytes are read as.                        *)
LEMMA RoundTrip ==
    ASSUME NEW w \in Nat
    PROVE  /\ Largest(w) \in Nat
           /\ \A n \in 0..Largest(w) :
                 LittleEndian(n, w) \in Bytes(w) /\ Number(LittleEndian(n, w)) = n
<1> DEFINE top == [i \in 1..w |-> Base - 1]
<1>0. Base \in Nat /\ Base > 0 /\ Base - 1 \in Nat
  BY ProtocolAssumption
<1>1. top \in Bytes(w)
  BY <1>0 DEF Bytes, Byte
<1>2. PICK L : Values(L, top, w) /\ Number(top) = L[0]
  BY <1>1, NumberValues
<1>3. Largest(w) = L[0]
  BY <1>2 DEF Largest
<1>4. L[w] = 0 /\ \A i \in 1..w : L[i - 1] = (Base - 1) + Base * L[i]
  BY <1>2 DEF Values
<1>5. \A i \in 0..w : L[i] \in Nat
  <2> DEFINE S == {i \in 0..w : L[i] \in Nat}
  <2>1. w \in S
    BY <1>4
  <2>2. ASSUME NEW i \in 1..w, i \in S
        PROVE  i - 1 \in S
    <3>1. Base * L[i] \in Nat
      BY <1>0, <2>2
    <3>2. L[i - 1] \in Nat
      BY <1>0, <1>4, <3>1
    <3> QED
      BY <3>2
  <2> HIDE DEF S
  <2>3. 0..w \subseteq S
    BY <2>1, <2>2, Downward
  <2> QED
    BY <2>3 DEF S
<1>6. ASSUME NEW n \in 0..Largest(w)
      PROVE  LittleEndian(n, w) \in Bytes(w) /\ Number(LittleEndian(n, w)) = n
  <2> DEFINE r == Rest(n, w)
             b == LittleEndian(n, w)
  <2>0. n \in Nat /\ n <= L[0]
    BY <1>3, <1>5, <1>6
  <2>1. r[0] = n /\ \A i \in 1..w : r[i] = r[i - 1] \div Base
    BY <2>0, RestIs
  <2> HIDE DEF r
  <2>2. \A i \in 0..w : r[i] \in Nat /\ r[i] <= L[i]
    <3> DEFINE S == {i \in 0..w : r[i] \in Nat /\ r[i] <= L[i]}
    <3>1. 0 \in S
      BY <2>0, <2>1
    <3>2. ASSUME NEW i \in 1..w, i - 1 \in S
          PROVE  i \in S
      <4>1. r[i - 1] \in Nat /\ r[i - 1] <= (Base - 1) + Base * L[i] /\ L[i] \in Nat
        BY <1>4, <1>5, <3>2
      <4>2. r[i - 1] \div Base <= L[i] /\ r[i - 1] \div Base \in Nat
        BY <1>0, <4>1, DivLeast, DivMod
      <4>3. i \in 0..w /\ r[i] = r[i - 1] \div Base
        BY <2>1
      <4> QED
        BY <4>2, <4>3
    <3>3. 0..w \subseteq S
      BY <3>1, <3>2, Upward
    <3> QED
      BY <3>3
  <2>3. b = [i \in 1..w |-> r[i - 1] % Base]
    BY DEF LittleEndian, r
  <2> HIDE DEF b
  <2>4. ASSUME NEW i \in 1..w
        PROVE  r[i - 1] % Base \in Byte /\ r[i - 1] = (r[i - 1] % Base) + Base * r[i]
    <3>1. r[i - 1] \in Nat /\ r[i] = r[i - 1] \div Base
      BY <2>1, <2>2
    <3> QED
      BY <1>0, <3>1, DivMod DEF Byte
  <2>5. b \in Bytes(w)
    BY <2>3, <2>4 DEF Bytes
  <2>6. PICK h : Values(h, b, w) /\ Number(b) = h[0]
    BY <2>5, NumberValues
  <2>7. h[w] = 0 /\ \A i \in 1..w : h[i - 1] = (r[i - 1] % Base) + Base * h[i]
    BY <2>3, <2>6 DEF Values
  <2>8. 0..w \subseteq {i \in 0..w : h[i] = r[i]}
    <3> DEFINE S == {i \in 0..w : h[i] = r[i]}
    <3>1. w \in S
      <4>1. r[w] \in Nat /\ r[w] <= 0
        BY <1>4, <2>2
      <4> QED
        BY <2>7, <4>1
    <3>2. ASSUME NEW i \in 1..w, i \in S
          PROVE  i - 1 \in S
      <4>1. h[i] = r[i]
        BY <3>2
      <4>2. h[i - 1] = r[i - 1]
        BY <2>4, <2>7, <4>1
      <4> QED
        BY <4>2
    <3> HIDE DEF S
    <3>3. 0..w \subseteq S
      BY <3>1, <3>2, Downward
    <3> QED
      BY <3>3 DEF S
  <2>9. h[0] = n
    BY <2>1, <2>8
  <2> QED
    BY <2>5, <2>6, <2>9 DEF b
<1> QED
  BY <1>3, <1>5, <1>6

-----------------------------------------------------------------------------
(* The fields of what has been put together from fields.                    *)

LEMMA SliceMiddle ==
    ASSUME NEW S, NEW p \in Seq(S), NEW q \in Seq(S), NEW r \in Seq(S)
    PROVE  Slice((p \o q) \o r, Len(p), Len(q)) = q
<1> DEFINE all == (p \o q) \o r
           k   == Len(p)
           n   == Len(q)
           m   == Len(r)
           s   == SubSeq(all, k + 1, k + n)
<1>1. k \in Nat /\ n \in Nat /\ m \in Nat
  BY LenProperties
<1>2. p \o q \in Seq(S) /\ Len(p \o q) = k + n
  BY ConcatProperties
<1>3. all \in Seq(S) /\ Len(all) = k + n + m
  BY <1>2, ConcatProperties
<1>4. ASSUME NEW i \in 1..n
      PROVE  all[k + i] = q[i]
  <2>1. k + i \in 1..(k + n) /\ k + i \in 1..((k + n) + m) /\ ~(k + i <= k) /\ (k + i) - k = i
    BY <1>1
  <2>2. (p \o q)[k + i] = q[i]
    BY <1>2, <2>1, ConcatProperties
  <2>3. all[k + i] = (p \o q)[k + i]
    BY <1>1, <1>2, <1>3, <2>1, ConcatProperties
  <2> QED
    BY <2>2, <2>3
<1> HIDE DEF all, k, n, m
<1>5. s \in Seq(S) /\ Len(s) = n /\ \A i \in 1..n : s[i] = all[k + i]
  <2>1. k + 1 \in 1..(Len(all) + 1) /\ k + n \in k..Len(all)
    BY <1>1, <1>3
  <2>2. s = [i \in 1..((k + n) - (k + 1) + 1) |-> all[i + (k + 1) - 1]]
    BY <1>1, <1>3, <2>1
  <2>3. (k + n) - (k + 1) + 1 = n
    BY <1>1
  <2> HIDE DEF s
  <2>4. s = [i \in 1..n |-> all[i + (k + 1) - 1]]
    BY <2>2, <2>3
  <2>5. \A i \in 1..n : i + (k + 1) - 1 = k + i /\ k + i \in 1..Len(all)
    BY <1>1, <1>3
  <2>6. \A i \in 1..n : s[i] = all[k + i] /\ all[k + i] \in S
    BY <1>3, <2>4, <2>5
  <2>7. s \in [1..n -> S]
    BY <2>4, <2>6
  <2> QED
    BY <1>1, <2>6, <2>7
<1> HIDE DEF s
<1>6. Len(q) = n
  BY DEF n
<1>7. s = q
  BY <1>4, <1>5, <1>6, SeqEqual
<1> QED
  BY <1>7 DEF Slice, s, all, k, n

LEMMA SliceTwo ==
    ASSUME NEW S, NEW a \in Seq(S), NEW b \in Seq(S)
    PROVE  /\ a \o b \in Seq(S) /\ Len(a \o b) = Len(a) + Len(b)
           /\ Slice(a \o b, 0, Len(a)) = a
           /\ Slice(a \o b, Len(a), Len(b)) = b
<1> DEFINE none == <<>>
<1>1. none \in Seq(S) /\ Len(none) = 0
  OBVIOUS
<1>2. none \o a = a /\ (a \o b) \o none = a \o b /\ a \o b \in Seq(S)
      /\ Len(a \o b) = Len(a) + Len(b)
  BY ConcatProperties, ConcatEmptySeq
<1> HIDE DEF none
<1>3. Slice((none \o a) \o b, Len(none), Len(a)) = a
  BY <1>1, SliceMiddle
<1>4. Slice((a \o b) \o none, Len(a), Len(b)) = b
  BY <1>1, SliceMiddle
<1> QED
  BY <1>1, <1>2, <1>3, <1>4

LEMMA SliceThree ==
    ASSUME NEW S, NEW a \in Seq(S), NEW b \in Seq(S), NEW c \in Seq(S)
    PROVE  /\ a \o b \o c \in Seq(S) /\ Len(a \o b \o c) = Len(a) + Len(b) + Len(c)
           /\ Slice(a \o b \o c, 0, Len(a)) = a
           /\ Slice(a \o b \o c, Len(a), Len(b)) = b
           /\ Slice(a \o b \o c, Len(a) + Len(b), Len(c)) = c
<1> DEFINE none == <<>>
<1>1. none \in Seq(S) /\ Len(none) = 0
  OBVIOUS
<1>2. /\ a \o b \in Seq(S) /\ Len(a \o b) = Len(a) + Len(b)
      /\ b \o c \in Seq(S)
  BY ConcatProperties
<1>3. /\ (a \o b) \o c \in Seq(S) /\ Len((a \o b) \o c) = Len(a) + Len(b) + Len(c)
  BY <1>2, ConcatProperties
<1>4. (none \o a) \o (b \o c) = (a \o b) \o c
  <2>1. none \o a = a
    BY ConcatEmptySeq
  <2>2. (a \o b) \o c = a \o (b \o c)
    BY ConcatAssociative
  <2> QED
    BY <2>1, <2>2
<1>5. ((a \o b) \o c) \o none = (a \o b) \o c
  BY <1>3, ConcatEmptySeq
<1> HIDE DEF none
<1>6. Slice((none \o a) \o (b \o c), Len(none), Len(a)) = a
  BY <1>1, <1>2, SliceMiddle
<1>7. Slice((a \o b) \o c, Len(a), Len(b)) = b
  BY SliceMiddle
<1>8. Slice(((a \o b) \o c) \o none, Len(a \o b), Len(c)) = c
  BY <1>1, <1>2, SliceMiddle
<1> QED
  BY <1>1, <1>2, <1>3, <1>4, <1>5, <1>6, <1>7, <1>8

LEMMA Widths ==
    /\ FIBER_PUBKEY_LEN \in Nat /\ LOCK_HASH_LEN \in Nat /\ TX_HASH_LEN \in Nat
    /\ INDEX_LEN \in Nat /\ XUDT_AMOUNT_LEN \in Nat /\ CHANNEL_CAPACITY_LEN \in Nat
    /\ SHANNONS_PER_BLOCK_LEN \in Nat /\ BLOCKNUMBER_LEN \in Nat
    /\ LOCK_HASH_LEN > 0
BY ProtocolAssumption

LEMMA BytesSeq ==
    ASSUME NEW w \in Nat, NEW b \in Bytes(w)
    PROVE  b \in Seq(Byte) /\ Len(b) = w
BY DEF Bytes

-----------------------------------------------------------------------------
(* Fractions, and how far f64 is from what it rounds.                       *)

Fraction == [num: Nat, den: Nat \ {0}]

LEMMA MulLe ==
    ASSUME NEW a \in Nat, NEW b \in Nat, NEW c \in Nat, a <= b
    PROVE  c * a <= c * b /\ a * c <= b * c
OBVIOUS

LEMMA CancelLe ==
    ASSUME NEW a \in Nat, NEW b \in Nat, NEW c \in Nat, c > 0, c * a <= c * b
    PROVE  a <= b
<1> SUFFICES ASSUME b + 1 <= a PROVE FALSE
  OBVIOUS
<1>1. c * (b + 1) <= c * a
  BY MulLe
<1>2. c * (b + 1) = c * b + c
  OBVIOUS
<1>3. c * a \in Nat /\ c * b \in Nat
  OBVIOUS
<1> QED
  BY <1>1, <1>2, <1>3

LEMMA NatMul ==
    ASSUME NEW a \in Nat, NEW b \in Nat
    PROVE  a * b \in Nat /\ (a > 0 /\ b > 0 => a * b > 0)
OBVIOUS

LEMMA FractionParts ==
    ASSUME NEW x \in Fraction
    PROVE  x.num \in Nat /\ x.den \in Nat /\ x.den > 0
BY DEF Fraction

LEMMA FractionOps ==
    ASSUME NEW x \in Fraction, NEW y \in Fraction
    PROVE  /\ Product(x, y) \in Fraction
           /\ Plus(x, y) \in Fraction
           /\ y.num > 0 => Over(x, y) \in Fraction
<1>1. /\ x.num \in Nat /\ x.den \in Nat /\ x.den > 0
      /\ y.num \in Nat /\ y.den \in Nat /\ y.den > 0
  BY FractionParts
<1>2. x.den * y.den \in Nat /\ x.den * y.den > 0 /\ x.num * y.num \in Nat
  BY <1>1, NatMul
<1>3. x.num * y.den \in Nat /\ y.num * x.den \in Nat
  BY <1>1, NatMul
<1>4. y.num > 0 => x.den * y.num > 0 /\ x.den * y.num \in Nat
  BY <1>1, NatMul
<1>5. x.num * y.den + y.num * x.den \in Nat
  BY <1>3
<1>6. Product(x, y) \in Fraction
  BY <1>2 DEF Product, Fraction
<1>7. Plus(x, y) \in Fraction
  BY <1>2, <1>5 DEF Plus, Fraction
<1>8. y.num > 0 => Over(x, y) \in Fraction
  BY <1>3, <1>4 DEF Over, Fraction
<1> QED
  BY <1>6, <1>7, <1>8

LEMMA WholeFraction ==
    ASSUME NEW n \in Nat
    PROVE  Whole(n) \in Fraction /\ Whole(n).num = n /\ Whole(n).den = 1
BY DEF Whole, Fraction

(* One bound after another.                                                 *)
LEMMA ChainNumbers ==
    ASSUME NEW k \in Nat, NEW l \in Nat, NEW m \in Nat, NEW n \in Nat,
           NEW xn \in Nat, NEW xd \in Nat, NEW yn \in Nat, NEW yd \in Nat,
           NEW zn \in Nat, NEW zd \in Nat, yd > 0,
           k * xn * yd <= l * yn * xd, m * yn * zd <= n * zn * yd
    PROVE  (k * m) * xn * zd <= (l * n) * zn * xd
<1> DEFINE p == k * xn * yd
           q == l * yn * xd
           r == m * yn * zd
           t == n * zn * yd
           a == (k * m) * xn * zd
           b == (l * n) * zn * xd
<1>1. /\ p \in Nat /\ q \in Nat /\ r \in Nat /\ t \in Nat /\ a \in Nat /\ b \in Nat
      /\ m * zd \in Nat /\ l * xd \in Nat
  BY NatMul
<1>2. yd * a = p * (m * zd) /\ q * (m * zd) = (l * xd) * r /\ (l * xd) * t = yd * b
  OBVIOUS
<1>3. p <= q /\ r <= t
  OBVIOUS
<1> HIDE DEF p, q, r, t, a, b
<1>4. p * (m * zd) <= q * (m * zd)
  BY <1>1, <1>3, MulLe
<1>5. (l * xd) * r <= (l * xd) * t
  BY <1>1, <1>3, MulLe
<1>6. yd * a \in Nat /\ yd * b \in Nat /\ q * (m * zd) \in Nat
  BY <1>1, NatMul
<1>7. yd * a <= yd * b
  BY <1>2, <1>4, <1>5, <1>6
<1>8. a <= b
  BY <1>1, <1>7, CancelLe
<1> QED
  BY <1>8 DEF a, b

LEMMA Chained ==
    ASSUME NEW x \in Fraction, NEW y \in Fraction, NEW z \in Fraction,
           NEW k \in Nat, NEW l \in Nat, NEW m \in Nat, NEW n \in Nat,
           AtMost(k, x, l, y), AtMost(m, y, n, z)
    PROVE  AtMost(k * m, x, l * n, z)
<1>1. /\ x.num \in Nat /\ x.den \in Nat
      /\ y.num \in Nat /\ y.den \in Nat /\ y.den > 0
      /\ z.num \in Nat /\ z.den \in Nat
  BY FractionParts
<1> QED
  BY <1>1, ChainNumbers DEF AtMost

(* A bound holds of what both sides are multiplied by or divided by.        *)
LEMMA Scale ==
    ASSUME NEW x \in Fraction, NEW y \in Fraction, NEW z \in Fraction,
           NEW k \in Nat, NEW l \in Nat, AtMost(k, x, l, y)
    PROVE  /\ AtMost(k, Product(x, z), l, Product(y, z))
           /\ AtMost(k, Product(z, x), l, Product(z, y))
           /\ AtMost(k, Over(x, z), l, Over(y, z))
<1> DEFINE xn == x.num
           xd == x.den
           yn == y.num
           yd == y.den
           zn == z.num
           zd == z.den
           a  == k * xn * yd
           b  == l * yn * xd
<1>1. /\ xn \in Nat /\ xd \in Nat /\ yn \in Nat /\ yd \in Nat /\ zn \in Nat /\ zd \in Nat
  BY FractionParts
<1>2. a <= b
  BY DEF AtMost
<1>3. /\ Product(x, z) = [num |-> xn * zn, den |-> xd * zd]
      /\ Product(y, z) = [num |-> yn * zn, den |-> yd * zd]
      /\ Product(z, x) = [num |-> zn * xn, den |-> zd * xd]
      /\ Product(z, y) = [num |-> zn * yn, den |-> zd * yd]
      /\ Over(x, z) = [num |-> xn * zd, den |-> xd * zn]
      /\ Over(y, z) = [num |-> yn * zd, den |-> yd * zn]
  BY DEF Product, Over
<1> HIDE DEF xn, xd, yn, yd, zn, zd
<1>4. a \in Nat /\ b \in Nat /\ zn * zd \in Nat
  BY <1>1, NatMul
<1>5. (zn * zd) * a <= (zn * zd) * b
  BY <1>2, <1>4, MulLe
<1>6. /\ (zn * zd) * a = k * (xn * zn) * (yd * zd)
      /\ (zn * zd) * a = k * (zn * xn) * (zd * yd)
      /\ (zn * zd) * a = k * (xn * zd) * (yd * zn)
      /\ (zn * zd) * b = l * (yn * zn) * (xd * zd)
      /\ (zn * zd) * b = l * (zn * yn) * (zd * xd)
      /\ (zn * zd) * b = l * (yn * zd) * (xd * zn)
  BY <1>1
<1> HIDE DEF a, b
<1>7. /\ k * (xn * zn) * (yd * zd) <= l * (yn * zn) * (xd * zd)
      /\ k * (zn * xn) * (zd * yd) <= l * (zn * yn) * (zd * xd)
      /\ k * (xn * zd) * (yd * zn) <= l * (yn * zd) * (xd * zn)
  BY <1>5, <1>6
<1> QED
  BY <1>3, <1>7 DEF AtMost

LEMMA OverLess ==
    ASSUME NEW x \in Fraction, NEW y \in Fraction, NEW z \in Fraction,
           NEW k \in Nat, NEW l \in Nat, AtMost(k, x, l, y)
    PROVE  AtMost(k, Over(z, y), l, Over(z, x))
<1> DEFINE xn == x.num
           xd == x.den
           yn == y.num
           yd == y.den
           zn == z.num
           zd == z.den
           a  == k * xn * yd
           b  == l * yn * xd
<1>1. /\ xn \in Nat /\ xd \in Nat /\ yn \in Nat /\ yd \in Nat /\ zn \in Nat /\ zd \in Nat
  BY FractionParts
<1>2. a <= b
  BY DEF AtMost
<1>3. /\ Over(z, x) = [num |-> zn * xd, den |-> zd * xn]
      /\ Over(z, y) = [num |-> zn * yd, den |-> zd * yn]
  BY DEF Over
<1> HIDE DEF xn, xd, yn, yd, zn, zd
<1>4. a \in Nat /\ b \in Nat /\ zn * zd \in Nat
  BY <1>1, NatMul
<1>5. (zn * zd) * a <= (zn * zd) * b
  BY <1>2, <1>4, MulLe
<1>6. /\ (zn * zd) * a = k * (zn * yd) * (zd * xn)
      /\ (zn * zd) * b = l * (zn * xd) * (zd * yn)
  BY <1>1
<1> HIDE DEF a, b
<1>7. k * (zn * yd) * (zd * xn) <= l * (zn * xd) * (zd * yn)
  BY <1>5, <1>6
<1> QED
  BY <1>3, <1>7 DEF AtMost

LEMMA Sums ==
    ASSUME NEW x \in Fraction, NEW y \in Fraction, NEW u \in Fraction, NEW v \in Fraction,
           NEW k \in Nat, NEW l \in Nat, AtMost(k, x, l, u), AtMost(k, y, l, v)
    PROVE  AtMost(k, Plus(x, y), l, Plus(u, v))
<1> DEFINE xn == x.num
           xd == x.den
           yn == y.num
           yd == y.den
           un == u.num
           ud == u.den
           vn == v.num
           vd == v.den
           a  == k * xn * ud
           b  == l * un * xd
           c  == k * yn * vd
           d  == l * vn * yd
           s  == (yd * vd) * a
           t  == (yd * vd) * b
           p  == (xd * ud) * c
           q  == (xd * ud) * d
<1>1. /\ xn \in Nat /\ xd \in Nat /\ yn \in Nat /\ yd \in Nat
      /\ un \in Nat /\ ud \in Nat /\ vn \in Nat /\ vd \in Nat
  BY FractionParts
<1>2. a <= b /\ c <= d
  BY DEF AtMost
<1>3. /\ Plus(x, y) = [num |-> xn * yd + yn * xd, den |-> xd * yd]
      /\ Plus(u, v) = [num |-> un * vd + vn * ud, den |-> ud * vd]
  BY DEF Plus
<1> HIDE DEF xn, xd, yn, yd, un, ud, vn, vd
<1>4. a \in Nat /\ b \in Nat /\ c \in Nat /\ d \in Nat /\ yd * vd \in Nat /\ xd * ud \in Nat
  BY <1>1, NatMul
<1>5. s <= t /\ p <= q /\ s \in Nat /\ t \in Nat /\ p \in Nat /\ q \in Nat
  <2> HIDE DEF a, b, c, d
  <2> QED
    BY <1>2, <1>4, MulLe, NatMul
<1>6. /\ s + p = k * (xn * yd + yn * xd) * (ud * vd)
      /\ t + q = l * (un * vd + vn * ud) * (xd * yd)
  BY <1>1
<1> HIDE DEF s, t, p, q
<1>7. k * (xn * yd + yn * xd) * (ud * vd) <= l * (un * vd + vn * ud) * (xd * yd)
  BY <1>5, <1>6
<1> QED
  BY <1>3, <1>7 DEF AtMost

(* Other factors, when they are in a proper proportion.                     *)
LEMMA Tighten ==
    ASSUME NEW x \in Fraction, NEW y \in Fraction,
           NEW k \in Nat, NEW l \in Nat, NEW m \in Nat, NEW n \in Nat,
           NEW e \in Nat, NEW f \in Nat, f > 0,
           AtMost(k, x, l, y), f * m <= e * k, e * l <= f * n
    PROVE  AtMost(m, x, n, y)
<1> DEFINE a == x.num * y.den
           b == y.num * x.den
<1>1. x.num \in Nat /\ x.den \in Nat /\ y.num \in Nat /\ y.den \in Nat
  BY FractionParts
<1>2. a \in Nat /\ b \in Nat
  BY <1>1, NatMul
<1>3. k * x.num * y.den = k * a /\ l * y.num * x.den = l * b
      /\ m * x.num * y.den = m * a /\ n * y.num * x.den = n * b
  BY <1>1
<1>4. k * a <= l * b
  BY <1>3 DEF AtMost
<1> SUFFICES m * a <= n * b
  BY <1>3 DEF AtMost
<1> HIDE DEF a, b
<1>5. /\ f * m \in Nat /\ f * n \in Nat /\ e * k \in Nat /\ e * l \in Nat
      /\ k * a \in Nat /\ l * b \in Nat /\ m * a \in Nat /\ n * b \in Nat
  BY <1>2, NatMul
<1>6. (f * m) * a <= (e * k) * a /\ (e * l) * b <= (f * n) * b
  BY <1>2, <1>5, MulLe
<1>7. e * (k * a) <= e * (l * b)
  BY <1>4, <1>5, MulLe
<1>8. /\ (f * m) * a = f * (m * a) /\ (f * n) * b = f * (n * b)
      /\ (e * k) * a = e * (k * a) /\ (e * l) * b = e * (l * b)
  BY <1>2
<1>9. /\ f * (m * a) \in Nat /\ f * (n * b) \in Nat
      /\ e * (k * a) \in Nat /\ e * (l * b) \in Nat
  BY <1>5, NatMul
<1>10. f * (m * a) <= f * (n * b)
  BY <1>6, <1>7, <1>8, <1>9
<1> QED
  BY <1>5, <1>10, CancelLe

(* Half to even is half a unit off at the most.                             *)
LEMMA HalfEvenNear ==
    ASSUME NEW x \in Fraction
    PROVE  /\ HalfEven(x) \in Nat
           /\ 2 * (HalfEven(x) * x.den) <= 2 * x.num + x.den
           /\ 2 * x.num <= 2 * (HalfEven(x) * x.den) + x.den
<1> DEFINE n == x.num
           d == x.den
           q == n \div d
           r == n % d
           h == HalfEven(x)
<1>1. n \in Nat /\ d \in Nat /\ d > 0
  BY FractionParts
<1>2. q \in Nat /\ r \in 0..(d - 1) /\ n = r + d * q
  BY <1>1, DivMod
<1>3. (h = q /\ 2 * r <= d) \/ (h = q + 1 /\ 2 * r >= d)
  BY <1>1, <1>2 DEF HalfEven
<1> HIDE DEF h, q, r, n, d
<1>4. h \in Nat
  BY <1>2, <1>3
<1>5. q * d \in Nat /\ d * q = q * d /\ (q + 1) * d = q * d + d
  BY <1>1, <1>2
<1>6. (h * d = q * d /\ 2 * r <= d) \/ (h * d = q * d + d /\ 2 * r >= d)
  BY <1>3, <1>5
<1>7. 2 * (h * d) <= 2 * n + d /\ 2 * n <= 2 * (h * d) + d
  BY <1>1, <1>2, <1>5, <1>6
<1> QED
  BY <1>4, <1>7 DEF h, n, d

(* What f64 makes of a number in its range is within a last place of it.    *)
LEMMA FloatNear ==
    ASSUME NEW x \in Fraction, InRange(x)
    PROVE  /\ Float(x) \in Fraction
           /\ AtMost(SIGNIFICANDS, Float(x), SIGNIFICANDS + 1, x)
           /\ AtMost(SIGNIFICANDS - 1, x, SIGNIFICANDS, Float(x))
           /\ x.num > 0 => Float(x).num > 0
<1> DEFINE S == SIGNIFICANDS
<1>1. S \in Nat /\ S >= 16
  BY ProtocolAssumption
<1>2. CASE x.num = 0
  <2>1. Float(x) = [num |-> 0, den |-> 1]
    BY <1>2 DEF Float, Whole
  <2>2. Float(x) \in Fraction /\ Float(x).num = 0 /\ Float(x).den = 1
    BY <2>1 DEF Fraction
  <2>3. x.den \in Nat
    BY FractionParts
  <2> QED
    BY <1>1, <1>2, <2>2, <2>3 DEF AtMost
<1>3. CASE x.num # 0
  <2> DEFINE u == CHOOSE u \in Ulps : Fits(x, u)
             h == HalfEven(Over(x, u))
             xn == x.num
             xd == x.den
             pn == u.num
             pd == u.den
             un == xn * pd
             ud == xd * pn
             w == h * ud
  <2>1. u \in Ulps /\ Fits(x, u)
    BY <1>3 DEF InRange
  <2>2. Float(x) = Product(Whole(h), u)
    BY <1>3 DEF Float
  <2> HIDE DEF u
  <2>3. pn \in Nat /\ pn > 0 /\ pd \in Nat /\ pd > 0 /\ u \in Fraction
    BY <2>1, ProtocolAssumption DEF Fraction
  <2>4. xn \in Nat /\ xn > 0 /\ xd \in Nat /\ xd > 0
    BY <1>3, FractionParts
  <2>5. Over(x, u) \in Fraction /\ Over(x, u).num = un /\ Over(x, u).den = ud
    BY <2>3, FractionOps DEF Over
  <2>6. h \in Nat /\ 2 * w <= 2 * un + ud /\ 2 * un <= 2 * w + ud
    BY <2>5, HalfEvenNear
  <2>7. S * ud <= 2 * un
    BY <2>1, <2>5 DEF Fits
  <2>8. Float(x) = [num |-> h * pn, den |-> 1 * pd]
    BY <2>2 DEF Product, Whole
  <2> HIDE DEF xn, xd, pn, pd, h
  <2>9. un \in Nat /\ un > 0 /\ ud \in Nat /\ ud > 0 /\ w \in Nat
    BY <2>3, <2>4, <2>6, NatMul
  <2>10. S * w <= (S + 1) * un /\ (S - 1) * un <= S * w
    <3> HIDE DEF un, ud, w, S
    <3>1. S * (2 * w) <= S * (2 * un + ud) /\ S * (2 * un) <= S * (2 * w + ud)
      BY <1>1, <2>6, <2>9, MulLe
    <3>2. S * (2 * w) = 2 * (S * w) /\ S * (2 * un + ud) = 2 * (S * un) + S * ud
          /\ S * (2 * un) = 2 * (S * un) /\ S * (2 * w + ud) = 2 * (S * w) + S * ud
          /\ (S + 1) * un = S * un + un /\ (S - 1) * un = S * un - un
      BY <1>1, <2>9
    <3>3. S * w \in Nat /\ S * un \in Nat /\ S * ud \in Nat
      BY <1>1, <2>9, NatMul
    <3> QED
      BY <2>7, <2>9, <3>1, <3>2, <3>3
  <2>11. /\ S * (h * pn) * xd = S * w
         /\ (S + 1) * xn * (1 * pd) = (S + 1) * un
         /\ (S - 1) * xn * (1 * pd) = (S - 1) * un
    BY <1>1, <2>3, <2>4, <2>6
  <2>12. Float(x).num = h * pn /\ Float(x).den = 1 * pd
    BY <2>8
  <2>13. h > 0
    <3>1. CASE h = 0
      <4>1. w = 0
        BY <2>9, <3>1
      <4> HIDE DEF un, ud, w
      <4>2. S - 1 \in Nat /\ S - 1 > 0
        BY <1>1
      <4>3. (S - 1) * un > 0 /\ (S - 1) * un \in Nat /\ S * w = 0
        BY <1>1, <2>9, <4>1, <4>2, NatMul
      <4> HIDE DEF S
      <4> QED
        BY <2>10, <4>3
    <3> QED
      BY <2>6, <3>1
  <2>14. Float(x) \in Fraction /\ Float(x).num > 0
    <3>1. h * pn \in Nat /\ h * pn > 0 /\ 1 * pd \in Nat /\ 1 * pd > 0
      BY <2>3, <2>6, <2>13, NatMul
    <3> QED
      BY <2>8, <3>1 DEF Fraction
  <2>15. /\ S * Float(x).num * xd <= (S + 1) * xn * Float(x).den
         /\ (S - 1) * xn * Float(x).den <= S * Float(x).num * xd
    <3> HIDE DEF un, ud, w
    <3> QED
      BY <2>10, <2>11, <2>12
  <2> QED
    BY <2>14, <2>15 DEF AtMost, xn, xd
<1> QED
  BY <1>2, <1>3

(* Five roundings are less than six last places up and five down.           *)
LEMMA FivePlaces ==
    ASSUME NEW s \in Nat, s >= 16
    PROVE  LET up   == ((s + 1) * (s + 1)) * (s + 1)
               down == ((s - 1) * (s - 1)) * (s - 1)
               f    == ((s * s) * s) * s
           IN  /\ f \in Nat /\ f > 0
               /\ (up * (s + 1)) * (s + 1) <= f * (s + 6)
               /\ f * (s - 5) <= (down * (s - 1)) * (s - 1)
               /\ ((s - 1) * (s - 1)) * ((s + 1) * s) <= s * ((s * s) * s)
<1> DEFINE a == s * s
           b == a * s
           f == b * s
           g == f * s
<1>1. a \in Nat /\ b \in Nat /\ f \in Nat /\ g \in Nat
  BY NatMul
<1>2. a >= 16 * s /\ b >= 16 * a /\ f >= 16 * b
  <2>1. s * 16 <= a
    BY MulLe
  <2>2. a * 16 <= b
    <3> HIDE DEF a
    <3> QED
      BY <1>1, MulLe
  <2>3. b * 16 <= f
    <3> HIDE DEF b
    <3> QED
      BY <1>1, MulLe
  <2> HIDE DEF a, b, f
  <2> QED
    BY <1>1, <2>1, <2>2, <2>3
<1>3. /\ ((((s + 1) * (s + 1)) * (s + 1)) * (s + 1)) * (s + 1)
            = g + 5 * f + 10 * b + 10 * a + 5 * s + 1
      /\ ((((s - 1) * (s - 1)) * (s - 1)) * (s - 1)) * (s - 1)
            = g - 5 * f + 10 * b - 10 * a + 5 * s - 1
      /\ f * (s + 6) = g + 6 * f
      /\ f * (s - 5) = g - 5 * f
      /\ ((s - 1) * (s - 1)) * ((s + 1) * s) = f - b - a + s
      /\ s * ((s * s) * s) = f
  OBVIOUS
<1> HIDE DEF a, b, f, g
<1>4. g + 5 * f + 10 * b + 10 * a + 5 * s + 1 <= g + 6 * f
  BY <1>1, <1>2
<1>5. g - 5 * f <= g - 5 * f + 10 * b - 10 * a + 5 * s - 1
  BY <1>1, <1>2
<1>6. f > 0 /\ f - b - a + s <= f
  BY <1>1, <1>2
<1> QED
  BY <1>1, <1>3, <1>4, <1>5, <1>6 DEF f, b, a

LEMMA Shares ==
    ASSUME NEW x \in Fraction, NEW y \in Fraction, NEW u \in Fraction, NEW v \in Fraction,
           NEW k \in Nat, NEW l \in Nat, AtMost(k, x, l, y)
    PROVE  AtMost(k, Over(Product(x, u), v), l, Over(Product(y, u), v))
<1>1. AtMost(k, Product(x, u), l, Product(y, u))
  BY Scale
<1>2. Product(x, u) \in Fraction /\ Product(y, u) \in Fraction
  BY FractionOps
<1> QED
  BY <1>1, <1>2, Scale

(* Taking the factors away again, and adding one share more.                *)
LEMMA Undone ==
    ASSUME NEW x \in Fraction, NEW u \in Fraction, NEW v \in Fraction
    PROVE  LET z == Over(Product(Over(Product(v, x), u), u), v)
           IN  AtMost(1, z, 1, x) /\ AtMost(1, x, 1, z)
<1> DEFINE xn == x.num
           xd == x.den
           un == u.num
           ud == u.den
           vn == v.num
           vd == v.den
           z  == Over(Product(Over(Product(v, x), u), u), v)
<1>1. /\ xn \in Nat /\ xd \in Nat /\ un \in Nat /\ ud \in Nat /\ vn \in Nat /\ vd \in Nat
  BY FractionParts
<1>2. z = [num |-> (((vn * xn) * ud) * un) * vd, den |-> (((vd * xd) * un) * ud) * vn]
  BY DEF Over, Product
<1> HIDE DEF xn, xd, un, ud, vn, vd
<1>3. /\ 1 * ((((vn * xn) * ud) * un) * vd) * xd = 1 * xn * ((((vd * xd) * un) * ud) * vn)
      /\ 1 * xn * ((((vd * xd) * un) * ud) * vn) = 1 * ((((vn * xn) * ud) * un) * vd) * xd
      /\ 1 * xn * ((((vd * xd) * un) * ud) * vn) \in Nat
  BY <1>1, NatMul
<1> DEFINE p == (((vn * xn) * ud) * un) * vd
           q == (((vd * xd) * un) * ud) * vn
<1>4. z.num = p /\ z.den = q
  BY <1>2
<1> HIDE DEF z
<1>5. 1 * p * xd = 1 * xn * q /\ 1 * xn * q \in Nat
  BY <1>3
<1> HIDE DEF p, q
<1>6. AtMost(1, z, 1, x) <=> 1 * p * xd <= 1 * xn * q
  BY <1>4 DEF AtMost, xn, xd
<1>7. AtMost(1, x, 1, z) <=> 1 * xn * q <= 1 * p * xd
  BY <1>4 DEF AtMost, xn, xd
<1> QED
  BY <1>5, <1>6, <1>7 DEF z

LEMMA OneMore ==
    ASSUME NEW n \in Nat, NEW u \in Fraction, NEW v \in Fraction
    PROVE  AtMost(1, Over(Product(Whole(n + 1), u), v),
                  1, Plus(Over(Product(Whole(n), u), v), Over(u, v)))
<1> DEFINE un == u.num
           ud == u.den
           vn == v.num
           vd == v.den
           x  == Over(Product(Whole(n + 1), u), v)
           y  == Plus(Over(Product(Whole(n), u), v), Over(u, v))
           s  == ((n * un) * vd) * (ud * vn) + (un * vd) * ((1 * ud) * vn)
           d  == ((1 * ud) * vn) * (ud * vn)
           e  == (1 * ud) * vn
           r  == ((n + 1) * un) * vd
<1>1. /\ un \in Nat /\ ud \in Nat /\ vn \in Nat /\ vd \in Nat
  BY FractionParts
<1>2. x = [num |-> r, den |-> e] /\ y = [num |-> s, den |-> d]
  BY DEF Over, Product, Plus, Whole
<1>3. x.num = r /\ x.den = e /\ y.num = s /\ y.den = d
  BY <1>2
<1> HIDE DEF un, ud, vn, vd, x, y
<1>4. 1 * r * d = 1 * s * e /\ 1 * r * d \in Nat
  BY <1>1, NatMul
<1> HIDE DEF r, s, d, e
<1> QED
  BY <1>3, <1>4 DEF AtMost, x, y

LEMMA RateMaxIs == RateMax \in Nat
BY Widths, RoundTrip DEF RateMax

LEMMA YearIs ==
    ASSUME InRange(Whole(BLOCKS_PER_YEAR))
    PROVE  /\ YearFloat \in Fraction /\ YearFloat.num > 0
           /\ AtMost(SIGNIFICANDS, YearFloat, SIGNIFICANDS + 1, Whole(BLOCKS_PER_YEAR))
<1>1. BLOCKS_PER_YEAR \in Nat /\ BLOCKS_PER_YEAR > 0
  BY ProtocolAssumption
<1>2. /\ Whole(BLOCKS_PER_YEAR) \in Fraction
      /\ Whole(BLOCKS_PER_YEAR).num > 0
  BY <1>1, WholeFraction
<1> QED
  BY <1>2, FloatNear DEF YearFloat

(* A rate fits its width, and is what is paid per block, rounded down.      *)
LEMMA RateFits ==
    ASSUME NEW capacity \in Nat, NEW yield \in Fraction,
           \A x \in Rounded(capacity, yield) : InRange(x)
    PROVE  LET rate == AnnualYieldToRentPerBlock(capacity, yield)
               paid == Float(PerBlock(capacity, yield))
           IN  /\ rate \in 0..RateMax
               /\ AtMost(1, Whole(rate), 1, paid)
               /\ AtMost(1, paid, 1, Whole(rate + 1)) \/ rate = RateMax
<1> DEFINE rate == AnnualYieldToRentPerBlock(capacity, yield)
           paid == Float(PerBlock(capacity, yield))
           n    == paid.num
           d    == paid.den
           q    == n \div d
<1>1. /\ InRange(Whole(capacity)) /\ InRange(Whole(BLOCKS_PER_YEAR))
      /\ InRange(Revenue(capacity, yield)) /\ InRange(PerBlock(capacity, yield))
  BY DEF Rounded
<1>2. Float(Whole(capacity)) \in Fraction
  BY <1>1, WholeFraction, FloatNear
<1>3. Revenue(capacity, yield) \in Fraction
  BY <1>2, FractionOps DEF Revenue
<1>4. Float(Revenue(capacity, yield)) \in Fraction
  BY <1>1, <1>3, FloatNear
<1>5. PerBlock(capacity, yield) \in Fraction
  BY <1>1, <1>4, FractionOps, YearIs DEF PerBlock
<1>6. paid \in Fraction
  BY <1>1, <1>5, FloatNear
<1>7. n \in Nat /\ d \in Nat /\ d > 0
  BY <1>6, FractionParts
<1>8. rate = IF q <= RateMax THEN q ELSE RateMax
  BY DEF AnnualYieldToRentPerBlock
<1>9. RateMax \in Nat
  BY RateMaxIs
<1> HIDE DEF rate, paid
<1>10. q \in Nat /\ n % d \in 0..(d - 1) /\ n = (n % d) + d * q
  BY <1>7, DivMod
<1>11. rate \in 0..RateMax /\ rate <= q /\ (rate = q \/ rate = RateMax)
  <2> HIDE DEF q
  <2> QED
    BY <1>8, <1>9, <1>10
<1>12. d * q \in Nat /\ d * q <= n /\ n <= d * q + d
  <2> DEFINE m == n % d
             p == d * q
  <2>1. p \in Nat
    BY <1>7, <1>10, NatMul
  <2>2. m \in 0..(d - 1) /\ n = m + p
    BY <1>10
  <2> HIDE DEF m, p, n, d
  <2>3. p <= n /\ n <= p + d
    BY <1>7, <2>1, <2>2
  <2> QED
    BY <2>1, <2>3 DEF p
<1> HIDE DEF q
<1>13. d * rate <= d * q
  BY <1>7, <1>10, <1>11, MulLe
<1>14. d * rate \in Nat /\ d * (rate + 1) = d * rate + d
  BY <1>7, <1>11
<1>15. 1 * rate * d <= 1 * n * 1
  BY <1>7, <1>11, <1>12, <1>13, <1>14
<1>16. 1 * n * 1 <= 1 * (rate + 1) * d \/ rate = RateMax
  BY <1>7, <1>11, <1>12, <1>14
<1>17. /\ Whole(rate).num = rate /\ Whole(rate).den = 1
       /\ Whole(rate + 1).num = rate + 1 /\ Whole(rate + 1).den = 1
  BY DEF Whole
<1> QED
  BY <1>11, <1>15, <1>16, <1>17 DEF AtMost, rate, paid

(* What a yield is shown as, after it was cut to a rate.                    *)
LEMMA YieldShown ==
    ASSUME NEW capacity \in Nat, NEW yield \in Fraction,
           \A x \in Rounded(capacity, yield) : InRange(x)
    PROVE  LET rate    == AnnualYieldToRentPerBlock(capacity, yield)
               shown   == RentPerBlockToAnnualYield(rate, capacity)
               oneMore == Plus(shown, Over(Whole(BLOCKS_PER_YEAR), Whole(capacity)))
           IN  /\ AtMost(SIGNIFICANDS, shown, SIGNIFICANDS + 6, yield)
               /\ capacity > 0 =>
                     \/ AtMost(SIGNIFICANDS - 5, yield, SIGNIFICANDS, oneMore)
                     \/ rate = RateMax
<1> DEFINE s     == SIGNIFICANDS
           t     == s - 1
           rate  == AnnualYieldToRentPerBlock(capacity, yield)
           shown == RentPerBlockToAnnualYield(rate, capacity)
           year  == YearFloat
           cap   == Float(Whole(capacity))
           rev   == Float(Revenue(capacity, yield))
           paid  == Float(PerBlock(capacity, yield))
           fr    == Float(Whole(rate))
           sum   == Float(PerYear(rate))
           Share(x) == Over(Product(x, year), cap)
           none  == Share(Over(Product(cap, yield), year))
           step  == Over(Whole(BLOCKS_PER_YEAR), Whole(capacity))
<1>1. s \in Nat /\ s >= 16 /\ t \in Nat /\ s + 1 \in Nat
  BY ProtocolAssumption
<1>2. /\ InRange(Whole(capacity)) /\ InRange(Whole(BLOCKS_PER_YEAR))
      /\ InRange(Revenue(capacity, yield)) /\ InRange(PerBlock(capacity, yield))
      /\ InRange(Whole(rate)) /\ InRange(PerYear(rate))
      /\ capacity > 0 => InRange(YieldOf(rate, capacity))
  BY DEF Rounded
<1>3. /\ rate \in Nat /\ AtMost(1, Whole(rate), 1, paid)
      /\ AtMost(1, paid, 1, Whole(rate + 1)) \/ rate = RateMax
  BY RateFits, RateMaxIs
<1>4. CASE capacity = 0
  <2>1. shown = Whole(0)
    BY <1>4 DEF RentPerBlockToAnnualYield
  <2>2. AtMost(s, shown, s + 6, yield)
    <3>1. yield.num \in Nat /\ yield.den \in Nat
      BY FractionParts
    <3> HIDE DEF shown
    <3>2. s * shown.num * yield.den = 0 /\ (s + 6) * yield.num * shown.den \in Nat
      BY <1>1, <2>1, <3>1, WholeFraction, NatMul
    <3> QED
      BY <3>2 DEF AtMost
  <2> QED
    BY <1>4, <2>2
<1>5. CASE capacity > 0
  <2>1. /\ year \in Fraction /\ year.num > 0
        /\ AtMost(s, year, s + 1, Whole(BLOCKS_PER_YEAR))
    BY <1>2, YearIs
  <2>2. /\ Whole(capacity) \in Fraction /\ Whole(capacity).num > 0
        /\ Whole(BLOCKS_PER_YEAR) \in Fraction
        /\ Whole(rate) \in Fraction /\ Whole(rate + 1) \in Fraction
    BY <1>3, <1>5, ProtocolAssumption, WholeFraction
  <2>3. /\ cap \in Fraction /\ cap.num > 0
        /\ AtMost(t, Whole(capacity), s, cap)
    BY <1>2, <2>2, FloatNear
  <2>4. /\ Product(cap, yield) \in Fraction /\ rev \in Fraction
        /\ AtMost(s, rev, s + 1, Product(cap, yield))
        /\ AtMost(t, Product(cap, yield), s, rev)
    <3>1. Product(cap, yield) \in Fraction
      BY <2>3, FractionOps
    <3> QED
      BY <1>2, <3>1, FloatNear DEF Revenue
  <2>5. /\ Over(rev, year) \in Fraction /\ paid \in Fraction
        /\ AtMost(s, paid, s + 1, Over(rev, year))
        /\ AtMost(t, Over(rev, year), s, paid)
    <3>1. Over(rev, year) \in Fraction
      BY <2>1, <2>4, FractionOps
    <3> QED
      BY <1>2, <3>1, FloatNear DEF PerBlock
  <2>6. /\ fr \in Fraction
        /\ AtMost(s, fr, s + 1, Whole(rate)) /\ AtMost(t, Whole(rate), s, fr)
    BY <1>2, <2>2, FloatNear
  <2>7. /\ Product(fr, year) \in Fraction /\ sum \in Fraction
        /\ AtMost(s, sum, s + 1, Product(fr, year))
        /\ AtMost(t, Product(fr, year), s, sum)
    <3>1. Product(fr, year) \in Fraction
      BY <2>1, <2>6, FractionOps
    <3> QED
      BY <1>2, <3>1, FloatNear DEF PerYear
  <2>8. /\ Over(sum, cap) \in Fraction /\ shown \in Fraction
        /\ AtMost(s, shown, s + 1, Over(sum, cap))
        /\ AtMost(t, Over(sum, cap), s, shown)
    <3>1. Over(sum, cap) \in Fraction
      BY <2>3, <2>7, FractionOps
    <3>2. shown = Float(Over(sum, cap)) /\ InRange(Over(sum, cap))
      BY <1>2, <1>5 DEF RentPerBlockToAnnualYield, YieldOf
    <3> HIDE DEF shown, sum, cap
    <3> QED
      BY <3>1, <3>2, FloatNear
  <2>9. Over(Product(cap, yield), year) \in Fraction
    BY <2>1, <2>4, FractionOps
  <2>10. ASSUME NEW x \in Fraction
         PROVE  Share(x) \in Fraction
    BY <2>1, <2>3, FractionOps
  <2>11. /\ none \in Fraction /\ Share(Over(rev, year)) \in Fraction /\ Share(paid) \in Fraction
         /\ Share(Whole(rate)) \in Fraction /\ Share(Whole(rate + 1)) \in Fraction
         /\ Share(fr) \in Fraction
    <3> HIDE DEF Share
    <3> QED
      BY <2>2, <2>5, <2>6, <2>9, <2>10
  <2>12. Over(year, cap) \in Fraction /\ step \in Fraction
    BY <2>1, <2>2, <2>3, FractionOps
  <2>13. AtMost(1, none, 1, yield) /\ AtMost(1, yield, 1, none)
    BY <2>1, <2>3, Undone
  <2> HIDE DEF shown, sum, fr, paid, rev, cap, year, none, step
  <2>14. AtMost(s, shown, s + 6, yield)
    <3>1. AtMost(s, Over(sum, cap), s + 1, Share(fr))
      BY <1>1, <2>3, <2>7, Scale
    <3>2. AtMost(s, Share(fr), s + 1, Share(Whole(rate)))
      BY <1>1, <2>1, <2>2, <2>3, <2>6, Shares
    <3>3. AtMost(1, Share(Whole(rate)), 1, Share(paid))
      BY <1>3, <2>1, <2>2, <2>3, <2>5, Shares
    <3>4. AtMost(s, Share(paid), s + 1, Share(Over(rev, year)))
      BY <1>1, <2>1, <2>3, <2>5, Shares
    <3>5. AtMost(s, Over(rev, year), s + 1, Over(Product(cap, yield), year))
      BY <1>1, <2>1, <2>4, Scale
    <3>6. AtMost(s, Share(Over(rev, year)), s + 1, none)
      BY <1>1, <2>1, <2>3, <2>5, <2>9, <3>5, Shares DEF none
    <3> HIDE DEF Share
    <3> DEFINE k == s * s
               l == (s + 1) * (s + 1)
    <3>7. k \in Nat /\ l \in Nat /\ k * s \in Nat /\ l * (s + 1) \in Nat
      BY <1>1, NatMul
    <3>8. AtMost(k, shown, l, Share(fr))
      BY <1>1, <2>8, <2>11, <3>1, Chained
    <3>9. AtMost(k * s, shown, l * (s + 1), Share(Whole(rate)))
      <4> HIDE DEF k, l
      <4> QED
        BY <1>1, <2>8, <2>11, <3>2, <3>7, <3>8, Chained
    <3> DEFINE m == k * s
               n == l * (s + 1)
    <3>10. AtMost(m, shown, n, Share(paid))
      <4> HIDE DEF k, l
      <4>1. m \in Nat /\ n \in Nat /\ m * 1 = m /\ n * 1 = n
        BY <3>7
      <4> HIDE DEF m, n
      <4>2. AtMost(m * 1, shown, n * 1, Share(paid))
        BY <2>8, <2>11, <3>3, <3>9, <4>1, Chained DEF m, n
      <4> QED
        BY <4>1, <4>2
    <3>11. m \in Nat /\ n \in Nat
      BY <3>7
    <3> HIDE DEF m, n
    <3>12. AtMost(m * s, shown, n * (s + 1), Share(Over(rev, year)))
      BY <1>1, <2>8, <2>11, <3>4, <3>10, <3>11, Chained
    <3>13. m * s \in Nat /\ n * (s + 1) \in Nat
      BY <1>1, <3>11, NatMul
    <3>14. AtMost((m * s) * s, shown, (n * (s + 1)) * (s + 1), none)
      <4> DEFINE a == m * s
                 b == n * (s + 1)
      <4> HIDE DEF a, b
      <4>1. AtMost(a * s, shown, b * (s + 1), none)
        BY <1>1, <2>8, <2>11, <3>6, <3>12, <3>13, Chained DEF a, b
      <4> QED
        BY <4>1 DEF a, b
    <3> DEFINE a == (m * s) * s
               b == (n * (s + 1)) * (s + 1)
    <3>15. a \in Nat /\ b \in Nat
      BY <1>1, <3>13, NatMul
    <3>16. ((s * s) * s) * s \in Nat /\ ((s * s) * s) * s > 0
           /\ b <= (((s * s) * s) * s) * (s + 6)
      BY <1>1, FivePlaces DEF n, l
    <3>17. (((s * s) * s) * s) * s = a
      BY DEF m, k
    <3> DEFINE f == ((s * s) * s) * s
    <3> HIDE DEF a, b, f
    <3>18. f \in Nat /\ f > 0 /\ f * s <= 1 * a /\ 1 * b <= f * (s + 6)
      BY <1>1, <3>15, <3>16, <3>17 DEF f
    <3>19. AtMost(a, shown, b, none)
      BY <3>14 DEF a, b
    <3>20. AtMost(a * 1, shown, b * 1, yield)
      BY <2>8, <2>11, <2>13, <3>15, <3>19, Chained
    <3>21. AtMost(a, shown, b, yield)
      BY <3>15, <3>20
    <3> DEFINE g == s + 6
    <3>22. g \in Nat /\ s \in Nat
      BY <1>1
    <3>23. f * s <= 1 * a /\ 1 * b <= f * g
      BY <3>18
    <3> HIDE DEF g, s
    <3>24. AtMost(s, shown, g, yield)
      BY <2>8, <3>15, <3>18, <3>21, <3>22, <3>23, Tighten
    <3> QED
      BY <3>24 DEF g
  <2>15. CASE rate = RateMax
    <3> HIDE DEF rate
    <3> QED
      BY <2>14, <2>15 DEF shown, rate
  <2>16. CASE rate # RateMax
    <3> DEFINE down == (t * t) * t
               cube == (s * s) * s
               all  == Plus(shown, step)
    <3>1. AtMost(t, Share(Over(Product(cap, yield), year)), s, Share(Over(rev, year)))
      <4>1. AtMost(t, Over(Product(cap, yield), year), s, Over(rev, year))
        BY <1>1, <2>1, <2>4, Scale
      <4> QED
        BY <1>1, <2>1, <2>3, <2>5, <2>9, <4>1, Shares
    <3>2. AtMost(t, Share(Over(rev, year)), s, Share(paid))
      BY <1>1, <2>1, <2>3, <2>5, Shares
    <3>3. AtMost(1, Share(paid), 1, Share(Whole(rate + 1)))
      BY <1>3, <2>1, <2>2, <2>3, <2>5, <2>16, Shares
    <3>4. AtMost(1, Share(Whole(rate + 1)), 1, Plus(Share(Whole(rate)), Over(year, cap)))
      BY <1>3, <2>1, <2>3, OneMore
    <3>5. AtMost(t, Share(Whole(rate)), s, Share(fr))
      BY <1>1, <2>1, <2>2, <2>3, <2>6, Shares
    <3>6. AtMost(t, Share(fr), s, Over(sum, cap))
      BY <1>1, <2>3, <2>7, Scale
    <3>7. AtMost(s, Over(year, cap), s + 1, Over(Whole(BLOCKS_PER_YEAR), cap))
      BY <1>1, <2>1, <2>2, <2>3, Scale
    <3>8. AtMost(t, Over(Whole(BLOCKS_PER_YEAR), cap), s, step)
      BY <1>1, <2>2, <2>3, OverLess DEF step
    <3>9. Over(Whole(BLOCKS_PER_YEAR), cap) \in Fraction
      BY <2>2, <2>3, FractionOps
    <3>10. AtMost(t, none, s, Share(Over(rev, year)))
      BY <3>1 DEF none
    <3> HIDE DEF Share
    <3>11. /\ t * t \in Nat /\ s * s \in Nat /\ down \in Nat /\ cube \in Nat
           /\ s * t \in Nat /\ (s + 1) * s \in Nat
      BY <1>1, NatMul
    <3>12. AtMost(down, Share(Whole(rate)), cube, shown)
      <4>1. AtMost(t * t, Share(Whole(rate)), s * s, Over(sum, cap))
        BY <1>1, <2>8, <2>11, <3>5, <3>6, Chained
      <4> DEFINE a == t * t
                 b == s * s
      <4> HIDE DEF a, b
      <4>2. AtMost(a * t, Share(Whole(rate)), b * s, shown)
        BY <1>1, <2>8, <2>11, <3>11, <4>1, Chained DEF a, b
      <4> QED
        BY <4>2 DEF a, b
    <3>13. AtMost(down, Over(year, cap), cube, step)
      <4>1. AtMost(s * t, Over(year, cap), (s + 1) * s, step)
        BY <1>1, <2>12, <3>7, <3>8, <3>9, Chained
      <4>2. s * down = (t * t) * (s * t)
        BY <1>1
      <4>3. (t * t) * ((s + 1) * s) <= s * cube
        BY <1>1, FivePlaces
      <4> DEFINE a == s * t
                 b == (s + 1) * s
                 e == t * t
      <4> HIDE DEF a, b, e, down, cube
      <4>4. /\ a \in Nat /\ b \in Nat /\ e \in Nat /\ s * down \in Nat /\ e * a \in Nat
            /\ AtMost(a, Over(year, cap), b, step)
        BY <1>1, <3>11, <4>1, NatMul DEF a, b, e
      <4>5. s * down <= e * a /\ e * b <= s * cube
        BY <4>2, <4>3, <4>4 DEF a, b, e
      <4>6. s > 0
        BY <1>1
      <4> QED
        BY <1>1, <2>12, <3>11, <4>4, <4>5, <4>6, Tighten
    <3>14. /\ Plus(Share(Whole(rate)), Over(year, cap)) \in Fraction /\ all \in Fraction
      BY <2>8, <2>11, <2>12, FractionOps
    <3>15. AtMost(down, Plus(Share(Whole(rate)), Over(year, cap)), cube, all)
      <4> HIDE DEF down, cube
      <4> QED
        BY <2>8, <2>11, <2>12, <3>11, <3>12, <3>13, Sums
    <3> HIDE DEF all
    <3>16. AtMost(1 * t, yield, 1 * s, Share(Over(rev, year)))
      BY <1>1, <2>11, <2>13, <3>10, Chained
    <3>17. AtMost(t, yield, s, Share(Over(rev, year)))
      <4>1. 1 * t = t /\ 1 * s = s
        BY <1>1
      <4> QED
        BY <3>16, <4>1
    <3>18. AtMost(t * t, yield, s * s, Share(paid))
      BY <1>1, <2>11, <3>2, <3>17, Chained
    <3> DEFINE a == t * t
               b == s * s
    <3>19. a \in Nat /\ b \in Nat /\ a * 1 = a /\ b * 1 = b
      BY <3>11
    <3> HIDE DEF a, b, down, cube
    <3>20. AtMost(a, yield, b, Share(paid))
      BY <3>18 DEF a, b
    <3>21. AtMost(a * 1, yield, b * 1, Share(Whole(rate + 1)))
      BY <2>11, <3>3, <3>19, <3>20, Chained
    <3>22. AtMost(a, yield, b, Share(Whole(rate + 1)))
      BY <3>19, <3>21
    <3>23. AtMost(a * 1, yield, b * 1, Plus(Share(Whole(rate)), Over(year, cap)))
      BY <2>11, <3>4, <3>14, <3>19, <3>22, Chained
    <3>24. AtMost(a, yield, b, Plus(Share(Whole(rate)), Over(year, cap)))
      BY <3>19, <3>23
    <3>25. AtMost(a * down, yield, b * cube, all)
      BY <3>11, <3>14, <3>15, <3>19, <3>24, Chained
    <3> DEFINE c == a * down
               d == b * cube
               f == ((s * s) * s) * s
    <3>26. c = (down * t) * t /\ d = f * s
      <4>1. c = (((t * t) * t) * t) * t
        BY <1>1 DEF a, down
      <4>2. d = ((((s * s) * s) * s) * s)
        BY <1>1 DEF b, cube
      <4> QED
        BY <4>1, <4>2 DEF down
    <3>27. f \in Nat /\ f > 0 /\ f * (s - 5) <= (down * t) * t
      BY <1>1, FivePlaces DEF down
    <3>28. c \in Nat /\ d \in Nat
      BY <3>11, <3>19, NatMul
    <3> HIDE DEF c, d, f
    <3>29. f * (s - 5) <= 1 * c /\ 1 * d <= f * s
      <4>1. 1 * c = c /\ 1 * d = d
        BY <3>28
      <4>2. d <= d
        BY <3>28
      <4> QED
        BY <3>26, <3>27, <4>1, <4>2
    <3>30. AtMost(c, yield, d, all)
      BY <3>25 DEF c, d
    <3>31. s - 5 \in Nat
      BY <1>1
    <3>32. AtMost(s - 5, yield, s, all)
      BY <1>1, <3>14, <3>27, <3>28, <3>29, <3>30, <3>31, Tighten
    <3> QED
      BY <2>14, <3>32 DEF all, step, shown
  <2> QED
    BY <2>15, <2>16
<1> QED
  BY <1>4, <1>5

-----------------------------------------------------------------------------
(* What is written into a cell, and read of it.                            *)

LEMMA StoredFits ==
    ASSUME NEW offer \in Offers
    PROVE  LET d == StoredOrder(offer)
           IN  /\ d.xudtAmount \in 0..Largest(XUDT_AMOUNT_LEN)
               /\ d.channelCapacity \in 0..Largest(CHANNEL_CAPACITY_LEN)
               /\ d.shannonsPerBlock \in 0..Largest(SHANNONS_PER_BLOCK_LEN)
<1>1. /\ offer.capacity \in 0..Largest(CHANNEL_CAPACITY_LEN) /\ offer.yield \in Fraction
      /\ offer.amount \in 0..Largest(XUDT_AMOUNT_LEN)
      /\ \A x \in Rounded(offer.capacity, offer.yield) : InRange(x)
  BY DiscoveryAssumption DEF Fraction
<1>2. Largest(XUDT_AMOUNT_LEN) \in Nat /\ Largest(CHANNEL_CAPACITY_LEN) \in Nat
  BY Widths, RoundTrip
<1>3. AnnualYieldToRentPerBlock(offer.capacity, offer.yield) \in 0..Largest(SHANNONS_PER_BLOCK_LEN)
  <2>1. offer.capacity \in Nat /\ offer.yield \in Fraction
    BY <1>1, <1>2
  <2> QED
    BY <1>1, <2>1, RateFits DEF RateMax
<1> QED
  BY <1>1, <1>2, <1>3 DEF StoredOrder

(* The lengths decide the branch.                                           *)
LEMMA BranchByLength ==
    ASSUME NEW lock, NEW data
    PROVE  LET n == Len(lock)
               m == Len(data)
               b == BranchParse(lock, data)
           IN  /\ ORDER_ARGS_LEN # MATCH_ARGS_LEN
               /\ n = ORDER_ARGS_LEN /\ m = ORDER_DATA_LEN => b = OrderState(lock, data)
               /\ n = ORDER_ARGS_LEN /\ m # ORDER_DATA_LEN => b = Unparsable
               /\ n = MATCH_ARGS_LEN /\ m >= MATCH_DATA_LEN => b = MatchState(lock, data)
               /\ n = MATCH_ARGS_LEN /\ ~(m >= MATCH_DATA_LEN) => b = Unparsable
               /\ n # ORDER_ARGS_LEN /\ n # MATCH_ARGS_LEN => b = Unparsable
<1>1. ORDER_ARGS_LEN # MATCH_ARGS_LEN
  BY Widths DEF ORDER_ARGS_LEN, MATCH_ARGS_LEN, CHANNEL_OUTPOINT_LEN
<1> QED
  BY <1>1 DEF BranchParse

(* Each codec, on the records whose numbers fit their fields.               *)
OutPointSet  == [txHash: Bytes(TX_HASH_LEN), index: 0..Largest(INDEX_LEN)]
OrderArgsSet == [fiberPubkey: Bytes(FIBER_PUBKEY_LEN), buyerLockHash: Bytes(LOCK_HASH_LEN)]
MatchArgsSet == [orderArgs: OrderArgsSet, channelOutpoint: OutPointSet,
                 sellerLockHash: Bytes(LOCK_HASH_LEN)]
OrderDataSet == [xudtAmount: 0..Largest(XUDT_AMOUNT_LEN),
                 channelCapacity: 0..Largest(CHANNEL_CAPACITY_LEN),
                 shannonsPerBlock: 0..Largest(SHANNONS_PER_BLOCK_LEN)]
MatchDataSet == [xudtAmount: 0..Largest(XUDT_AMOUNT_LEN),
                 shannonsPerBlock: 0..Largest(SHANNONS_PER_BLOCK_LEN),
                 lastExtractionBlock: 0..Largest(BLOCKNUMBER_LEN)]

(* A number in a field.                                                     *)
LEMMA FieldRead ==
    ASSUME NEW w \in Nat, NEW n \in 0..Largest(w)
    PROVE  /\ LittleEndian(n, w) \in Seq(Byte) /\ Len(LittleEndian(n, w)) = w
           /\ Number(LittleEndian(n, w)) = n
<1>1. LittleEndian(n, w) \in Bytes(w) /\ Number(LittleEndian(n, w)) = n
  BY RoundTrip
<1> QED
  BY <1>1, BytesSeq

LEMMA OutPointRead ==
    ASSUME NEW o \in OutPointSet
    PROVE  /\ OutPointBytes(o) \in Seq(Byte) /\ Len(OutPointBytes(o)) = CHANNEL_OUTPOINT_LEN
           /\ OutPointFrom(OutPointBytes(o)) = o
<1> DEFINE h == o.txHash
           i == LittleEndian(o.index, INDEX_LEN)
<1>1. o.txHash \in Bytes(TX_HASH_LEN) /\ o.index \in 0..Largest(INDEX_LEN)
      /\ o = [txHash |-> o.txHash, index |-> o.index]
  BY DEF OutPointSet
<1>2. h \in Seq(Byte) /\ Len(h) = TX_HASH_LEN
  BY <1>1, Widths, BytesSeq
<1>3. i \in Seq(Byte) /\ Len(i) = INDEX_LEN /\ Number(i) = o.index
  BY <1>1, Widths, FieldRead
<1>4. OutPointBytes(o) = h \o i
  BY DEF OutPointBytes
<1> HIDE DEF i, h
<1>5. /\ h \o i \in Seq(Byte) /\ Len(h \o i) = CHANNEL_OUTPOINT_LEN
      /\ Slice(h \o i, 0, TX_HASH_LEN) = h /\ Slice(h \o i, TX_HASH_LEN, INDEX_LEN) = i
  BY <1>2, <1>3, SliceTwo DEF CHANNEL_OUTPOINT_LEN
<1>6. OutPointFrom(h \o i) = o
  BY <1>1, <1>3, <1>5 DEF OutPointFrom, h
<1> QED
  BY <1>4, <1>5, <1>6

LEMMA OrderArgsRead ==
    ASSUME NEW a \in OrderArgsSet
    PROVE  /\ OrderArgsBytes(a) \in Seq(Byte) /\ Len(OrderArgsBytes(a)) = ORDER_ARGS_LEN
           /\ OrderArgsFrom(OrderArgsBytes(a)) = a
<1> DEFINE p == a.fiberPubkey
           b == a.buyerLockHash
<1>1. p \in Bytes(FIBER_PUBKEY_LEN) /\ b \in Bytes(LOCK_HASH_LEN)
      /\ a = [fiberPubkey |-> p, buyerLockHash |-> b]
  BY DEF OrderArgsSet
<1>2. /\ p \in Seq(Byte) /\ Len(p) = FIBER_PUBKEY_LEN
      /\ b \in Seq(Byte) /\ Len(b) = LOCK_HASH_LEN
  BY <1>1, Widths, BytesSeq
<1>3. OrderArgsBytes(a) = p \o b
  BY DEF OrderArgsBytes
<1> HIDE DEF p, b
<1>4. /\ p \o b \in Seq(Byte) /\ Len(p \o b) = ORDER_ARGS_LEN
      /\ Slice(p \o b, 0, FIBER_PUBKEY_LEN) = p
      /\ Slice(p \o b, FIBER_PUBKEY_LEN, LOCK_HASH_LEN) = b
  BY <1>2, SliceTwo DEF ORDER_ARGS_LEN
<1>5. OrderArgsFrom(p \o b) = a
  BY <1>1, <1>4 DEF OrderArgsFrom
<1> QED
  BY <1>3, <1>4, <1>5

LEMMA MatchArgsRead ==
    ASSUME NEW a \in MatchArgsSet
    PROVE  /\ MatchArgsBytes(a) \in Seq(Byte) /\ Len(MatchArgsBytes(a)) = MATCH_ARGS_LEN
           /\ MatchArgsFrom(MatchArgsBytes(a)) = a
<1> DEFINE p == OrderArgsBytes(a.orderArgs)
           o == OutPointBytes(a.channelOutpoint)
           b == a.sellerLockHash
           all == p \o o \o b
<1>1. /\ a.orderArgs \in OrderArgsSet /\ a.channelOutpoint \in OutPointSet
      /\ b \in Bytes(LOCK_HASH_LEN)
      /\ a = [orderArgs |-> a.orderArgs, channelOutpoint |-> a.channelOutpoint,
              sellerLockHash |-> a.sellerLockHash]
  BY DEF MatchArgsSet
<1>2. p \in Seq(Byte) /\ Len(p) = ORDER_ARGS_LEN /\ OrderArgsFrom(p) = a.orderArgs
  BY <1>1, OrderArgsRead
<1>3. o \in Seq(Byte) /\ Len(o) = CHANNEL_OUTPOINT_LEN /\ OutPointFrom(o) = a.channelOutpoint
  BY <1>1, OutPointRead
<1>4. b \in Seq(Byte) /\ Len(b) = LOCK_HASH_LEN
  BY <1>1, Widths, BytesSeq
<1>5. MatchArgsBytes(a) = all
  BY DEF MatchArgsBytes
<1> HIDE DEF p, o, b
<1>6. /\ all \in Seq(Byte) /\ Len(all) = MATCH_ARGS_LEN
      /\ Slice(all, 0, ORDER_ARGS_LEN) = p
      /\ Slice(all, ORDER_ARGS_LEN, CHANNEL_OUTPOINT_LEN) = o
      /\ Slice(all, ORDER_ARGS_LEN + CHANNEL_OUTPOINT_LEN, LOCK_HASH_LEN) = b
  <2>1. p \in Seq(Byte) /\ o \in Seq(Byte) /\ b \in Seq(Byte)
    BY <1>2, <1>3, <1>4
  <2>2. /\ p \o o \o b \in Seq(Byte)
        /\ Len(p \o o \o b) = Len(p) + Len(o) + Len(b)
        /\ Slice(p \o o \o b, 0, Len(p)) = p
        /\ Slice(p \o o \o b, Len(p), Len(o)) = o
        /\ Slice(p \o o \o b, Len(p) + Len(o), Len(b)) = b
    BY <2>1, SliceThree
  <2> QED
    BY <1>2, <1>3, <1>4, <2>2 DEF MATCH_ARGS_LEN
<1> HIDE DEF all
<1>7. MatchArgsFrom(all) = a
  BY <1>1, <1>2, <1>3, <1>6 DEF MatchArgsFrom, b
<1> QED
  BY <1>5, <1>6, <1>7

LEMMA OrderDataRead ==
    ASSUME NEW d \in OrderDataSet
    PROVE  /\ OrderDataBytes(d) \in Seq(Byte) /\ Len(OrderDataBytes(d)) = ORDER_DATA_LEN
           /\ OrderDataFrom(OrderDataBytes(d)) = d
<1> DEFINE a   == LittleEndian(d.xudtAmount, XUDT_AMOUNT_LEN)
           c   == LittleEndian(d.channelCapacity, CHANNEL_CAPACITY_LEN)
           r   == LittleEndian(d.shannonsPerBlock, SHANNONS_PER_BLOCK_LEN)
           all == a \o c \o r
<1>1. /\ d.xudtAmount \in 0..Largest(XUDT_AMOUNT_LEN)
      /\ d.channelCapacity \in 0..Largest(CHANNEL_CAPACITY_LEN)
      /\ d.shannonsPerBlock \in 0..Largest(SHANNONS_PER_BLOCK_LEN)
      /\ d = [xudtAmount |-> d.xudtAmount, channelCapacity |-> d.channelCapacity,
              shannonsPerBlock |-> d.shannonsPerBlock]
  BY DEF OrderDataSet
<1>2. /\ a \in Seq(Byte) /\ Len(a) = XUDT_AMOUNT_LEN /\ Number(a) = d.xudtAmount
      /\ c \in Seq(Byte) /\ Len(c) = CHANNEL_CAPACITY_LEN /\ Number(c) = d.channelCapacity
      /\ r \in Seq(Byte) /\ Len(r) = SHANNONS_PER_BLOCK_LEN /\ Number(r) = d.shannonsPerBlock
  BY <1>1, Widths, FieldRead
<1>3. OrderDataBytes(d) = all
  BY DEF OrderDataBytes
<1> HIDE DEF a, c, r
<1>4. /\ all \in Seq(Byte) /\ Len(all) = ORDER_DATA_LEN
      /\ Slice(all, 0, XUDT_AMOUNT_LEN) = a
      /\ Slice(all, XUDT_AMOUNT_LEN, CHANNEL_CAPACITY_LEN) = c
      /\ Slice(all, XUDT_AMOUNT_LEN + CHANNEL_CAPACITY_LEN, SHANNONS_PER_BLOCK_LEN) = r
  <2>1. a \in Seq(Byte) /\ c \in Seq(Byte) /\ r \in Seq(Byte)
    BY <1>2
  <2>2. /\ a \o c \o r \in Seq(Byte)
        /\ Len(a \o c \o r) = Len(a) + Len(c) + Len(r)
        /\ Slice(a \o c \o r, 0, Len(a)) = a
        /\ Slice(a \o c \o r, Len(a), Len(c)) = c
        /\ Slice(a \o c \o r, Len(a) + Len(c), Len(r)) = r
    BY <2>1, SliceThree
  <2> QED
    BY <1>2, <2>2 DEF ORDER_DATA_LEN
<1> HIDE DEF all
<1>5. OrderDataFrom(all) = d
  BY <1>1, <1>2, <1>4 DEF OrderDataFrom
<1> QED
  BY <1>3, <1>4, <1>5

(* Match data may be followed by more.                                      *)
LEMMA MatchDataRead ==
    ASSUME NEW d \in MatchDataSet, NEW tail \in Seq(Byte)
    PROVE  LET data == MatchDataBytes(d) \o tail
           IN  /\ data \in Seq(Byte) /\ Len(data) >= MATCH_DATA_LEN
               /\ MatchDataFrom(data) = d
<1> DEFINE a   == LittleEndian(d.xudtAmount, XUDT_AMOUNT_LEN)
           r   == LittleEndian(d.shannonsPerBlock, SHANNONS_PER_BLOCK_LEN)
           n   == LittleEndian(d.lastExtractionBlock, BLOCKNUMBER_LEN)
           all == (a \o r) \o (n \o tail)
<1>1. /\ d.xudtAmount \in 0..Largest(XUDT_AMOUNT_LEN)
      /\ d.shannonsPerBlock \in 0..Largest(SHANNONS_PER_BLOCK_LEN)
      /\ d.lastExtractionBlock \in 0..Largest(BLOCKNUMBER_LEN)
      /\ d = [xudtAmount |-> d.xudtAmount, shannonsPerBlock |-> d.shannonsPerBlock,
              lastExtractionBlock |-> d.lastExtractionBlock]
  BY DEF MatchDataSet
<1>2. /\ a \in Seq(Byte) /\ Len(a) = XUDT_AMOUNT_LEN /\ Number(a) = d.xudtAmount
      /\ r \in Seq(Byte) /\ Len(r) = SHANNONS_PER_BLOCK_LEN /\ Number(r) = d.shannonsPerBlock
      /\ n \in Seq(Byte) /\ Len(n) = BLOCKNUMBER_LEN /\ Number(n) = d.lastExtractionBlock
  BY <1>1, Widths, FieldRead
<1>3. MatchDataBytes(d) = (a \o r) \o n
  BY DEF MatchDataBytes
<1> HIDE DEF a, r, n
<1>4. /\ a \o r \in Seq(Byte) /\ Len(a \o r) = Len(a) + Len(r)
      /\ n \o tail \in Seq(Byte) /\ Len(n \o tail) = Len(n) + Len(tail) /\ Len(tail) \in Nat
  BY <1>2, ConcatProperties, LenProperties
<1>5. MatchDataBytes(d) \o tail = all /\ ((a \o r) \o n) \o tail = all
  <2> DEFINE ar == a \o r
  <2>1. ar \in Seq(Byte) /\ n \in Seq(Byte) /\ tail \in Seq(Byte)
    BY <1>2, <1>4
  <2> HIDE DEF ar
  <2>2. (ar \o n) \o tail = ar \o (n \o tail)
    BY <2>1, ConcatAssociative
  <2> QED
    BY <1>3, <2>2 DEF ar
<1>6. /\ all \in Seq(Byte) /\ Len(all) = Len(a) + Len(r) + Len(n \o tail)
      /\ Slice(all, 0, Len(a)) = a
      /\ Slice(all, Len(a), Len(r)) = r
  <2> DEFINE rest == n \o tail
  <2>1. a \in Seq(Byte) /\ r \in Seq(Byte) /\ rest \in Seq(Byte)
    BY <1>2, <1>4
  <2> HIDE DEF rest
  <2>2. /\ a \o r \o rest \in Seq(Byte)
        /\ Len(a \o r \o rest) = Len(a) + Len(r) + Len(rest)
        /\ Slice(a \o r \o rest, 0, Len(a)) = a
        /\ Slice(a \o r \o rest, Len(a), Len(r)) = r
    BY <2>1, SliceThree
  <2> QED
    BY <2>2 DEF rest
<1>7. Slice(all, Len(a) + Len(r), Len(n)) = n
  <2>1. Slice(((a \o r) \o n) \o tail, Len(a \o r), Len(n)) = n
    BY <1>2, <1>4, SliceMiddle
  <2> QED
    BY <1>4, <1>5, <2>1
<1> HIDE DEF all
<1>8. Len(all) >= MATCH_DATA_LEN
  BY <1>2, <1>4, <1>6, Widths DEF MATCH_DATA_LEN
<1>9. MatchDataFrom(all) = d
  BY <1>1, <1>2, <1>6, <1>7 DEF MatchDataFrom
<1> QED
  BY <1>5, <1>6, <1>8, <1>9

(* What to_bytes has written, the script reads as the branch it is and with *)
(* every field as it was, for all lengths of the fields and all numbers     *)
(* that fit them, and whatever follows the data of a match: no Order is     *)
(* taken for a Match and no number runs into its neighbour.                 *)
THEOREM BranchesAreRead ==
    /\ \A a \in OrderArgsSet : \A d \in OrderDataSet :
          BranchParse(OrderArgsBytes(a), OrderDataBytes(d))
             = [branch |-> "Order", args |-> a, data |-> d]
    /\ \A a \in MatchArgsSet : \A d \in MatchDataSet : \A tail \in Seq(Byte) :
          BranchParse(MatchArgsBytes(a), MatchDataBytes(d) \o tail)
             = [branch |-> "Match", args |-> a, data |-> d]
<1>1. ASSUME NEW a \in OrderArgsSet, NEW d \in OrderDataSet
      PROVE  BranchParse(OrderArgsBytes(a), OrderDataBytes(d))
                = [branch |-> "Order", args |-> a, data |-> d]
  <2> DEFINE lock == OrderArgsBytes(a)
             data == OrderDataBytes(d)
  <2>1. Len(lock) = ORDER_ARGS_LEN /\ OrderArgsFrom(lock) = a
    BY OrderArgsRead
  <2>2. Len(data) = ORDER_DATA_LEN /\ OrderDataFrom(data) = d
    BY OrderDataRead
  <2> HIDE DEF lock, data
  <2>3. BranchParse(lock, data) = OrderState(lock, data)
    BY <2>1, <2>2, BranchByLength
  <2> QED
    BY <2>1, <2>2, <2>3 DEF OrderState, lock, data
<1>2. ASSUME NEW a \in MatchArgsSet, NEW d \in MatchDataSet, NEW tail \in Seq(Byte)
      PROVE  BranchParse(MatchArgsBytes(a), MatchDataBytes(d) \o tail)
                = [branch |-> "Match", args |-> a, data |-> d]
  <2> DEFINE lock == MatchArgsBytes(a)
             data == MatchDataBytes(d) \o tail
  <2>1. Len(lock) = MATCH_ARGS_LEN /\ MatchArgsFrom(lock) = a
    BY MatchArgsRead
  <2>2. Len(data) >= MATCH_DATA_LEN /\ MatchDataFrom(data) = d
    BY MatchDataRead
  <2> HIDE DEF lock, data
  <2>3. BranchParse(lock, data) = MatchState(lock, data)
    BY <2>1, <2>2, BranchByLength
  <2> QED
    BY <2>1, <2>2, <2>3 DEF MatchState, lock, data
<1> QED
  BY <1>1, <1>2

(* What the buyer's cell is parsed to.                                      *)
LEMMA OrderRead ==
    ASSUME NEW k \in Place, NEW offer \in Offers
    PROVE  LET lock == OrderArgsBytes(ArgsAt(k))
               data == OrderDataBytes(StoredOrder(offer))
           IN  /\ lock \in Seq(Byte) /\ data \in Seq(Byte)
               /\ Len(lock) = ORDER_ARGS_LEN /\ Len(data) = ORDER_DATA_LEN
               /\ OrderState(lock, data) = [branch |-> "Order", args |-> ArgsAt(k),
                                            data |-> StoredOrder(offer)]
<1> DEFINE a == ArgsAt(k)
           d == StoredOrder(offer)
<1>1. a \in OrderArgsSet
  BY DiscoveryAssumption DEF ArgsAt, OrderArgsSet
<1>2. d \in OrderDataSet
  <2>1. /\ d.xudtAmount \in 0..Largest(XUDT_AMOUNT_LEN)
        /\ d.channelCapacity \in 0..Largest(CHANNEL_CAPACITY_LEN)
        /\ d.shannonsPerBlock \in 0..Largest(SHANNONS_PER_BLOCK_LEN)
    BY StoredFits
  <2>2. d = [xudtAmount |-> d.xudtAmount, channelCapacity |-> d.channelCapacity,
             shannonsPerBlock |-> d.shannonsPerBlock]
    BY DEF StoredOrder
  <2> HIDE DEF d
  <2> QED
    BY <2>1, <2>2 DEF OrderDataSet
<1> HIDE DEF a, d
<1>3. /\ OrderArgsBytes(a) \in Seq(Byte) /\ Len(OrderArgsBytes(a)) = ORDER_ARGS_LEN
      /\ OrderArgsFrom(OrderArgsBytes(a)) = a
  BY <1>1, OrderArgsRead
<1>4. /\ OrderDataBytes(d) \in Seq(Byte) /\ Len(OrderDataBytes(d)) = ORDER_DATA_LEN
      /\ OrderDataFrom(OrderDataBytes(d)) = d
  BY <1>2, OrderDataRead
<1> QED
  BY <1>3, <1>4 DEF OrderState, a, d

-----------------------------------------------------------------------------
(* What is at a place.                                                      *)

Fetched(e) == IF e.inputs + 1 <= Len(e.witnesses) THEN e.witnesses[e.inputs + 1] ELSE NoText

(* What an offer has become: the bytes of its terms, and its address, if    *)
(* the balance has not moved it.                                            *)
AsOffered(k, e) ==
    /\ e.cell.lock = OrderArgsBytes(ArgsAt(k))
    /\ e.cell.data = OrderDataBytes(StoredOrder(e.offer))
    /\ Fetched(e) \in {NoText, e.offer.address}
    /\ e.inputs = 1 => Fetched(e) = e.offer.address

Good(k, e) ==
    /\ e \in Entry
    /\ Len(e.witnesses) >= e.inputs
    /\ e.offer # NotOffered => AsOffered(k, e)

Goods ==
    /\ index \in [Place -> {Nothing} \cup Entry]
    /\ \A k \in Place : index[k] # Nothing => Good(k, index[k])

Cells == [lock: Seq(Byte), data: Seq(Byte), type: BOOLEAN, capacity: {0}]

LEMMA EntryIs ==
    ASSUME NEW status \in {"live", "spent"}, NEW cell \in Cells, NEW inputs \in Nat,
           NEW witnesses \in Seq(Text), NEW offer \in Offers \cup {NotOffered}
    PROVE  [status |-> status, cell |-> cell, inputs |-> inputs, witnesses |-> witnesses,
            offer |-> offer] \in Entry
BY DEF Entry, Cells

LEMMA EntryNotNothing == \A e \in Entry : e # Nothing
BY DEF Entry, Nothing

LEMMA OfferIs ==
    ASSUME NEW offer \in Offers
    PROVE  /\ offer # NotOffered /\ offer.typed \in BOOLEAN /\ offer.address \in Text
           /\ offer.capacity \in Nat /\ offer.yield \in Fraction /\ offer.amount \in Nat
<1>1. offer \in [capacity: 0..Largest(CHANNEL_CAPACITY_LEN), yield: Fraction,
                 amount: 0..Largest(XUDT_AMOUNT_LEN), typed: BOOLEAN, address: Text]
  BY DiscoveryAssumption DEF Fraction
<1>2. Largest(XUDT_AMOUNT_LEN) \in Nat /\ Largest(CHANNEL_CAPACITY_LEN) \in Nat
  BY Widths, RoundTrip
<1> QED
  BY <1>1, <1>2 DEF NotOffered

(* Where the address is once the balance has added its cells.               *)
LEMMA WitnessesOf ==
    ASSUME NEW address, NEW more \in Nat, NEW t,
           Extended({NoText, address}, FirstTexts(address), NoText, more, t)
    PROVE  /\ t \in Seq({NoText, address}) /\ Len(t) >= 1 + more
           /\ LET at == IF 1 + more + 1 <= Len(t) THEN t[1 + more + 1] ELSE NoText
              IN  at \in {NoText, address} /\ (more = 0 => at = address)
<1>1. CASE address = NoText
  <2>1. Extended({NoText, address}, <<NoText>>, NoText, more, t) /\ Len(<<NoText>>) = 1
    BY <1>1 DEF FirstTexts
  <2>2. t \in Seq({NoText, address}) /\ Len(t) = 1 + more
    BY <2>1 DEF Extended
  <2>3. ~(1 + more + 1 <= Len(t))
    BY <2>2
  <2> QED
    BY <1>1, <2>2, <2>3
<1>2. CASE address # NoText
  <2> DEFINE w == <<NoText, address>>
  <2>1. Extended({NoText, address}, w, NoText, more, t) /\ Len(w) = 2 /\ w[2] = address
    BY <1>2 DEF FirstTexts
  <2> HIDE DEF w
  <2>2. /\ t \in Seq({NoText, address}) /\ Len(t) = 2 + more
        /\ \A j \in 1..(2 + more) : t[j] = IF j <= 2 THEN w[j] ELSE NoText
    BY <2>1 DEF Extended
  <2>3. 1 + more + 1 <= Len(t) /\ 1 + more + 1 = 2 + more /\ 2 + more \in 1..(2 + more)
    BY <2>2
  <2>4. t[2 + more] = IF more = 0 THEN address ELSE NoText
    BY <2>1, <2>2, <2>3
  <2> QED
    BY <2>2, <2>3, <2>4
<1> QED
  BY <1>1, <1>2

LEMMA PlacedGood ==
    ASSUME NEW k \in Place, NEW offer \in Offers, NEW more \in Nat, PlaceOrder(k, offer, more)
    PROVE  /\ index[k] = Nothing /\ ChainMoves({})
           /\ \E e : Good(k, e) /\ e.status = "live" /\ index' = [index EXCEPT ![k] = e]
<1> DEFINE cell == [lock |-> OrderArgsBytes(ArgsAt(k)),
                    data |-> OrderDataBytes(StoredOrder(offer)),
                    type |-> offer.typed, capacity |-> 0]
           tx   == OrderTx(cell, offer.typed, offer.address, more)
           e    == [status |-> "live", cell |-> tx.outputs[1], inputs |-> Len(tx.inputs),
                    witnesses |-> tx.witnesses, offer |-> offer]
<1>1. /\ index[k] = Nothing /\ ChainMoves({}) /\ index' = [index EXCEPT ![k] = e]
  BY DEF PlaceOrder, OrderTx
<1>2. /\ offer # NotOffered /\ offer.typed \in BOOLEAN /\ offer.address \in Text
  BY OfferIs
<1>3. cell \in Cells
  <2>1. OrderArgsBytes(ArgsAt(k)) \in Seq(Byte) /\ OrderDataBytes(StoredOrder(offer)) \in Seq(Byte)
    BY OrderRead
  <2> QED
    BY <1>2, <2>1 DEF Cells
<1>4. /\ cell.lock = OrderArgsBytes(ArgsAt(k)) /\ cell.data = OrderDataBytes(StoredOrder(offer))
  OBVIOUS
<1> HIDE DEF cell
<1>5. /\ tx.outputs[1] = cell
      /\ Len(tx.inputs) = 1 + more
      /\ Extended({NoText, offer.address}, FirstTexts(offer.address), NoText, more,
                  tx.witnesses)
  <2> DEFINE typed   == offer.typed
             address == offer.address
  <2>1. typed \in BOOLEAN
    BY <1>2
  <2> HIDE DEF typed, address
  <2>2. Created(OrderTx(cell, typed, address, more), cell, address, more)
    BY <2>1, CreatedTx
  <2> QED
    BY <2>2 DEF Created, typed, address
<1> DEFINE t == tx.witnesses
<1>6. /\ t \in Seq({NoText, offer.address}) /\ Len(t) >= 1 + more
      /\ LET at == IF 1 + more + 1 <= Len(t) THEN t[1 + more + 1] ELSE NoText
         IN  at \in {NoText, offer.address} /\ (more = 0 => at = offer.address)
  <2> HIDE DEF tx
  <2> QED
    BY <1>5, WitnessesOf
<1>7. /\ e.status = "live" /\ e.cell = cell /\ e.inputs = 1 + more /\ e.witnesses = t
      /\ e.offer = offer
  BY <1>5
<1>8. t \in Seq(Text)
  <2>1. {NoText, offer.address} \subseteq Text
    BY <1>2 DEF Text
  <2> HIDE DEF t
  <2> QED
    BY <1>6, <2>1, SeqMonotonic
<1>9. e \in Entry
  <2>1. e = [status |-> "live", cell |-> cell, inputs |-> 1 + more, witnesses |-> t,
             offer |-> offer]
    BY <1>5
  <2> HIDE DEF e, t
  <2> QED
    BY <1>3, <1>8, <2>1, EntryIs
<1> HIDE DEF e, t
<1>10. Good(k, e)
  BY <1>4, <1>6, <1>7, <1>9 DEF Good, AsOffered, Fetched
<1> QED
  BY <1>1, <1>7, <1>10

LEMMA OtherGood ==
    ASSUME NEW k \in Place, NEW other \in OtherCells, OtherCell(k, other)
    PROVE  /\ index[k] = Nothing /\ ChainMoves({})
           /\ \E e : Good(k, e) /\ e.status = "live" /\ index' = [index EXCEPT ![k] = e]
<1> DEFINE lock == PubkeyAt[k] \o other.args
           cell == [lock |-> lock, data |-> other.data, type |-> FALSE, capacity |-> 0]
           e    == [status |-> "live", cell |-> cell, inputs |-> 1, witnesses |-> <<NoText>>,
                    offer |-> NotOffered]
<1>1. /\ index[k] = Nothing /\ ChainMoves({}) /\ index' = [index EXCEPT ![k] = e]
  BY DEF OtherCell
<1>2. lock \in Seq(Byte) /\ other.data \in Seq(Byte)
  <2>1. PubkeyAt[k] \in Seq(Byte)
    BY Widths, BytesSeq, DiscoveryAssumption
  <2>2. other.args \in Seq(Byte) /\ other.data \in Seq(Byte)
    BY DiscoveryAssumption
  <2> QED
    BY <2>1, <2>2, ConcatProperties
<1>3. cell \in Cells /\ <<NoText>> \in Seq(Text)
  <2> HIDE DEF lock
  <2> QED
    BY <1>2 DEF Cells, Text
<1>4. /\ e.status = "live" /\ e.inputs = 1 /\ e.witnesses = <<NoText>> /\ e.offer = NotOffered
      /\ Len(<<NoText>>) = 1
  OBVIOUS
<1> HIDE DEF cell
<1>5. e \in Entry
  BY <1>3, EntryIs
<1> HIDE DEF e
<1>6. Good(k, e)
  BY <1>4, <1>5 DEF Good
<1> QED
  BY <1>1, <1>4, <1>6

(* Nothing but its status changes of what has come to a place.              *)
SameCell(e, f) ==
    /\ f.cell = e.cell /\ f.inputs = e.inputs /\ f.witnesses = e.witnesses
    /\ f.offer = e.offer

LEMMA SpentGood ==
    ASSUME Goods, NEW k \in Place, SpendCell(k)
    PROVE  /\ index[k].status = "live" /\ index[k] # Nothing /\ ChainMoves({k})
           /\ \E e : /\ Good(k, e) /\ e.status = "spent" /\ SameCell(index[k], e)
                     /\ index' = [index EXCEPT ![k] = e]
<1> DEFINE e == [index[k] EXCEPT !.status = "spent"]
<1>1. /\ index[k].status = "live" /\ ChainMoves({k}) /\ index' = [index EXCEPT ![k] = e]
  BY DEF SpendCell
<1>2. index[k] # Nothing
  BY <1>1 DEF Nothing
<1>3. Good(k, index[k])
  BY <1>2 DEF Goods
<1>4. e \in Entry /\ e.status = "spent" /\ SameCell(index[k], e)
  BY <1>3 DEF Good, Entry, SameCell
<1> HIDE DEF e
<1>5. Good(k, e)
  BY <1>3, <1>4 DEF Good, SameCell, AsOffered, Fetched
<1> QED
  BY <1>1, <1>2, <1>4, <1>5

-----------------------------------------------------------------------------
(* A scan over an index that changes.  The places that matter to it are     *)
(* given the index as a parameter, so that it can be compared before and    *)
(* after a step.                                                            *)

Prefixed(e, filter)     == filter = AnyPubkey \/ IsPrefix(filter, e.cell.lock)
Sought(e, kind, filter) == Prefixed(e, filter) /\ Parse(kind, e.cell) # Unparsable

Live(ix)             == {k \in Place : ix[k].status = "live"}
Of(ix, kind, filter) == {k \in Live(ix) : Sought(ix[k], kind, filter)}

(* What a scan has found are the places up to its cursor that it looks for: *)
(* all of them that were live throughout.                                   *)
FoundOK(ix, r) ==
    /\ Sorted(r.found, ToSet(r.found))
    /\ \A k \in ToSet(r.found) :
          ix[k] # Nothing /\ k <= r.cursor /\ Sought(ix[k], r.kind, r.filter)
    /\ \A k \in r.through :
          /\ ix[k].status = "live"
          /\ k <= r.cursor /\ Sought(ix[k], r.kind, r.filter) => k \in ToSet(r.found)

(* When its paging ends it has passed every place it asked for.             *)
PassedAll(ix, r) ==
    r.pc # "paging" => \A k \in r.through : Prefixed(ix[k], r.filter) => k <= r.cursor

(* While the index stays as it is, through is what is live.                 *)
Unchanged(ix, r) == ~r.changed => r.through = Live(ix) /\ ToSet(r.found) \subseteq Live(ix)

(* The index the operator chose still means the cell the operator saw.      *)
Targeted(ix, r) ==
    LET listing == Of(ix, r.kind, r.target.listFilter)
    IN  /\ r.target.at \in 1..Cardinality(listing)
        /\ InOrder(listing)[r.target.at] = r.target.place

TargetOK(ix, r) ==
    /\ r.pc = "using" => r.target # NoTarget
    /\ r.target # NoTarget /\ ~r.changed => Targeted(ix, r)

(* Beside each order stands the address fetched for it, or none.            *)
AddressOK(ix, r) ==
    r.pc \in {"listed", "using"} =>
        /\ Len(r.address) = Len(r.found)
        /\ \A i \in 1..Len(r.found) : r.address[i] \in {NoText, Fetched(ix[r.found[i]])}

RunOK(ix, r) ==
    r # Idle =>
        /\ r \in Running
        /\ FoundOK(ix, r) /\ PassedAll(ix, r) /\ Unchanged(ix, r)
        /\ TargetOK(ix, r) /\ AddressOK(ix, r)

DiscoveryInv == Goods /\ RunOK(index, run)

-----------------------------------------------------------------------------
(* A page is the least of what is left, and empty only if nothing is left.  *)

PageOf(R) == {k \in R : Cardinality({j \in R : j < k}) < BATCH}

LEMMA PageFirst ==
    ASSUME NEW R \in SUBSET Place, R # {}
    PROVE  PageOf(R) # {}
<1>1. R \subseteq Nat
  BY DiscoveryAssumption DEF Place
<1>2. PICK k \in R : \A j \in R : k <= j
  BY <1>1, LeastNat
<1>3. {j \in R : j < k} = {}
  <2> SUFFICES ASSUME NEW j \in R, j < k
               PROVE  FALSE
    OBVIOUS
  <2>1. k <= j /\ j \in Nat /\ k \in Nat
    BY <1>1, <1>2
  <2> QED
    BY <2>1
<1>4. Cardinality({j \in R : j < k}) < BATCH
  <2>1. Cardinality({}) = 0 /\ 0 < BATCH
    BY FS_EmptySet, DiscoveryAssumption
  <2> QED
    BY <1>3, <2>1
<1> QED
  BY <1>4 DEF PageOf

LEMMA PageUpTo ==
    ASSUME NEW R \in SUBSET Place, PageOf(R) # {}
    PROVE  LET last == Max(PageOf(R))
           IN  /\ last \in R /\ last \in Place
               /\ \A k \in R : k \in PageOf(R) <=> k <= last
<1> DEFINE page == PageOf(R)
           last == Max(page)
           below(k) == {j \in R : j < k}
<1>1. page \subseteq R /\ R \subseteq Nat /\ R \subseteq 0..Places /\ Places \in Nat
  BY DiscoveryAssumption DEF PageOf, Place
<1>2. page \subseteq 0..Places
  BY <1>1
<1> HIDE DEF page
<1>3. last \in page /\ \A k \in page : last >= k
  BY <1>1, <1>2, MaxGreatest DEF page
<1> HIDE DEF last
<1>4. last \in R /\ Cardinality(below(last)) < BATCH
  BY <1>3 DEF page, PageOf
<1>5. ASSUME NEW k \in R, k <= last
      PROVE  k \in page
  <2>1. below(k) \subseteq below(last)
    <3> SUFFICES ASSUME NEW j \in R, j < k
                 PROVE  j < last
      OBVIOUS
    <3>1. j \in Nat /\ k \in Nat /\ last \in Nat
      BY <1>1, <1>4
    <3> QED
      BY <1>5, <3>1
  <2>2. IsFiniteSet(below(last)) /\ Cardinality(below(last)) \in Nat
    <3>1. below(last) \in SUBSET (1..Places)
      BY DEF Place
    <3> QED
      BY <1>1, <3>1, Finite
  <2>3. Cardinality(below(k)) <= Cardinality(below(last)) /\ Cardinality(below(k)) \in Nat
    <3> HIDE DEF below
    <3>1. IsFiniteSet(below(k)) /\ Cardinality(below(k)) <= Cardinality(below(last))
      BY <2>1, <2>2, FS_Subset
    <3> QED
      BY <3>1, FS_CardinalityType
  <2>4. Cardinality(below(k)) < BATCH
    <3> HIDE DEF below
    <3> QED
      BY <1>4, <2>2, <2>3, DiscoveryAssumption
  <2> QED
    BY <2>4 DEF page, PageOf
<1>6. ASSUME NEW k \in R, k \in page
      PROVE  k <= last
  BY <1>1, <1>3, <1>4, <1>6
<1> QED
  BY <1>4, <1>5, <1>6 DEF last, page

(* The fields of a run that a step leaves as they are.                      *)
LEMMA RunIs ==
    ASSUME NEW r \in Running
    PROVE  r = [pc |-> r.pc, kind |-> r.kind, filter |-> r.filter, cursor |-> r.cursor,
                found |-> r.found, address |-> r.address, target |-> r.target,
                through |-> r.through, changed |-> r.changed]
BY DEF Running

LEMMA RunFields ==
    ASSUME NEW r \in Running
    PROVE  /\ r.pc \in {"paging", "scanned", "listed", "using"} /\ r.kind \in {"Order", "Match"}
           /\ r.filter \in ListFilters \cup {AnyPubkey} /\ r.cursor \in 0..Places
           /\ r.found \in Seq(Place) /\ r.address \in Seq(Text)
           /\ r.target \in {NoTarget} \cup [at: Place, place: Place,
                                            listFilter: ListFilters \cup {AnyPubkey}]
           /\ r.through \in SUBSET Place /\ r.changed \in BOOLEAN
BY DEF Running

LEMMA IsRunning ==
    ASSUME NEW pc \in {"paging", "scanned", "listed", "using"}, NEW kind \in {"Order", "Match"},
           NEW filter \in ListFilters \cup {AnyPubkey}, NEW cursor \in 0..Places,
           NEW found \in Seq(Place), NEW address \in Seq(Text),
           NEW target \in {NoTarget} \cup [at: Place, place: Place,
                                           listFilter: ListFilters \cup {AnyPubkey}],
           NEW through \in SUBSET Place, NEW changed \in BOOLEAN
    PROVE  [pc |-> pc, kind |-> kind, filter |-> filter, cursor |-> cursor,
            found |-> found, address |-> address, target |-> target,
            through |-> through, changed |-> changed] \in Running
BY DEF Running

Marked(r, T) == [r EXCEPT !.changed = TRUE, !.through = T]

LEMMA MarkedRun ==
    ASSUME NEW r \in Running, NEW T \in SUBSET Place
    PROVE  /\ Marked(r, T) \in Running
           /\ Marked(r, T).pc = r.pc /\ Marked(r, T).kind = r.kind
           /\ Marked(r, T).filter = r.filter /\ Marked(r, T).cursor = r.cursor
           /\ Marked(r, T).found = r.found /\ Marked(r, T).address = r.address
           /\ Marked(r, T).target = r.target /\ Marked(r, T).through = T
           /\ Marked(r, T).changed = TRUE
BY DEF Marked, Running

-----------------------------------------------------------------------------
(* The steps of the chain and of a tool, on an index and a run.             *)

Left(ix, r) == {k \in Live(ix) : k > r.cursor /\ Prefixed(ix[k], r.filter)}

(* What has come to a place keeps its bytes.                                *)
Kept(ix, iy) == \A k \in Place : ix[k] # Nothing => iy[k] # Nothing /\ SameCell(ix[k], iy[k])

LEMMA SameSought ==
    ASSUME NEW e, NEW f, SameCell(e, f), NEW kind, NEW filter
    PROVE  /\ Prefixed(f, filter) <=> Prefixed(e, filter)
           /\ Sought(f, kind, filter) <=> Sought(e, kind, filter)
           /\ Fetched(f) = Fetched(e)
BY DEF SameCell, Prefixed, Sought, Fetched

LEMMA FoundPlaces ==
    ASSUME NEW r \in Running
    PROVE  /\ ToSet(r.found) \in SUBSET Place /\ r.found \in [1..Len(r.found) -> Place]
           /\ Len(r.found) \in Nat
           /\ \A i \in 1..Len(r.found) : r.found[i] \in ToSet(r.found)
BY RunFields DEF ToSet

LEMMA LiveIsSomething ==
    ASSUME NEW ix, NEW k, ix[k].status = "live"
    PROVE  ix[k] # Nothing
BY DEF Nothing

LEMMA MarkedOK ==
    ASSUME NEW ix, NEW iy, NEW r, r # Idle, RunOK(ix, r), Kept(ix, iy), NEW gone,
           \A k \in Place \ gone : ix[k].status = "live" => iy[k].status = "live"
    PROVE  RunOK(iy, Marked(r, r.through \ gone))
<1> DEFINE T == r.through \ gone
           s == Marked(r, T)
<1>1. /\ r \in Running
      /\ FoundOK(ix, r) /\ PassedAll(ix, r) /\ Unchanged(ix, r)
      /\ TargetOK(ix, r) /\ AddressOK(ix, r)
  BY DEF RunOK
<1>2. T \in SUBSET Place /\ r.through \in SUBSET Place
  BY <1>1, RunFields
<1>3. /\ s \in Running
      /\ s.pc = r.pc /\ s.kind = r.kind /\ s.filter = r.filter /\ s.cursor = r.cursor
      /\ s.found = r.found /\ s.address = r.address /\ s.target = r.target
      /\ s.through = T /\ s.changed = TRUE
  BY <1>1, <1>2, MarkedRun
<1> HIDE DEF s
<1>4. ToSet(r.found) \in SUBSET Place /\ \A i \in 1..Len(r.found) : r.found[i] \in ToSet(r.found)
  BY <1>1, FoundPlaces
<1>5. ASSUME NEW k \in Place, ix[k] # Nothing
      PROVE  /\ iy[k] # Nothing
             /\ \A filter : Prefixed(iy[k], filter) <=> Prefixed(ix[k], filter)
             /\ \A kind, filter : Sought(iy[k], kind, filter) <=> Sought(ix[k], kind, filter)
             /\ Fetched(iy[k]) = Fetched(ix[k])
  <2>1. iy[k] # Nothing /\ SameCell(ix[k], iy[k])
    BY <1>5 DEF Kept
  <2> QED
    BY <2>1, SameSought
<1>6. \A k \in T : k \in Place /\ ix[k] # Nothing /\ ix[k].status = "live" /\ iy[k].status = "live"
  BY <1>1, <1>2, LiveIsSomething DEF FoundOK
<1>7. FoundOK(iy, s)
  BY <1>1, <1>3, <1>4, <1>5, <1>6 DEF FoundOK
<1>8. PassedAll(iy, s)
  BY <1>1, <1>3, <1>5, <1>6 DEF PassedAll
<1>9. Unchanged(iy, s) /\ TargetOK(iy, s)
  BY <1>1, <1>3 DEF Unchanged, TargetOK
<1>10. AddressOK(iy, s)
  BY <1>1, <1>3, <1>4, <1>5 DEF AddressOK, FoundOK
<1> QED
  BY <1>3, <1>7, <1>8, <1>9, <1>10 DEF RunOK, s

Ended(r) == [r EXCEPT !.pc = "scanned"]

LEMMA EndedOK ==
    ASSUME NEW ix, NEW r, r # Idle, RunOK(ix, r), r.pc = "paging", PageOf(Left(ix, r)) = {}
    PROVE  RunOK(ix, Ended(r))
<1> DEFINE s == Ended(r)
<1>1. /\ r \in Running
      /\ FoundOK(ix, r) /\ PassedAll(ix, r) /\ Unchanged(ix, r)
      /\ TargetOK(ix, r) /\ AddressOK(ix, r)
  BY DEF RunOK
<1>2. /\ s \in Running
      /\ s.pc = "scanned" /\ s.kind = r.kind /\ s.filter = r.filter /\ s.cursor = r.cursor
      /\ s.found = r.found /\ s.address = r.address /\ s.target = r.target
      /\ s.through = r.through /\ s.changed = r.changed
  BY <1>1 DEF Ended, Running
<1> HIDE DEF s
<1>3. Left(ix, r) = {}
  <2>1. Left(ix, r) \in SUBSET Place
    BY DEF Left, Live
  <2> QED
    BY <2>1, PageFirst
<1>4. PassedAll(ix, s)
  <2> SUFFICES ASSUME NEW k \in r.through, Prefixed(ix[k], r.filter)
               PROVE  k <= r.cursor
    BY <1>2 DEF PassedAll
  <2>1. k \in Place /\ ix[k].status = "live" /\ k \in Nat /\ r.cursor \in Nat
    BY <1>1, RunFields DEF FoundOK, Place
  <2>2. ~(k > r.cursor)
    BY <1>3, <2>1 DEF Left, Live
  <2> QED
    BY <2>1, <2>2
<1>5. FoundOK(ix, s) /\ Unchanged(ix, s) /\ TargetOK(ix, s) /\ AddressOK(ix, s)
  BY <1>1, <1>2 DEF FoundOK, Unchanged, TargetOK, Targeted, AddressOK
<1> QED
  BY <1>2, <1>4, <1>5 DEF RunOK, s

Turned(r, cursor, found) == [r EXCEPT !.cursor = cursor, !.found = found]

LEMMA TurnedOK ==
    ASSUME NEW ix, NEW r, r # Idle, RunOK(ix, r), r.pc = "paging", PageOf(Left(ix, r)) # {}
    PROVE  LET page == PageOf(Left(ix, r))
               more == {k \in page : Parse(r.kind, ix[k].cell) # Unparsable}
           IN  RunOK(ix, Turned(r, Max(page), r.found \o InOrder(more)))
<1> DEFINE page == PageOf(Left(ix, r))
           more == {k \in page : Parse(r.kind, ix[k].cell) # Unparsable}
           last == Max(page)
           next == r.found \o InOrder(more)
           old  == ToSet(r.found)
           s    == Turned(r, last, next)
<1>1. /\ r \in Running
      /\ FoundOK(ix, r) /\ PassedAll(ix, r) /\ Unchanged(ix, r)
      /\ TargetOK(ix, r) /\ AddressOK(ix, r)
  BY DEF RunOK
<1>2. Left(ix, r) \in SUBSET Place
  BY DEF Left, Live
<1>3. /\ last \in Left(ix, r) /\ last \in Place
      /\ \A k \in Left(ix, r) : k \in page <=> k <= last
  BY <1>2, PageUpTo
<1>4. /\ r.cursor \in Nat /\ last \in Nat /\ r.cursor < last /\ last \in 0..Places
      /\ Places \in Nat /\ old \in SUBSET Place
  <2>1. r.cursor \in Nat /\ old \in SUBSET Place /\ Places \in Nat
    BY <1>1, RunFields, FoundPlaces, DiscoveryAssumption
  <2>2. last > r.cursor
    BY <1>3 DEF Left
  <2> HIDE DEF last
  <2>3. last \in 1..Places
    BY <1>3 DEF Place
  <2> QED
    BY <2>1, <2>2, <2>3
<1>5. /\ page \subseteq Left(ix, r) /\ more \in SUBSET Place
      /\ \A k \in more : /\ k \in Live(ix) /\ k > r.cursor /\ k <= last
                         /\ Sought(ix[k], r.kind, r.filter)
  <2>1. page \subseteq Left(ix, r)
    BY DEF PageOf
  <2> HIDE DEF page, last
  <2> QED
    BY <1>2, <1>3, <2>1 DEF Left, Sought
<1>6. Sorted(InOrder(more), more)
  <2> HIDE DEF more
  <2> QED
    BY <1>4, <1>5, InOrderSorted DEF Place
<1>7. Sorted(next, old \cup more) /\ ToSet(next) = old \cup more
  <2>1. Sorted(r.found, old)
    BY <1>1 DEF FoundOK
  <2>2. \A p \in old, q \in more : p < q
    <3> SUFFICES ASSUME NEW p \in old, NEW q \in more
                 PROVE  p < q
      OBVIOUS
    <3> HIDE DEF more, old
    <3>1. p \in Place /\ q \in Place /\ q > r.cursor
      BY <1>4, <1>5
    <3>2. p <= r.cursor
      BY <1>1 DEF FoundOK, old
    <3> QED
      BY <1>4, <3>1, <3>2 DEF Place
  <2> DEFINE t == InOrder(more)
  <2>3. Sorted(t, more)
    BY <1>6
  <2> HIDE DEF more, old, t
  <2>4. Sorted(r.found \o t, old \cup more)
    BY <1>4, <1>5, <2>1, <2>2, <2>3, SortedConcat DEF Place
  <2> QED
    BY <2>4 DEF Sorted, t
<1>8. next \in Seq(Place)
  <2> DEFINE c == Cardinality(old \cup more)
  <2>1. old \cup more \in SUBSET Place
    BY <1>4, <1>5
  <2> HIDE DEF old, more, next
  <2>2. c \in Nat
    BY <1>4, <2>1, Finite DEF Place
  <2>3. next \in [1..c -> Place]
    BY <1>7, <2>1 DEF Sorted
  <2> HIDE DEF c
  <2> QED
    BY <2>2, <2>3
<1> HIDE DEF next, last, old, more
<1>9. /\ s \in Running
      /\ s.pc = "paging" /\ s.kind = r.kind /\ s.filter = r.filter /\ s.cursor = last
      /\ s.found = next /\ s.address = r.address /\ s.target = r.target
      /\ s.through = r.through /\ s.changed = r.changed
  BY <1>1, <1>4, <1>8 DEF Turned, Running
<1> HIDE DEF s, page
<1>10. \A k \in more : k \in Place /\ ix[k].status = "live" /\ ix[k] # Nothing
  BY <1>5, LiveIsSomething DEF Live
<1>11. FoundOK(ix, s)
  <2>1. Sorted(s.found, ToSet(s.found)) /\ ToSet(s.found) = old \cup more
    BY <1>7, <1>9
  <2>2. ASSUME NEW k \in old \cup more
        PROVE  ix[k] # Nothing /\ k <= last /\ Sought(ix[k], r.kind, r.filter)
    <3>1. CASE k \in old
      <4>1. ix[k] # Nothing /\ k <= r.cursor /\ Sought(ix[k], r.kind, r.filter)
        BY <1>1, <3>1 DEF FoundOK, old
      <4>2. k \in Nat
        BY <1>4, <3>1 DEF Place
      <4> QED
        BY <1>4, <4>1, <4>2
    <3>2. CASE k \in more
      BY <1>5, <1>10, <3>2
    <3> QED
      BY <3>1, <3>2
  <2>3. ASSUME NEW k \in r.through
        PROVE  /\ ix[k].status = "live"
               /\ k <= last /\ Sought(ix[k], r.kind, r.filter) => k \in old \cup more
    <3>1. /\ ix[k].status = "live" /\ k \in Place
          /\ k <= r.cursor /\ Sought(ix[k], r.kind, r.filter) => k \in old
      BY <1>1, RunFields DEF FoundOK, old
    <3>2. ASSUME k <= last, Sought(ix[k], r.kind, r.filter), ~(k <= r.cursor)
          PROVE  k \in more
      <4>1. k \in Nat /\ k > r.cursor
        BY <1>4, <3>1, <3>2 DEF Place
      <4>2. k \in Left(ix, r)
        BY <3>1, <3>2, <4>1 DEF Left, Live, Sought
      <4>3. k \in page
        BY <1>3, <3>2, <4>2
      <4> QED
        BY <3>2, <4>3 DEF more, Sought
    <3> QED
      BY <3>1, <3>2
  <2> QED
    BY <1>9, <2>1, <2>2, <2>3 DEF FoundOK
<1>12. PassedAll(ix, s)
  BY <1>9 DEF PassedAll
<1>13. Unchanged(ix, s)
  BY <1>1, <1>5, <1>7, <1>9 DEF Unchanged, old
<1>14. TargetOK(ix, s) /\ AddressOK(ix, s)
  BY <1>1, <1>9 DEF TargetOK, Targeted, AddressOK
<1> QED
  BY <1>9, <1>11, <1>12, <1>13, <1>14 DEF RunOK, s, page, last, next, more
Enriched(r, pc, address) == [r EXCEPT !.pc = pc, !.address = address]

LEMMA EnrichedOK ==
    ASSUME NEW ix, NEW r, r # Idle, RunOK(ix, r), r.pc = "scanned",
           NEW address \in Seq(Text), Len(address) = Len(r.found),
           \A i \in 1..Len(r.found) : address[i] \in {NoText, Fetched(ix[r.found[i]])}
    PROVE  RunOK(ix, Enriched(r, IF r.target = NoTarget THEN "listed" ELSE "using", address))
<1> DEFINE pc == IF r.target = NoTarget THEN "listed" ELSE "using"
           s  == Enriched(r, pc, address)
<1>1. /\ r \in Running
      /\ FoundOK(ix, r) /\ PassedAll(ix, r) /\ Unchanged(ix, r)
      /\ TargetOK(ix, r) /\ AddressOK(ix, r)
  BY DEF RunOK
<1>2. pc \in {"listed", "using"} /\ (pc = "using" => r.target # NoTarget)
  OBVIOUS
<1> HIDE DEF pc
<1>3. /\ s \in Running
      /\ s.pc = pc /\ s.kind = r.kind /\ s.filter = r.filter /\ s.cursor = r.cursor
      /\ s.found = r.found /\ s.address = address /\ s.target = r.target
      /\ s.through = r.through /\ s.changed = r.changed
  BY <1>1, <1>2 DEF Enriched, Running
<1> HIDE DEF s
<1>4. FoundOK(ix, s) /\ PassedAll(ix, s) /\ Unchanged(ix, s)
  BY <1>1, <1>3 DEF FoundOK, PassedAll, Unchanged
<1>5. TargetOK(ix, s)
  BY <1>1, <1>2, <1>3 DEF TargetOK, Targeted
<1>6. AddressOK(ix, s)
  BY <1>3 DEF AddressOK
<1> QED
  BY <1>3, <1>4, <1>5, <1>6 DEF RunOK, s, pc

Started(ix, kind, filter, target, changed) ==
    [pc |-> "paging", kind |-> kind, filter |-> filter, cursor |-> 0, found |-> <<>>,
     address |-> <<>>, target |-> target, through |-> Live(ix), changed |-> changed]

LEMMA StartedOK ==
    ASSUME NEW ix, NEW kind \in {"Order", "Match"}, NEW filter \in ListFilters \cup {AnyPubkey},
           NEW target \in {NoTarget} \cup [at: Place, place: Place,
                                           listFilter: ListFilters \cup {AnyPubkey}],
           NEW changed \in BOOLEAN,
           target # NoTarget /\ ~changed =>
               LET listing == Of(ix, kind, target.listFilter)
               IN  /\ target.at \in 1..Cardinality(listing)
                   /\ InOrder(listing)[target.at] = target.place
    PROVE  RunOK(ix, Started(ix, kind, filter, target, changed))
<1> DEFINE s == Started(ix, kind, filter, target, changed)
<1>1. <<>> \in Seq(Place) /\ <<>> \in Seq(Text) /\ ToSet(<<>>) = {}
  BY DEF ToSet
<1>2. Sorted(<<>>, {})
  BY FS_EmptySet DEF Sorted, ToSet
<1>3. Live(ix) \in SUBSET Place /\ 0 \in 0..Places
  BY DiscoveryAssumption DEF Live
<1>4. /\ s.pc = "paging" /\ s.kind = kind /\ s.filter = filter /\ s.cursor = 0
      /\ s.found = <<>> /\ s.address = <<>> /\ s.target = target
      /\ s.through = Live(ix) /\ s.changed = changed
  BY DEF Started
<1>5. s \in Running
  BY <1>1, <1>3, IsRunning DEF Started
<1> HIDE DEF s
<1>6. FoundOK(ix, s)
  <2>1. ASSUME NEW k \in Live(ix)
        PROVE  ix[k].status = "live" /\ ~(k <= 0)
    BY DEF Live, Place
  <2> QED
    BY <1>1, <1>2, <1>4, <2>1 DEF FoundOK
<1>7. PassedAll(ix, s) /\ AddressOK(ix, s)
  BY <1>4 DEF PassedAll, AddressOK
<1>8. Unchanged(ix, s)
  BY <1>1, <1>4 DEF Unchanged
<1>9. TargetOK(ix, s)
  BY <1>4 DEF TargetOK, Targeted
<1> QED
  BY <1>5, <1>6, <1>7, <1>8, <1>9 DEF RunOK, s

(* Undisturbed, a scan has found exactly what is there, in its order.       *)
LEMMA Undisturbed ==
    ASSUME NEW ix, NEW r, r # Idle, RunOK(ix, r), r.pc # "paging", ~r.changed
    PROVE  LET listing == Of(ix, r.kind, r.filter)
           IN  r.found = InOrder(listing) /\ Len(r.found) = Cardinality(listing)
<1> DEFINE listing == Of(ix, r.kind, r.filter)
           found   == ToSet(r.found)
<1>1. r \in Running /\ FoundOK(ix, r) /\ PassedAll(ix, r) /\ Unchanged(ix, r)
  BY DEF RunOK
<1>2. r.through = Live(ix) /\ found \subseteq Live(ix)
  BY <1>1 DEF Unchanged
<1>3. found = listing
  BY <1>1, <1>2 DEF FoundOK, PassedAll, Of, Sought
<1>4. listing \in SUBSET Place /\ Places \in Nat
  BY DiscoveryAssumption DEF Of, Live
<1> HIDE DEF listing
<1>5. Sorted(InOrder(listing), listing) /\ Cardinality(listing) \in Nat /\ listing \subseteq Nat
  <2>1. listing \in SUBSET (1..Places) /\ listing \subseteq Nat
    BY <1>4 DEF Place
  <2>2. Sorted(InOrder(listing), listing)
    BY <1>4, <2>1, InOrderSorted
  <2>3. Cardinality(listing) \in Nat
    BY <1>4, <2>1, Finite
  <2> QED
    BY <2>1, <2>2, <2>3
<1>6. Sorted(r.found, listing)
  BY <1>1, <1>3 DEF FoundOK
<1>7. r.found = InOrder(listing)
  BY <1>5, <1>6, SortedOnce
<1>8. Len(r.found) = Cardinality(listing)
  BY <1>5, <1>6 DEF Sorted
<1> QED
  BY <1>7, <1>8 DEF listing

-----------------------------------------------------------------------------
(* The steps of the specification.                                          *)

LEMMA InitInv ==
    ASSUME DiscoveryInit
    PROVE  DiscoveryInv
BY DEF DiscoveryInit, DiscoveryInv, Goods, RunOK, Nothing

(* A step of the chain fills a place or spends what is there.               *)
LEMMA ChainStep ==
    ASSUME Goods, Chain
    PROVE  \E gone : /\ Goods' /\ Kept(index, index') /\ ChainMoves(gone)
                     /\ \A k \in Place \ gone :
                           index[k].status = "live" => index'[k].status = "live"
<1>1. PICK k \in Place : \/ \E offer \in Offers : \E more \in 0..MaxExtra :
                                PlaceOrder(k, offer, more)
                         \/ \E other \in OtherCells : OtherCell(k, other)
                         \/ SpendCell(k)
  BY DEF Chain
<1>2. CASE index[k] = Nothing /\ ChainMoves({})
           /\ \E e : Good(k, e) /\ e.status = "live" /\ index' = [index EXCEPT ![k] = e]
  <2>1. PICK e : Good(k, e) /\ e.status = "live" /\ index' = [index EXCEPT ![k] = e]
    BY <1>2
  <2>2. e \in Entry /\ e # Nothing
    BY <2>1, EntryNotNothing DEF Good
  <2>3. Goods'
    BY <2>1, <2>2 DEF Goods
  <2>4. Kept(index, index')
    BY <1>2, <2>1 DEF Kept, Goods, SameCell
  <2>5. \A j \in Place : index[j].status = "live" => index'[j].status = "live"
    BY <1>2, <2>1 DEF Goods
  <2> QED
    BY <1>2, <2>3, <2>4, <2>5
<1>3. CASE index[k] # Nothing /\ ChainMoves({k})
           /\ \E e : Good(k, e) /\ SameCell(index[k], e) /\ index' = [index EXCEPT ![k] = e]
  <2>1. PICK e : Good(k, e) /\ SameCell(index[k], e) /\ index' = [index EXCEPT ![k] = e]
    BY <1>3
  <2>2. e \in Entry /\ e # Nothing
    BY <2>1, EntryNotNothing DEF Good
  <2>3. Goods'
    BY <2>1, <2>2 DEF Goods
  <2>4. Kept(index, index')
    BY <1>3, <2>1, <2>2 DEF Kept, Goods, SameCell
  <2>5. \A j \in Place \ {k} : index[j].status = "live" => index'[j].status = "live"
    BY <2>1 DEF Goods
  <2> QED
    BY <1>3, <2>3, <2>4, <2>5
<1>4. CASE \E offer \in Offers : \E more \in 0..MaxExtra : PlaceOrder(k, offer, more)
  <2>1. PICK offer \in Offers, more \in 0..MaxExtra : PlaceOrder(k, offer, more)
    BY <1>4
  <2>2. more \in Nat
    BY DiscoveryAssumption
  <2> QED
    BY <1>2, <2>1, <2>2, PlacedGood
<1>5. CASE \E other \in OtherCells : OtherCell(k, other)
  BY <1>2, <1>5, OtherGood
<1>6. CASE SpendCell(k)
  BY <1>3, <1>6, SpentGood
<1> QED
  BY <1>1, <1>4, <1>5, <1>6

LEMMA ChainInv ==
    ASSUME DiscoveryInv, Chain
    PROVE  DiscoveryInv'
<1>1. PICK gone : /\ Goods' /\ Kept(index, index') /\ ChainMoves(gone)
                  /\ \A k \in Place \ gone :
                        index[k].status = "live" => index'[k].status = "live"
  BY ChainStep DEF DiscoveryInv
<1>2. CASE run = Idle
  BY <1>1, <1>2 DEF DiscoveryInv, RunOK, ChainMoves
<1>3. CASE run # Idle
  <2>1. run' = Marked(run, run.through \ gone)
    BY <1>1, <1>3 DEF ChainMoves, Marked
  <2>2. RunOK(index', Marked(run, run.through \ gone))
    BY <1>1, <1>3, MarkedOK DEF DiscoveryInv
  <2> QED
    BY <1>1, <2>1, <2>2 DEF DiscoveryInv
<1> QED
  BY <1>2, <1>3

LEMMA ListingStarts ==
    ASSUME DiscoveryInv, NEW kind \in {"Order", "Match"}, NEW filter \in ListFilters,
           StartListing(kind, filter)
    PROVE  DiscoveryInv'
<1>1. run' = Started(index, kind, filter, NoTarget, FALSE) /\ index' = index
  BY DEF StartListing, Scan, Started, Live, LivePlaces
<1>2. RunOK(index, Started(index, kind, filter, NoTarget, FALSE))
  BY StartedOK
<1>3. Goods'
  BY <1>1 DEF DiscoveryInv, Goods
<1> QED
  BY <1>1, <1>2, <1>3 DEF DiscoveryInv

LEMMA PageTurns ==
    ASSUME DiscoveryInv, NextPage
    PROVE  DiscoveryInv'
<1> DEFINE page == PageOf(Left(index, run))
           more == {k \in page : Parse(run.kind, index[k].cell) # Unparsable}
<1>1. run.pc = "paging" /\ run # Idle /\ RunOK(index, run) /\ index' = index
  BY DEF NextPage, DiscoveryInv, Idle
<1>2. Page(run.filter, run.cursor) = page
  BY DEF Page, PageOf, Matching, Left, LivePlaces, Live, HasPrefix, Prefixed
<1>3. {k \in page : Parses(run.kind, k)} = more
  BY DEF Parses
<1>4. run' = IF page = {} THEN Ended(run)
             ELSE Turned(run, Max(page), run.found \o InOrder(more))
  BY <1>2, <1>3, Zenon DEF NextPage, Ended, Turned
<1>5. RunOK(index, run')
  <2>1. CASE page = {}
    BY <1>1, <1>4, <2>1, EndedOK
  <2>2. CASE page # {}
    <3>1. RunOK(index, Turned(run, Max(page), run.found \o InOrder(more)))
      BY <1>1, <2>2, TurnedOK
    <3> QED
      BY <1>4, <2>2, <3>1
  <2> QED
    BY <2>1, <2>2
<1>6. Goods'
  BY <1>1 DEF DiscoveryInv, Goods
<1> QED
  BY <1>1, <1>5, <1>6 DEF DiscoveryInv

(* An address that is fetched is that of the order it stands beside.        *)
LEMMA AddressesOf ==
    ASSUME Goods, NEW places, places \in Seq(Place),
           \A i \in 1..Len(places) : index[places[i]] # Nothing, NEW lost
    PROVE  LET address == Addresses(places, lost)
           IN  /\ address \in Seq(Text) /\ Len(address) = Len(places)
               /\ \A i \in 1..Len(places) :
                     address[i] \in {NoText, Fetched(index[places[i]])}
<1> DEFINE n == Len(places)
           address == Addresses(places, lost)
<1>1. n \in Nat /\ \A i \in 1..n : places[i] \in Place
  OBVIOUS
<1>2. address = [i \in 1..n |-> IF run.kind = "Match" \/ places[i] \in lost THEN NoText
                                ELSE Fetched(index[places[i]])]
  BY DEF Addresses, FetchFiberAddress, Fetched
<1>3. ASSUME NEW i \in 1..n
      PROVE  Fetched(index[places[i]]) \in Text
  <2> DEFINE e == index[places[i]]
  <2>1. Good(places[i], e)
    BY <1>1 DEF Goods
  <2> HIDE DEF e
  <2>2. e.witnesses \in Seq(Text) /\ e.inputs \in Nat
    BY <2>1 DEF Good, Entry
  <2>3. NoText \in Text
    BY DEF Text
  <2> QED
    BY <2>2, <2>3 DEF Fetched, e
<1> HIDE DEF n, address
<1>4. NoText \in Text
  BY DEF Text
<1>5. address \in [1..n -> Text]
  BY <1>2, <1>3, <1>4
<1>6. address \in Seq(Text) /\ Len(address) = n
  BY <1>1, <1>5
<1>7. \A i \in 1..n : address[i] \in {NoText, Fetched(index[places[i]])}
  BY <1>2
<1> QED
  BY <1>6, <1>7 DEF n, address

LEMMA RunEnriched ==
    ASSUME DiscoveryInv, Enrich
    PROVE  DiscoveryInv'
<1>1. run.pc = "scanned" /\ run # Idle /\ RunOK(index, run) /\ Goods /\ index' = index
  BY DEF Enrich, DiscoveryInv, Idle
<1>2. PICK lost \in SUBSET ToSet(run.found) :
          run' = [run EXCEPT !.pc = IF run.target = NoTarget THEN "listed" ELSE "using",
                             !.address = Addresses(run.found, lost)]
  BY DEF Enrich
<1> DEFINE address == Addresses(run.found, lost)
<1>3. run.found \in Seq(Place) /\ \A i \in 1..Len(run.found) : index[run.found[i]] # Nothing
  BY <1>1, RunFields, FoundPlaces DEF RunOK, FoundOK
<1>4. /\ address \in Seq(Text) /\ Len(address) = Len(run.found)
      /\ \A i \in 1..Len(run.found) : address[i] \in {NoText, Fetched(index[run.found[i]])}
  BY <1>1, <1>3, AddressesOf
<1> HIDE DEF address
<1>5. RunOK(index, Enriched(run, IF run.target = NoTarget THEN "listed" ELSE "using", address))
  BY <1>1, <1>4, EnrichedOK
<1>6. RunOK(index, run')
  BY <1>2, <1>5 DEF Enriched, address
<1>7. Goods'
  BY <1>1 DEF Goods
<1> QED
  BY <1>1, <1>6, <1>7 DEF DiscoveryInv

LEMMA IndexUsed ==
    ASSUME DiscoveryInv, NEW i \in Place, UseIndex(i)
    PROVE  DiscoveryInv'
<1> DEFINE target == [at |-> i, place |-> run.found[i], listFilter |-> run.filter]
<1>1. run.pc = "listed" /\ run # Idle /\ RunOK(index, run) /\ Goods /\ index' = index
      /\ i \in 1..Len(run.found)
  BY DEF UseIndex, DiscoveryInv, Idle
<1>2. run' = Started(index, run.kind, AnyPubkey, target, run.changed)
  BY DEF UseIndex, Scan, Started, Live, LivePlaces
<1>3. run \in Running
  BY <1>1 DEF RunOK
<1>4. /\ run.kind \in {"Order", "Match"} /\ run.filter \in ListFilters \cup {AnyPubkey}
      /\ run.changed \in BOOLEAN /\ run.found[i] \in Place
  BY <1>1, <1>3, RunFields
<1>5. target \in {NoTarget} \cup [at: Place, place: Place,
                                  listFilter: ListFilters \cup {AnyPubkey}]
  BY <1>4
<1>6. ASSUME ~run.changed
      PROVE  LET listing == Of(index, run.kind, target.listFilter)
             IN  /\ target.at \in 1..Cardinality(listing)
                 /\ InOrder(listing)[target.at] = target.place
  <2>1. LET listing == Of(index, run.kind, run.filter)
        IN  run.found = InOrder(listing) /\ Len(run.found) = Cardinality(listing)
    BY <1>1, <1>6, Undisturbed
  <2> QED
    BY <1>1, <2>1
<1> HIDE DEF target
<1>7. RunOK(index, Started(index, run.kind, AnyPubkey, target, run.changed))
  BY <1>4, <1>5, <1>6, StartedOK
<1>8. Goods'
  BY <1>1 DEF Goods
<1> QED
  BY <1>1, <1>2, <1>7, <1>8 DEF DiscoveryInv

LEMMA StepInv ==
    ASSUME DiscoveryInv, [DiscoveryNext]_discoveryVars
    PROVE  DiscoveryInv'
<1>1. CASE Chain
  BY <1>1, ChainInv
<1>2. CASE \E kind \in {"Order", "Match"} : \E filter \in ListFilters : StartListing(kind, filter)
  BY <1>2, ListingStarts
<1>3. CASE NextPage
  BY <1>3, PageTurns
<1>4. CASE Enrich
  BY <1>4, RunEnriched
<1>5. CASE Exit
  <2>1. run' = Idle /\ index' = index
    BY <1>5 DEF Exit
  <2>2. Goods'
    BY <2>1 DEF DiscoveryInv, Goods
  <2> QED
    BY <2>1, <2>2 DEF DiscoveryInv, RunOK
<1>6. CASE \E i \in Place : UseIndex(i)
  BY <1>6, IndexUsed
<1>7. CASE UNCHANGED discoveryVars
  BY <1>7 DEF discoveryVars, DiscoveryInv, Goods
<1> QED
  BY <1>1, <1>2, <1>3, <1>4, <1>5, <1>6, <1>7 DEF DiscoveryNext, Tool

LEMMA InvAlways == DiscoverySpec => []DiscoveryInv
<1>1. DiscoveryInit => DiscoveryInv
  BY InitInv
<1>2. DiscoveryInv /\ [DiscoveryNext]_discoveryVars => DiscoveryInv'
  BY StepInv
<1> QED
  BY <1>1, <1>2, PTL DEF DiscoverySpec

-----------------------------------------------------------------------------
(* The theorems.                                                            *)

(* Every reachable index holds bytes the parsers can be given, every cell   *)
(* on it has a witness for each input of its transaction, and a tool has    *)
(* only read places that have been filled.                                  *)
THEOREM ListingsAreTyped == DiscoverySpec => []DiscoveryTypeOK
<1>1. DiscoveryInv => DiscoveryTypeOK
  BY DEF DiscoveryInv, Goods, Good, RunOK, FoundOK, DiscoveryTypeOK
<1> QED
  BY <1>1, InvAlways, PTL

(* The reader's parsers and the branch the script takes agree on every cell. *)
LEMMA ParsersAgree ==
    ASSUME NEW cell, NEW kind \in {"Order", "Match"}
    PROVE  BranchParse(cell.lock, cell.data).branch = kind <=> Parse(kind, cell) # Unparsable
<1> DEFINE n == Len(cell.lock)
           m == Len(cell.data)
           b == BranchParse(cell.lock, cell.data)
<1>1. ORDER_ARGS_LEN # MATCH_ARGS_LEN
  BY BranchByLength
<1>2. /\ OrderState(cell.lock, cell.data).branch = "Order"
      /\ MatchState(cell.lock, cell.data).branch = "Match" /\ Unparsable.branch = "Unknown"
  BY DEF OrderState, MatchState, Unparsable
<1>3. /\ n = ORDER_ARGS_LEN /\ m = ORDER_DATA_LEN => b = OrderState(cell.lock, cell.data)
      /\ n = ORDER_ARGS_LEN /\ m # ORDER_DATA_LEN => b = Unparsable
      /\ n = MATCH_ARGS_LEN /\ m >= MATCH_DATA_LEN => b = MatchState(cell.lock, cell.data)
      /\ n = MATCH_ARGS_LEN /\ ~(m >= MATCH_DATA_LEN) => b = Unparsable
      /\ n # ORDER_ARGS_LEN /\ n # MATCH_ARGS_LEN => b = Unparsable
  BY BranchByLength
<1> HIDE DEF n, m, b
<1>4. CASE kind = "Order"
  <2>1. Parse(kind, cell) # Unparsable <=> n = ORDER_ARGS_LEN /\ m = ORDER_DATA_LEN
    BY <1>2, <1>4 DEF Parse, ParseOrderCell, n, m
  <2>2. b.branch = "Order" <=> n = ORDER_ARGS_LEN /\ m = ORDER_DATA_LEN
    BY <1>1, <1>2, <1>3
  <2> QED
    BY <1>4, <2>1, <2>2 DEF b
<1>5. CASE kind = "Match"
  <2>1. Parse(kind, cell) # Unparsable <=> n = MATCH_ARGS_LEN /\ m >= MATCH_DATA_LEN
    BY <1>2, <1>5 DEF Parse, ParseMatchCell, n, m
  <2>2. b.branch = "Match" <=> n = MATCH_ARGS_LEN /\ m >= MATCH_DATA_LEN
    BY <1>1, <1>2, <1>3
  <2> QED
    BY <1>5, <2>1, <2>2 DEF b
<1> QED
  BY <1>4, <1>5

(* A finished scan of the tools has every cell of its kind and prefix that  *)
(* was live from its first page to its last, in the order of the index,     *)
(* once, and nothing else, for every index, page size and interleaving with *)
(* the chain.                                                               *)
THEOREM ScansAreExact == DiscoverySpec => []ScanExact
<1>1. DiscoveryInv => ScanExact
  <2> SUFFICES ASSUME DiscoveryInv, run.pc = "scanned"
               PROVE  LET Wanted(k) ==
                              /\ HasPrefix(k, run.filter)
                              /\ BranchParse(index[k].cell.lock, index[k].cell.data).branch
                                    = run.kind
                          found == ToSet(run.found)
                      IN  /\ \A i, j \in 1..Len(run.found) : i < j => run.found[i] < run.found[j]
                          /\ \A k \in found : Wanted(k)
                          /\ \A k \in run.through : Wanted(k) => k \in found
    BY Zenon DEF ScanExact
  <2>1. run # Idle /\ run \in Running /\ FoundOK(index, run) /\ PassedAll(index, run)
    BY DEF DiscoveryInv, RunOK, Idle
  <2>2. run.kind \in {"Order", "Match"} /\ run.found \in Seq(Place)
    BY <2>1, RunFields
  <2>3. ASSUME NEW k
        PROVE  /\ HasPrefix(k, run.filter) <=> Prefixed(index[k], run.filter)
               /\ HasPrefix(k, run.filter)
                  /\ BranchParse(index[k].cell.lock, index[k].cell.data).branch = run.kind
                     <=> Sought(index[k], run.kind, run.filter)
    <3>1. HasPrefix(k, run.filter) <=> Prefixed(index[k], run.filter)
      BY DEF HasPrefix, Prefixed
    <3>2. BranchParse(index[k].cell.lock, index[k].cell.data).branch = run.kind
             <=> Parse(run.kind, index[k].cell) # Unparsable
      BY <2>2, ParsersAgree
    <3> QED
      BY <3>1, <3>2 DEF Sought
  <2>4. \A i, j \in 1..Len(run.found) : i < j => run.found[i] < run.found[j]
    BY <2>1, <2>2 DEF FoundOK, Sorted
  <2>5. \A k \in ToSet(run.found) : Sought(index[k], run.kind, run.filter)
    BY <2>1 DEF FoundOK
  <2>6. \A k \in run.through : Sought(index[k], run.kind, run.filter) => k \in ToSet(run.found)
    BY <2>1 DEF FoundOK, PassedAll, Sought
  <2> QED
    BY <2>3, <2>4, <2>5, <2>6
<1> QED
  BY <1>1, InvAlways, PTL

(* Undisturbed, the second scan gives the tool the cell the operator saw at *)
(* the index, whatever requests fail, if both scans have the same filter.   *)
THEOREM IndexIsStable == DiscoverySpec => []IndexStable
<1>1. DiscoveryInv => IndexStable
  <2> SUFFICES ASSUME DiscoveryInv, run.pc = "using", ~run.changed,
                      run.filter = run.target.listFilter
               PROVE  Got = run.target.place
    BY DEF IndexStable
  <2>1. run # Idle /\ RunOK(index, run)
    BY DEF DiscoveryInv, Idle
  <2>2. Targeted(index, run)
    BY <2>1 DEF RunOK, TargetOK
  <2> DEFINE listing == Of(index, run.kind, run.filter)
  <2>3. run.found = InOrder(listing) /\ Len(run.found) = Cardinality(listing)
    BY <2>1, Undisturbed
  <2>4. run.target.at \in 1..Cardinality(listing) /\ InOrder(listing)[run.target.at] = run.target.place
    BY <2>2 DEF Targeted
  <2> HIDE DEF listing
  <2>5. Cardinality(listing) \in Nat
    <3>1. run.found \in Seq(Place)
      BY <2>1, RunFields DEF RunOK
    <3> QED
      BY <2>3, <3>1
  <2>6. run.target.at <= Len(run.found)
    BY <2>3, <2>4, <2>5
  <2> QED
    BY <2>3, <2>4, <2>6 DEF Got
<1> QED
  BY <1>1, InvAlways, PTL

(* The address a listing shows is the one the buyer attached or none, and   *)
(* is only lost to a failed request or to a second input of the buyer's     *)
(* transaction.                                                             *)
THEOREM AddressesAreGenuine == DiscoverySpec => []AddressGenuine
<1>1. DiscoveryInv => AddressGenuine
  <2> SUFFICES ASSUME DiscoveryInv, run.pc = "listed", NEW i \in 1..Len(run.found),
                      IsOffered(run.found[i])
               PROVE  LET k == run.found[i]
                      IN  /\ run.address[i] \in {NoText, index[k].offer.address}
                          /\ Unmoved(k) => FetchFiberAddress(k) = index[k].offer.address
    BY Zenon DEF AddressGenuine
  <2> DEFINE k == run.found[i]
             e == index[k]
  <2>1. run # Idle /\ RunOK(index, run) /\ run \in Running /\ AddressOK(index, run)
    BY DEF DiscoveryInv, Idle, RunOK
  <2>2. k \in Place
    BY <2>1, RunFields
  <2>3. Good(k, e) /\ e.offer # NotOffered
    BY <2>2 DEF DiscoveryInv, Goods, IsOffered
  <2>4. Fetched(e) \in {NoText, e.offer.address} /\ (e.inputs = 1 => Fetched(e) = e.offer.address)
    BY <2>3 DEF Good, AsOffered
  <2>5. run.address[i] \in {NoText, Fetched(e)}
    BY <2>1 DEF AddressOK
  <2>6. FetchFiberAddress(k) = Fetched(e) /\ (Unmoved(k) <=> e.inputs = 1)
    BY DEF FetchFiberAddress, Fetched, Unmoved
  <2> QED
    BY <2>4, <2>5, <2>6
<1> QED
  BY <1>1, InvAlways, PTL

(* Whoever lists an order reads the parties, the capacity and the amount    *)
(* its buyer offered: both codecs invert each other for every width of      *)
(* their fields.  And a yield that is higher by six last places of f64 at   *)
(* the most, and lower by five and a shannon per block at the most, unless  *)
(* the rate is at the limit of its width: every product, quotient and cast  *)
(* is rounded the way f64 rounds it, whatever its precision, within the     *)
(* exponents that Ulps stands for.                                          *)
THEOREM TermsAreAsOffered == DiscoverySpec => []TermsAsOffered
<1>1. DiscoveryInv => TermsAsOffered
  <2> SUFFICES ASSUME DiscoveryInv, run.pc = "listed", NEW i \in 1..Len(run.found),
                      IsOffered(run.found[i])
               PROVE  LET k     == run.found[i]
                          offer == index[k].offer
                          order == ParseOrderCell(index[k].cell)
                          data  == order.data
                          shown == RentPerBlockToAnnualYield(data.shannonsPerBlock,
                                                             data.channelCapacity)
                          oneMore == Plus(shown, Over(Whole(BLOCKS_PER_YEAR),
                                                      Whole(offer.capacity)))
                      IN  /\ order.args = ArgsAt(k)
                          /\ data.channelCapacity = offer.capacity
                          /\ data.xudtAmount = IF offer.typed THEN offer.amount ELSE 0
                          /\ AtMost(SIGNIFICANDS, shown, SIGNIFICANDS + 6, offer.yield)
                          /\ offer.capacity > 0 =>
                               \/ AtMost(SIGNIFICANDS - 5, offer.yield, SIGNIFICANDS, oneMore)
                               \/ data.shannonsPerBlock = RateMax
    BY Zenon DEF TermsAsOffered
  <2> DEFINE k     == run.found[i]
             cell  == index[k].cell
             offer == index[k].offer
             order == ParseOrderCell(cell)
             d     == StoredOrder(offer)
             lock  == OrderArgsBytes(ArgsAt(k))
             data  == OrderDataBytes(d)
  <2>1. run # Idle /\ run \in Running
    BY DEF DiscoveryInv, Idle, RunOK
  <2>2. k \in Place
    BY <2>1, RunFields
  <2>3. Good(k, index[k]) /\ offer # NotOffered
    BY <2>2 DEF DiscoveryInv, Goods, IsOffered
  <2>4. cell.lock = lock /\ cell.data = data /\ offer \in Offers
    BY <2>3 DEF Good, AsOffered, Entry
  <2>5. order = [branch |-> "Order", args |-> ArgsAt(k), data |-> d]
    <3>1. /\ Len(lock) = ORDER_ARGS_LEN /\ Len(data) = ORDER_DATA_LEN
          /\ OrderState(lock, data) = [branch |-> "Order", args |-> ArgsAt(k), data |-> d]
      BY <2>2, <2>4, OrderRead
    <3> HIDE DEF lock, data, cell, d
    <3> QED
      BY <2>4, <3>1 DEF ParseOrderCell
  <2>6. /\ offer.capacity \in Nat /\ offer.yield \in Fraction
        /\ \A x \in Rounded(offer.capacity, offer.yield) : InRange(x)
    BY <2>4, OfferIs, DiscoveryAssumption
  <2>7. /\ d.xudtAmount = (IF offer.typed THEN offer.amount ELSE 0)
        /\ d.channelCapacity = offer.capacity
        /\ d.shannonsPerBlock = AnnualYieldToRentPerBlock(offer.capacity, offer.yield)
    BY DEF StoredOrder
  <2> DEFINE shown == RentPerBlockToAnnualYield(d.shannonsPerBlock, d.channelCapacity)
  <2> DEFINE oneMore == Plus(shown, Over(Whole(BLOCKS_PER_YEAR), Whole(offer.capacity)))
  <2> HIDE DEF order, d, offer
  <2>8. /\ AtMost(SIGNIFICANDS, shown, SIGNIFICANDS + 6, offer.yield)
        /\ offer.capacity > 0 =>
              \/ AtMost(SIGNIFICANDS - 5, offer.yield, SIGNIFICANDS, oneMore)
              \/ d.shannonsPerBlock = RateMax
    BY <2>6, <2>7, YieldShown
  <2>9. order.args = ArgsAt(k) /\ order.data = d
    BY <2>5
  <2> QED
    BY <2>7, <2>8, <2>9 DEF order, offer, cell
<1> QED
  BY <1>1, InvAlways, PTL
=============================================================================
