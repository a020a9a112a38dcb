--------------------------- MODULE SkeletonProofs ---------------------------
(***************************************************************************)
(* What a list of operations makes of a skeleton.  The number of wallet    *)
(* cells a balance adds is not bounded by anything in the code, so this    *)
(* goes by induction, in the form the provers can use: a set of numbers    *)
(* that is not all of Nat leaves out a least number.                       *)
(***************************************************************************)
EXTENDS Skeleton, FiniteSetTheorems, SequenceTheorems, WellFoundedInduction, TLAPS

-----------------------------------------------------------------------------
(* Which operation it is decides what it does.                              *)
LEMMA ApplyOp ==
    ASSUME NEW sk, NEW o
    PROVE  /\ o.op = "CellDep" => Apply(sk, o) = AddCellDep(sk, o.dep)
           /\ o.op = "HeaderOfBlock" => Apply(sk, o) = AddHeader(sk, o.number)
           /\ o.op = "HeaderOfInput" => Apply(sk, o) = AddHeader(sk, At(sk.inputs, o.index).block)
           /\ o.op = "HeaderOfCellDep" => Apply(sk, o) = AddHeader(sk, At(sk.deps, o.index).block)
           /\ o.op = "Input" => Apply(sk, o) = AddInput(sk, o.input)
           /\ o.op = "Output" => Apply(sk, o) = AddOutput(sk, o.cell)
           /\ o.op = "OutputOfInput" => Apply(sk, o) = AddOutput(sk, Derived(At(sk.inputs, o.index).cell, o))
           /\ o.op = "OutputWitness" => Apply(sk, o) = SetOutputWitness(sk, o.index, o.data)
BY DEF Apply

-----------------------------------------------------------------------------
(* Least and greatest numbers, and induction.                               *)

(* A set of natural numbers with a member has a least one.                  *)
LEMMA LeastNat ==
    ASSUME NEW T, T \subseteq Nat, T # {}
    PROVE  \E m \in T : \A n \in T : m <= n
<1> DEFINE R == {p \in Nat \X Nat : p[1] < p[2]}
<1>1. IsWellFoundedOn(R, Nat)
  BY NatLessThanWellFounded DEF OpToRel
<1>2. PICK m \in T : \A n \in T : ~(<<n, m>> \in R)
  BY <1>1, WFMin
<1>3. ASSUME NEW n \in T
      PROVE  m <= n
  <2>1. m \in Nat /\ n \in Nat
    OBVIOUS
  <2>2. <<n, m>> \in Nat \X Nat /\ ~(<<n, m>> \in R)
    BY <2>1, <1>2
  <2>3. ~(n < m)
    BY <2>2
  <2> QED
    BY <2>1, <2>3
<1> QED
  BY <1>3

(* A set with 0 that has with each number the next one has all of them.     *)
LEMMA Induction ==
    ASSUME NEW S, 0 \in S, \A n \in Nat : n \in S => n + 1 \in S
    PROVE  Nat \subseteq S
<1> SUFFICES ASSUME Nat \ S # {}
             PROVE  FALSE
  OBVIOUS
<1>1. PICK m \in Nat \ S : \A n \in Nat \ S : m <= n
  BY LeastNat
<1>2. m # 0 /\ m - 1 \in Nat /\ m - 1 \in S
  BY <1>1
<1> QED
  BY <1>1, <1>2

(* Min is the least member, wherever there is one.                          *)
LEMMA MinLeast ==
    ASSUME NEW T, T \subseteq Nat, T # {}
    PROVE  Min(T) \in T /\ \A n \in T : Min(T) <= n
<1>1. \E m \in T : \A n \in T : m <= n
  BY LeastNat
<1> QED
  BY <1>1, Zenon DEF Min

(* Max is the greatest member of a bounded set.                             *)
LEMMA MaxGreatest ==
    ASSUME NEW T, T # {}, NEW b \in Nat, T \subseteq 0..b
    PROVE  Max(T) \in T /\ \A n \in T : Max(T) >= n
<1> DEFINE U == {n \in Nat : b - n \in T}
<1>1. PICK t \in T : TRUE
  OBVIOUS
<1>2. b - t \in U
  BY <1>1
<1>3. PICK m \in U : \A n \in U : m <= n
  BY <1>2, LeastNat
<1>4. ASSUME NEW n \in T
      PROVE  b - m >= n
  <2>1. b - n \in U
    OBVIOUS
  <2>2. m <= b - n
    BY <2>1, <1>3
  <2> QED
    BY <2>2
<1>5. b - m \in T
  BY <1>3
<1>6. \E x \in T : \A n \in T : x >= n
  BY <1>4, <1>5
<1> QED
  BY <1>6, Zenon DEF Max

(* The minimum of a single number.                                          *)
LEMMA MinOne ==
    ASSUME NEW m \in Nat
    PROVE  Min({m}) = m
<1>1. {m} \subseteq Nat /\ {m} # {}
  OBVIOUS
<1>2. Min({m}) \in {m}
  BY <1>1, MinLeast, Zenon
<1> QED
  BY <1>2

-----------------------------------------------------------------------------
(* The fold over the operations.                                            *)

IsList(ops) == Len(ops) \in Nat /\ DOMAIN ops = 1..Len(ops)

(* The recursion in the definition of FoldLeft: what the operations at the  *)
(* places in s make of sk.                                                  *)
Iterates(it, S, sk, ops) ==
    it = [s \in SUBSET S |-> IF s = {} THEN sk ELSE Apply(it[s \ {Max(s)}], ops[Max(s)])]

LEMMA IteratesExists ==
    ASSUME NEW sk, NEW ops, NEW k \in Nat
    PROVE  \E it : Iterates(it, 1..k, sk, ops)
<1> DEFINE S == {n \in Nat : \E it : Iterates(it, 1..n, sk, ops)}
<1>1. 0 \in S
  <2>1. SUBSET (1..0) = {{}}
    OBVIOUS
  <2>2. Iterates([s \in SUBSET (1..0) |-> sk], 1..0, sk, ops)
    BY <2>1, Zenon DEF Iterates
  <2> QED
    BY <2>2
<1>2. ASSUME NEW n \in Nat, n \in S
      PROVE  n + 1 \in S
  <2>1. PICK it : Iterates(it, 1..n, sk, ops)
    BY <1>2
  <2> DEFINE g == [s \in SUBSET (1..(n + 1)) |->
                      IF n + 1 \in s THEN Apply(it[s \ {n + 1}], ops[n + 1]) ELSE it[s]]
             h == [s \in SUBSET (1..(n + 1)) |->
                      IF s = {} THEN sk ELSE Apply(g[s \ {Max(s)}], ops[Max(s)])]
  <2>2. ASSUME NEW s \in SUBSET (1..(n + 1))
        PROVE  g[s] = h[s]
    <3>1. CASE n + 1 \in s
      <4>1. Max(s) \in s /\ \A i \in s : Max(s) >= i
        BY <3>1, MaxGreatest, s \subseteq 0..(n + 1), n + 1 \in Nat
      <4>2. Max(s) = n + 1
        <5>1. Max(s) \in 1..(n + 1) /\ Max(s) >= n + 1
          BY <4>1, <3>1
        <5> QED
          BY <5>1
      <4>3. s \ {n + 1} \in SUBSET (1..(n + 1)) /\ n + 1 \notin s \ {n + 1}
        OBVIOUS
      <4>4. g[s \ {n + 1}] = it[s \ {n + 1}]
        BY <4>3
      <4> QED
        BY <4>2, <4>4, <3>1
    <3>2. CASE n + 1 \notin s /\ s # {}
      <4>1. s \in SUBSET (1..n)
        BY <3>2
      <4>2. Max(s) \in s
        BY <3>2, <4>1, MaxGreatest, s \subseteq 0..n
      <4>3. s \ {Max(s)} \in SUBSET (1..(n + 1)) /\ n + 1 \notin s \ {Max(s)}
        BY <3>2
      <4>4. it[s] = Apply(it[s \ {Max(s)}], ops[Max(s)])
        BY <2>1, <4>1, <3>2, Zenon DEF Iterates
      <4>5. g[s \ {Max(s)}] = it[s \ {Max(s)}] /\ g[s] = it[s]
        BY <4>3, <3>2
      <4> QED
        BY <4>4, <4>5, <3>2, Zenon
    <3>3. CASE s = {}
      <4>1. it[{}] = sk
        BY <2>1, Zenon DEF Iterates
      <4> QED
        BY <3>3, <4>1
    <3> QED
      BY <3>1, <3>2, <3>3
  <2>3. g = h
    BY <2>2
  <2>4. Iterates(g, 1..(n + 1), sk, ops)
    BY <2>3, Zenon DEF Iterates
  <2> QED
    BY <2>4
<1>3. Nat \subseteq S
  BY <1>1, <1>2, Induction
<1> QED
  BY <1>3

(* The states of the skeleton, one for each number of operations performed. *)
Trace(h, sk, ops) ==
    /\ h[0] = sk
    /\ \A i \in 1..Len(ops) : h[i] = Apply(h[i - 1], ops[i])

(* A list of operations takes a skeleton through the states of a trace.     *)
LEMMA PerformTrace ==
    ASSUME NEW sk, NEW ops, IsList(ops)
    PROVE  \E h : Trace(h, sk, ops) /\ Perform(sk, ops) = h[Len(ops)]
<1> DEFINE it == CHOOSE f : f = [s \in SUBSET DOMAIN ops |->
                      IF s = {} THEN sk ELSE Apply(f[s \ {Max(s)}], ops[Max(s)])]
           h  == [i \in 0..Len(ops) |-> it[1..i]]
<1>1. \E f : f = [s \in SUBSET DOMAIN ops |->
                     IF s = {} THEN sk ELSE Apply(f[s \ {Max(s)}], ops[Max(s)])]
  <2>1. \E f : Iterates(f, 1..Len(ops), sk, ops)
    BY IteratesExists DEF IsList
  <2> QED
    BY <2>1, Zenon DEF Iterates, IsList
<1>2. it = [s \in SUBSET DOMAIN ops |->
               IF s = {} THEN sk ELSE Apply(it[s \ {Max(s)}], ops[Max(s)])]
  BY <1>1, Zenon
<1>3. Perform(sk, ops) = it[DOMAIN ops]
  BY Zenon DEF Perform, FoldLeft, MapThenFoldSet
<1> HIDE DEF it
<1>4. Perform(sk, ops) = h[Len(ops)]
  BY <1>3 DEF IsList
<1>5. h[0] = sk
  <2>1. it[{}] = sk
    BY <1>2, Zenon
  <2>2. 1..0 = {} /\ 0 \in 0..Len(ops)
    BY DEF IsList
  <2> QED
    BY <2>1, <2>2
<1>6. ASSUME NEW i \in 1..Len(ops)
      PROVE  h[i] = Apply(h[i - 1], ops[i])
  <2>1. 1..i \in SUBSET DOMAIN ops /\ 1..i # {} /\ 1..i \subseteq 0..i /\ i \in Nat
    BY DEF IsList
  <2>2. Max(1..i) \in 1..i /\ \A j \in 1..i : Max(1..i) >= j
    BY <2>1, MaxGreatest
  <2>3. Max(1..i) = i
    BY <2>2
  <2>4. (1..i) \ {i} = 1..(i - 1)
    OBVIOUS
  <2>5. it[1..i] = Apply(it[1..(i - 1)], ops[i])
    BY <1>2, <2>1, <2>3, <2>4, Zenon
  <2>6. i \in 0..Len(ops) /\ i - 1 \in 0..Len(ops)
    BY DEF IsList
  <2> QED
    BY <2>5, <2>6
<1>7. Trace(h, sk, ops)
  BY <1>5, <1>6 DEF Trace
<1> QED
  BY <1>4, <1>7

(* There is no other trace.                                                 *)
LEMMA PerformBy ==
    ASSUME NEW sk, NEW ops, IsList(ops), NEW h, Trace(h, sk, ops)
    PROVE  Perform(sk, ops) = h[Len(ops)]
<1>1. PICK g : Trace(g, sk, ops) /\ Perform(sk, ops) = g[Len(ops)]
  BY PerformTrace
<1> DEFINE S == {i \in Nat : i <= Len(ops) => g[i] = h[i]}
<1>2. 0 \in S
  BY <1>1 DEF Trace
<1>3. ASSUME NEW i \in Nat, i \in S
      PROVE  i + 1 \in S
  <2> SUFFICES ASSUME i + 1 <= Len(ops)
               PROVE  g[i + 1] = h[i + 1]
    OBVIOUS
  <2>1. i + 1 \in 1..Len(ops) /\ (i + 1) - 1 = i /\ g[i] = h[i]
    BY <1>3 DEF IsList
  <2>2. g[i + 1] = Apply(g[(i + 1) - 1], ops[i + 1])
    BY <1>1, <2>1, Zenon DEF Trace
  <2>3. h[i + 1] = Apply(h[(i + 1) - 1], ops[i + 1])
    BY <2>1, Zenon DEF Trace
  <2> QED
    BY <2>1, <2>2, <2>3
<1>4. Nat \subseteq S
  BY <1>2, <1>3, Induction
<1> QED
  BY <1>1, <1>4 DEF IsList

(* No operation changes nothing, and one is applied.                        *)
LEMMA PerformNone ==
    ASSUME NEW sk
    PROVE  Perform(sk, <<>>) = sk
<1>1. IsList(<<>>) /\ Len(<<>>) = 0
  BY DEF IsList
<1> QED
  BY <1>1, PerformTrace DEF Trace

LEMMA PerformOne ==
    ASSUME NEW sk, NEW o
    PROVE  Perform(sk, <<o>>) = Apply(sk, o)
<1>1. IsList(<<o>>) /\ Len(<<o>>) = 1 /\ <<o>>[1] = o
  BY DEF IsList
<1>2. PICK h : Trace(h, sk, <<o>>) /\ Perform(sk, <<o>>) = h[1]
  BY <1>1, PerformTrace
<1>3. 1 \in 1..1 /\ 1 - 1 = 0
  OBVIOUS
<1>4. h[1] = Apply(h[1 - 1], <<o>>[1]) /\ h[0] = sk
  BY <1>1, <1>2, <1>3, Zenon DEF Trace
<1> QED
  BY <1>1, <1>2, <1>3, <1>4

(* The operations of two lists, one after the other.                        *)
LEMMA PerformConcat ==
    ASSUME NEW S, NEW a \in Seq(S), NEW b \in Seq(S), NEW sk
    PROVE  Perform(sk, a \o b) = Perform(Perform(sk, a), b)
<1>1. IsList(a) /\ IsList(b) /\ IsList(a \o b) /\ Len(a \o b) = Len(a) + Len(b)
  BY ConcatProperties, LenProperties DEF IsList
<1>2. PICK f : Trace(f, sk, a) /\ Perform(sk, a) = f[Len(a)]
  BY <1>1, PerformTrace
<1>3. PICK g : Trace(g, Perform(sk, a), b) /\ Perform(Perform(sk, a), b) = g[Len(b)]
  BY <1>1, PerformTrace
<1> DEFINE h == [i \in 0..(Len(a) + Len(b)) |->
                    IF i <= Len(a) THEN f[i] ELSE g[i - Len(a)]]
<1>4. Len(a) \in Nat /\ Len(b) \in Nat
  BY <1>1 DEF IsList
<1>5. h[0] = sk
  BY <1>2, <1>4 DEF Trace
<1>6. ASSUME NEW i \in 1..Len(a \o b)
      PROVE  h[i] = Apply(h[i - 1], (a \o b)[i])
  <2>1. (a \o b)[i] = IF i <= Len(a) THEN a[i] ELSE b[i - Len(a)]
    BY <1>1, ConcatProperties
  <2>2. CASE i <= Len(a)
    <3>1. i \in 1..Len(a)
      BY <2>2, <1>4
    <3>2. f[i] = Apply(f[i - 1], a[i])
      BY <3>1, <1>2, Zenon DEF Trace
    <3>3. h[i] = f[i] /\ h[i - 1] = f[i - 1]
      BY <2>2, <1>4
    <3> QED
      BY <3>2, <3>3, <2>1, <2>2
  <2>3. CASE i > Len(a)
    <3> DEFINE j == i - Len(a)
    <3>1. j \in 1..Len(b)
      BY <2>3, <1>1, <1>4
    <3>2. g[j] = Apply(g[j - 1], b[j])
      BY <3>1, <1>3, Zenon DEF Trace
    <3>3. h[i] = g[j]
      BY <2>3, <1>4, <1>1
    <3>4. h[i - 1] = g[j - 1]
      <4>1. CASE j = 1
        <5>1. h[i - 1] = f[Len(a)]
          BY <4>1, <1>4, <1>1
        <5> QED
          BY <4>1, <5>1, <1>2, <1>3 DEF Trace
      <4>2. CASE j # 1
        <5>1. i \in Int /\ i - 1 \in 0..(Len(a) + Len(b)) /\ ~(i - 1 <= Len(a))
          BY <4>2, <3>1, <1>4, <1>1
        <5>2. h[i - 1] = g[(i - 1) - Len(a)] /\ (i - 1) - Len(a) = j - 1
          BY <5>1, <1>4
        <5> QED
          BY <5>2
      <4> QED
        BY <4>1, <4>2
    <3>5. (a \o b)[i] = b[j]
      BY <2>1, <2>3, <1>4
    <3> QED
      BY <3>2, <3>3, <3>4, <3>5
  <2> QED
    BY <2>2, <2>3, <1>4
<1>7. Trace(h, sk, a \o b)
  BY <1>5, <1>6 DEF Trace
<1>8. Perform(sk, a \o b) = h[Len(a \o b)]
  BY <1>1, <1>7, PerformBy
<1>9. h[Len(a \o b)] = g[Len(b)]
  <2>1. CASE Len(b) = 0
    BY <2>1, <1>1, <1>2, <1>3, <1>4 DEF Trace
  <2>2. CASE Len(b) # 0
    BY <2>2, <1>1, <1>4
  <2> QED
    BY <2>1, <2>2
<1> QED
  BY <1>8, <1>9, <1>3

IsSeq(ops) == \E S : ops \in Seq(S)

LEMMA PerformThen ==
    ASSUME NEW a, NEW b, IsSeq(a), IsSeq(b), NEW sk
    PROVE  IsSeq(a \o b) /\ Perform(sk, a \o b) = Perform(Perform(sk, a), b)
<1>1. PICK S : a \in Seq(S)
  BY DEF IsSeq
<1>2. PICK T : b \in Seq(T)
  BY DEF IsSeq
<1> DEFINE U == S \cup T
<1>3. a \in Seq(U)
  BY <1>1, SeqMonotonic
<1>4. b \in Seq(U)
  BY <1>2, SeqMonotonic
<1> HIDE DEF U
<1>5. a \o b \in Seq(U)
  BY <1>3, <1>4, ConcatProperties
<1>6. Perform(sk, a \o b) = Perform(Perform(sk, a), b)
  BY <1>3, <1>4, PerformConcat, Zenon
<1> QED
  BY <1>5, <1>6 DEF IsSeq

(* A tuple with one more element.                                           *)
None == <<>>

LEMMA Longer ==
    ASSUME NEW a, NEW b, NEW c
    PROVE  /\ Append(<<>>, a) = <<a>>
           /\ Append(<<a>>, b) = <<a, b>>
           /\ Append(<<a, b>>, c) = <<a, b, c>>
<1>1. Append(<<>>, a) = <<a>>
  OBVIOUS
<1>2. <<a, b>> = Append(<<a>>, b)
  OBVIOUS
<1>3. <<a, b, c>> = Append(<<a, b>>, c)
  OBVIOUS
<1> QED
  BY <1>1, <1>2, <1>3, Zenon

(* A list that goes on with one more operation.                             *)
LEMMA PerformNext ==
    ASSUME NEW sk, NEW ops, NEW ext, IsList(ops), IsList(ext),
           Len(ext) = Len(ops) + 1, \A i \in 1..Len(ops) : ext[i] = ops[i]
    PROVE  Perform(sk, ext) = Apply(Perform(sk, ops), ext[Len(ext)])
<1>1. PICK h : Trace(h, sk, ext) /\ Perform(sk, ext) = h[Len(ext)]
  BY PerformTrace
<1>2. Len(ops) \in Nat /\ Len(ext) \in 1..Len(ext) /\ Len(ext) - 1 = Len(ops)
  BY DEF IsList
<1>3. ASSUME NEW i \in 1..Len(ops)
      PROVE  h[i] = Apply(h[i - 1], ops[i])
  <2>1. i \in 1..Len(ext)
    BY <1>2
  <2>2. h[i] = Apply(h[i - 1], ext[i])
    BY <2>1, <1>1, Zenon DEF Trace
  <2> QED
    BY <2>2
<1>4. Trace(h, sk, ops)
  BY <1>1, <1>3 DEF Trace
<1>5. Perform(sk, ops) = h[Len(ops)]
  BY <1>4, PerformBy
<1>6. h[Len(ext)] = Apply(h[Len(ext) - 1], ext[Len(ext)])
  BY <1>1, <1>2, Zenon DEF Trace
<1> QED
  BY <1>1, <1>2, <1>5, <1>6

LEMMA PerformAppend ==
    ASSUME NEW S, NEW ops \in Seq(S), NEW o \in S, NEW sk
    PROVE  Perform(sk, Append(ops, o)) = Apply(Perform(sk, ops), o)
<1> DEFINE ext == Append(ops, o)
<1>1. IsList(ops) /\ IsList(ext)
  BY LenProperties DEF IsList
<1>2. Len(ext) = Len(ops) + 1 /\ ext[Len(ops) + 1] = o
  OBVIOUS
<1>3. \A i \in 1..Len(ops) : ext[i] = ops[i]
  OBVIOUS
<1> HIDE DEF ext
<1>4. Perform(sk, ext) = Apply(Perform(sk, ops), ext[Len(ext)])
  BY <1>1, <1>2, <1>3, PerformNext, Zenon
<1> QED
  BY <1>2, <1>4 DEF ext

(* The lists the builders are written with.                                 *)
LEMMA PerformTwo ==
    ASSUME NEW sk, NEW o1, NEW o2
    PROVE  /\ IsSeq(<<o1, o2>>)
           /\ Perform(sk, <<o1, o2>>)
                 = Apply(Apply(sk, o1), o2)
<1> DEFINE S == {o1, o2}
<1>1. <<o1>> \in Seq(S) /\ o2 \in S
  OBVIOUS
<1>2. <<o1, o2>> = Append(<<o1>>, o2)
  OBVIOUS
<1>3. <<o1, o2>> \in Seq(S)
  OBVIOUS
<1>4. Perform(sk, Append(<<o1>>, o2))
         = Apply(Perform(sk, <<o1>>), o2)
  BY <1>1, PerformAppend, Zenon
<1>5. Perform(sk, <<o1, o2>>)
         = Apply(Perform(sk, <<o1>>), o2)
  BY <1>2, <1>4
<1>6. Perform(sk, <<o1>>)
         = Apply(sk, o1)
  BY PerformOne
<1>7. IsSeq(<<o1, o2>>)
  BY <1>3, Zenon DEF IsSeq
<1> QED
  BY <1>5, <1>6, <1>7, Zenon

LEMMA PerformThree ==
    ASSUME NEW sk, NEW o1, NEW o2, NEW o3
    PROVE  /\ IsSeq(<<o1, o2, o3>>)
           /\ Perform(sk, <<o1, o2, o3>>)
                 = Apply(Apply(Apply(sk, o1), o2), o3)
<1> DEFINE S == {o1, o2, o3}
<1>1. <<o1, o2>> \in Seq(S) /\ o3 \in S
  OBVIOUS
<1>2. <<o1, o2, o3>> = Append(<<o1, o2>>, o3)
  OBVIOUS
<1>3. <<o1, o2, o3>> \in Seq(S)
  OBVIOUS
<1>4. Perform(sk, Append(<<o1, o2>>, o3))
         = Apply(Perform(sk, <<o1, o2>>), o3)
  BY <1>1, PerformAppend, Zenon
<1>5. Perform(sk, <<o1, o2, o3>>)
         = Apply(Perform(sk, <<o1, o2>>), o3)
  BY <1>2, <1>4
<1>6. Perform(sk, <<o1, o2>>)
         = Apply(Apply(sk, o1), o2)
  BY PerformTwo
<1>7. IsSeq(<<o1, o2, o3>>)
  BY <1>3, Zenon DEF IsSeq
<1> QED
  BY <1>5, <1>6, <1>7, Zenon

LEMMA PerformFour ==
    ASSUME NEW sk, NEW o1, NEW o2, NEW o3, NEW o4
    PROVE  /\ IsSeq(<<o1, o2, o3, o4>>)
           /\ Perform(sk, <<o1, o2, o3, o4>>)
                 = Apply(Apply(Apply(Apply(sk, o1), o2), o3), o4)
<1> DEFINE S == {o1, o2, o3, o4}
<1>1. <<o1, o2, o3>> \in Seq(S) /\ o4 \in S
  OBVIOUS
<1>2. <<o1, o2, o3, o4>> = Append(<<o1, o2, o3>>, o4)
  OBVIOUS
<1>3. <<o1, o2, o3, o4>> \in Seq(S)
  OBVIOUS
<1>4. Perform(sk, Append(<<o1, o2, o3>>, o4))
         = Apply(Perform(sk, <<o1, o2, o3>>), o4)
  BY <1>1, PerformAppend, Zenon
<1>5. Perform(sk, <<o1, o2, o3, o4>>)
         = Apply(Perform(sk, <<o1, o2, o3>>), o4)
  BY <1>2, <1>4
<1>6. Perform(sk, <<o1, o2, o3>>)
         = Apply(Apply(Apply(sk, o1), o2), o3)
  BY PerformThree
<1>7. IsSeq(<<o1, o2, o3, o4>>)
  BY <1>3, Zenon DEF IsSeq
<1> QED
  BY <1>5, <1>6, <1>7, Zenon

LEMMA PerformFive ==
    ASSUME NEW sk, NEW o1, NEW o2, NEW o3, NEW o4, NEW o5
    PROVE  /\ IsSeq(<<o1, o2, o3, o4, o5>>)
           /\ Perform(sk, <<o1, o2, o3, o4, o5>>)
                 = Apply(Apply(Apply(Apply(Apply(sk, o1), o2), o3), o4), o5)
<1> DEFINE S == {o1, o2, o3, o4, o5}
<1>1. <<o1, o2, o3, o4>> \in Seq(S) /\ o5 \in S
  OBVIOUS
<1>2. <<o1, o2, o3, o4, o5>> = Append(<<o1, o2, o3, o4>>, o5)
  OBVIOUS
<1>3. <<o1, o2, o3, o4, o5>> \in Seq(S)
  OBVIOUS
<1>4. Perform(sk, Append(<<o1, o2, o3, o4>>, o5))
         = Apply(Perform(sk, <<o1, o2, o3, o4>>), o5)
  BY <1>1, PerformAppend, Zenon
<1>5. Perform(sk, <<o1, o2, o3, o4, o5>>)
         = Apply(Perform(sk, <<o1, o2, o3, o4>>), o5)
  BY <1>2, <1>4
<1>6. Perform(sk, <<o1, o2, o3, o4>>)
         = Apply(Apply(Apply(Apply(sk, o1), o2), o3), o4)
  BY PerformFour
<1>7. IsSeq(<<o1, o2, o3, o4, o5>>)
  BY <1>3, Zenon DEF IsSeq
<1> QED
  BY <1>5, <1>6, <1>7, Zenon

LEMMA PerformSix ==
    ASSUME NEW sk, NEW o1, NEW o2, NEW o3, NEW o4, NEW o5, NEW o6
    PROVE  /\ IsSeq(<<o1, o2, o3, o4, o5, o6>>)
           /\ Perform(sk, <<o1, o2, o3, o4, o5, o6>>)
                 = Apply(Apply(Apply(Apply(Apply(Apply(sk, o1), o2), o3), o4), o5), o6)
<1> DEFINE S == {o1, o2, o3, o4, o5, o6}
<1>1. <<o1, o2, o3, o4, o5>> \in Seq(S) /\ o6 \in S
  OBVIOUS
<1>2. <<o1, o2, o3, o4, o5, o6>> = Append(<<o1, o2, o3, o4, o5>>, o6)
  OBVIOUS
<1>3. <<o1, o2, o3, o4, o5, o6>> \in Seq(S)
  OBVIOUS
<1>4. Perform(sk, Append(<<o1, o2, o3, o4, o5>>, o6))
         = Apply(Perform(sk, <<o1, o2, o3, o4, o5>>), o6)
  BY <1>1, PerformAppend, Zenon
<1>5. Perform(sk, <<o1, o2, o3, o4, o5, o6>>)
         = Apply(Perform(sk, <<o1, o2, o3, o4, o5>>), o6)
  BY <1>2, <1>4
<1>6. Perform(sk, <<o1, o2, o3, o4, o5>>)
         = Apply(Apply(Apply(Apply(Apply(sk, o1), o2), o3), o4), o5)
  BY PerformFive
<1>7. IsSeq(<<o1, o2, o3, o4, o5, o6>>)
  BY <1>3, Zenon DEF IsSeq
<1> QED
  BY <1>5, <1>6, <1>7, Zenon

LEMMA PerformSeven ==
    ASSUME NEW sk, NEW o1, NEW o2, NEW o3, NEW o4, NEW o5, NEW o6, NEW o7
    PROVE  /\ IsSeq(<<o1, o2, o3, o4, o5, o6, o7>>)
           /\ Perform(sk, <<o1, o2, o3, o4, o5, o6, o7>>)
                 = Apply(Apply(Apply(Apply(Apply(Apply(Apply(sk, o1), o2), o3), o4), o5), o6), o7)
<1> DEFINE S == {o1, o2, o3, o4, o5, o6, o7}
<1>1. <<o1, o2, o3, o4, o5, o6>> \in Seq(S) /\ o7 \in S
  OBVIOUS
<1>2. <<o1, o2, o3, o4, o5, o6, o7>> = Append(<<o1, o2, o3, o4, o5, o6>>, o7)
  OBVIOUS
<1>3. <<o1, o2, o3, o4, o5, o6, o7>> \in Seq(S)
  OBVIOUS
<1>4. Perform(sk, Append(<<o1, o2, o3, o4, o5, o6>>, o7))
         = Apply(Perform(sk, <<o1, o2, o3, o4, o5, o6>>), o7)
  BY <1>1, PerformAppend, Zenon
<1>5. Perform(sk, <<o1, o2, o3, o4, o5, o6, o7>>)
         = Apply(Perform(sk, <<o1, o2, o3, o4, o5, o6>>), o7)
  BY <1>2, <1>4
<1>6. Perform(sk, <<o1, o2, o3, o4, o5, o6>>)
         = Apply(Apply(Apply(Apply(Apply(Apply(sk, o1), o2), o3), o4), o5), o6)
  BY PerformSix
<1>7. IsSeq(<<o1, o2, o3, o4, o5, o6, o7>>)
  BY <1>3, Zenon DEF IsSeq
<1> QED
  BY <1>5, <1>6, <1>7, Zenon

-----------------------------------------------------------------------------
(* The operations one by one.                                               *)

Sk(d, h, i, o, w) ==
    [deps |-> d, headers |-> h, inputs |-> i, outputs |-> o, witnesses |-> w]

LEMMA SkFields ==
    ASSUME NEW d, NEW h, NEW i, NEW o, NEW w
    PROVE  /\ Sk(d, h, i, o, w).deps = d
           /\ Sk(d, h, i, o, w).headers = h
           /\ Sk(d, h, i, o, w).inputs = i
           /\ Sk(d, h, i, o, w).outputs = o
           /\ Sk(d, h, i, o, w).witnesses = w
BY DEF Sk

(* What each operation adds to.                                             *)
LEMMA AddTo ==
    ASSUME NEW d, NEW h, NEW i, NEW o, NEW w, NEW x
    PROVE  /\ AddCellDep(Sk(d, h, i, o, w), x) = Sk(Append(d, x), h, i, o, w)
           /\ AddHeader(Sk(d, h, i, o, w), x) = Sk(d, Append(h, x), i, o, w)
           /\ AddInput(Sk(d, h, i, o, w), x) = Sk(d, h, Append(i, x), o, Append(w, NoText))
           /\ AddOutput(Sk(d, h, i, o, w), x) = Sk(d, h, i, Append(o, x), w)
<1> DEFINE sk == Sk(d, h, i, o, w)
<1>1. sk.deps = d /\ sk.headers = h /\ sk.inputs = i /\ sk.outputs = o /\ sk.witnesses = w
  BY SkFields
<1> HIDE DEF sk
<1>2. AddCellDep(sk, x) = Sk(Append(d, x), h, i, o, w)
  <2> DEFINE deps == Append(d, x)
  <2>1. AddCellDep(sk, x) = [sk EXCEPT !.deps = deps]
    BY <1>1, Zenon DEF AddCellDep
  <2> HIDE DEF deps
  <2>2. [sk EXCEPT !.deps = deps] = Sk(deps, h, i, o, w)
    BY DEF sk, Sk
  <2> QED
    BY <2>1, <2>2, Zenon DEF deps
<1>3. AddHeader(sk, x) = Sk(d, Append(h, x), i, o, w)
  <2> DEFINE headers == Append(h, x)
  <2>1. AddHeader(sk, x) = [sk EXCEPT !.headers = headers]
    BY <1>1, Zenon DEF AddHeader
  <2> HIDE DEF headers
  <2>2. [sk EXCEPT !.headers = headers] = Sk(d, headers, i, o, w)
    BY DEF sk, Sk
  <2> QED
    BY <2>1, <2>2, Zenon DEF headers
<1>4. AddInput(sk, x) = Sk(d, h, Append(i, x), o, Append(w, NoText))
  <2> DEFINE inputs == Append(i, x)
             witnesses == Append(w, NoText)
  <2>1. AddInput(sk, x) = [sk EXCEPT !.inputs = inputs, !.witnesses = witnesses]
    BY <1>1, Zenon DEF AddInput
  <2> HIDE DEF inputs, witnesses
  <2>2. [sk EXCEPT !.inputs = inputs, !.witnesses = witnesses]
            = [[sk EXCEPT !.inputs = inputs] EXCEPT !.witnesses = witnesses]
    OBVIOUS
  <2>3. [sk EXCEPT !.inputs = inputs] = Sk(d, h, inputs, o, w)
    BY DEF sk, Sk
  <2>4. [Sk(d, h, inputs, o, w) EXCEPT !.witnesses = witnesses]
            = Sk(d, h, inputs, o, witnesses)
    BY DEF Sk
  <2> QED
    BY <2>1, <2>2, <2>3, <2>4, Zenon DEF inputs, witnesses
<1>5. AddOutput(sk, x) = Sk(d, h, i, Append(o, x), w)
  <2> DEFINE outputs == Append(o, x)
  <2>1. AddOutput(sk, x) = [sk EXCEPT !.outputs = outputs]
    BY <1>1, Zenon DEF AddOutput
  <2> HIDE DEF outputs
  <2>2. [sk EXCEPT !.outputs = outputs] = Sk(d, h, i, outputs, w)
    BY DEF sk, Sk
  <2> QED
    BY <2>1, <2>2, Zenon DEF outputs
<1> QED
  BY <1>2, <1>3, <1>4, <1>5, Zenon DEF sk

LEMMA ApplyCellDep ==
    ASSUME NEW d, NEW h, NEW i, NEW o, NEW w, NEW x
    PROVE  Apply(Sk(d, h, i, o, w), CellDep(x)) = Sk(Append(d, x), h, i, o, w)
<1> DEFINE op == CellDep(x)
           sk == Sk(d, h, i, o, w)
<1>1. op.op = "CellDep" /\ op.dep = x
  BY DEF CellDep
<1> HIDE DEF op, sk
<1>2. Apply(sk, op) = AddCellDep(sk, op.dep)
  BY <1>1, ApplyOp
<1> QED
  BY <1>1, <1>2, AddTo DEF op, sk

LEMMA ApplyHeaderOfBlock ==
    ASSUME NEW d, NEW h, NEW i, NEW o, NEW w, NEW x
    PROVE  Apply(Sk(d, h, i, o, w), HeaderOfBlock(x)) = Sk(d, Append(h, x), i, o, w)
<1> DEFINE op == HeaderOfBlock(x)
           sk == Sk(d, h, i, o, w)
<1>1. op.op = "HeaderOfBlock" /\ op.number = x
  BY DEF HeaderOfBlock
<1> HIDE DEF op, sk
<1>2. Apply(sk, op) = AddHeader(sk, op.number)
  BY <1>1, ApplyOp
<1> QED
  BY <1>1, <1>2, AddTo DEF op, sk

LEMMA ApplyHeaderOfInput ==
    ASSUME NEW d, NEW h, NEW i, NEW o, NEW w, NEW x
    PROVE  Apply(Sk(d, h, i, o, w), HeaderOfInput(x))
              = Sk(d, Append(h, At(i, x).block), i, o, w)
<1> DEFINE op == HeaderOfInput(x)
           sk == Sk(d, h, i, o, w)
<1>1. op.op = "HeaderOfInput" /\ op.index = x
  BY DEF HeaderOfInput
<1> HIDE DEF op, sk
<1>2. Apply(sk, op) = AddHeader(sk, At(sk.inputs, op.index).block)
  BY <1>1, ApplyOp
<1>3. sk.inputs = i
  BY SkFields DEF sk
<1> QED
  BY <1>1, <1>2, <1>3, AddTo DEF op, sk

LEMMA ApplyHeaderOfCellDep ==
    ASSUME NEW d, NEW h, NEW i, NEW o, NEW w, NEW x
    PROVE  Apply(Sk(d, h, i, o, w), HeaderOfCellDep(x))
              = Sk(d, Append(h, At(d, x).block), i, o, w)
<1> DEFINE op == HeaderOfCellDep(x)
           sk == Sk(d, h, i, o, w)
<1>1. op.op = "HeaderOfCellDep" /\ op.index = x
  BY DEF HeaderOfCellDep
<1> HIDE DEF op, sk
<1>2. Apply(sk, op) = AddHeader(sk, At(sk.deps, op.index).block)
  BY <1>1, ApplyOp
<1>3. sk.deps = d
  BY SkFields DEF sk
<1> QED
  BY <1>1, <1>2, <1>3, AddTo DEF op, sk

LEMMA ApplyInput ==
    ASSUME NEW d, NEW h, NEW i, NEW o, NEW w, NEW x
    PROVE  Apply(Sk(d, h, i, o, w), Input(x)) = Sk(d, h, Append(i, x), o, Append(w, NoText))
<1> DEFINE op == Input(x)
           sk == Sk(d, h, i, o, w)
<1>1. op.op = "Input" /\ op.input = x
  BY DEF Input
<1> HIDE DEF op, sk
<1>2. Apply(sk, op) = AddInput(sk, op.input)
  BY <1>1, ApplyOp
<1> QED
  BY <1>1, <1>2, AddTo DEF op, sk

LEMMA ApplyOutput ==
    ASSUME NEW d, NEW h, NEW i, NEW o, NEW w, NEW x
    PROVE  Apply(Sk(d, h, i, o, w), Output(x)) = Sk(d, h, i, Append(o, x), w)
<1> DEFINE op == Output(x)
           sk == Sk(d, h, i, o, w)
<1>1. op.op = "Output" /\ op.cell = x
  BY DEF Output
<1> HIDE DEF op, sk
<1>2. Apply(sk, op) = AddOutput(sk, op.cell)
  BY <1>1, ApplyOp
<1> QED
  BY <1>1, <1>2, AddTo DEF op, sk

LEMMA ApplyOutputOfInput ==
    ASSUME NEW d, NEW h, NEW i, NEW o, NEW w, NEW x, NEW lock, NEW data, NEW adjust
    PROVE  LET op == OutputOfInput(x, lock, data, adjust)
           IN  Apply(Sk(d, h, i, o, w), op) = Sk(d, h, i, Append(o, Derived(At(i, x).cell, op)), w)
<1> DEFINE op == OutputOfInput(x, lock, data, adjust)
           sk == Sk(d, h, i, o, w)
<1>1. op.op = "OutputOfInput" /\ op.index = x
  BY DEF OutputOfInput
<1> HIDE DEF op, sk
<1>2. Apply(sk, op) = AddOutput(sk, Derived(At(sk.inputs, x).cell, op))
  BY <1>1, ApplyOp
<1>3. sk.inputs = i
  BY SkFields DEF sk
<1> QED
  BY <1>2, <1>3, AddTo DEF op, sk

LEMMA ApplyOutputWitness ==
    ASSUME NEW sk, NEW x, NEW y
    PROVE  Apply(sk, OutputWitness(x, y)) = SetOutputWitness(sk, x, y)
<1> DEFINE op == OutputWitness(x, y)
<1>1. op.op = "OutputWitness" /\ op.index = x /\ op.data = y
  BY DEF OutputWitness
<1> HIDE DEF op
<1> QED
  BY <1>1, ApplyOp DEF op

(* n times the same element after a sequence.                               *)
Times(n, x) == [j \in 1..n |-> x]

LEMMA TimesSeq ==
    ASSUME NEW S, NEW x \in S, NEW n \in Nat
    PROVE  Times(n, x) \in Seq(S) /\ Len(Times(n, x)) = n /\ \A j \in 1..n : Times(n, x)[j] = x
BY DEF Times

LEMMA RepeatedNone ==
    ASSUME NEW S, NEW s \in Seq(S), NEW x
    PROVE  s \o Times(0, x) = s
<1>1. Times(0, x) = <<>>
  BY DEF Times
<1> QED
  BY <1>1, ConcatEmptySeq, Zenon

(* s with n times x behind it.                                              *)
Extended(S, s, x, n, t) ==
    /\ t \in Seq(S) /\ Len(t) = Len(s) + n
    /\ \A j \in 1..(Len(s) + n) : t[j] = IF j <= Len(s) THEN s[j] ELSE x

LEMMA RepeatedAt ==
    ASSUME NEW S, NEW s \in Seq(S), NEW x \in S, NEW n \in Nat
    PROVE  Extended(S, s, x, n, s \o Times(n, x))
<1> DEFINE t == Times(n, x)
<1>1. t \in Seq(S) /\ Len(t) = n /\ \A j \in 1..n : t[j] = x
  BY TimesSeq, Zenon
<1>2. Len(s) \in Nat
  BY LenProperties
<1> HIDE DEF t
<1>3. /\ s \o t \in Seq(S) /\ Len(s \o t) = Len(s) + Len(t)
      /\ \A j \in 1..(Len(s) + Len(t)) :
            (s \o t)[j] = IF j <= Len(s) THEN s[j] ELSE t[j - Len(s)]
  BY <1>1, ConcatProperties, Zenon
<1>4. ASSUME NEW j \in 1..(Len(s) + n)
      PROVE  (s \o t)[j] = IF j <= Len(s) THEN s[j] ELSE x
  <2>1. (s \o t)[j] = IF j <= Len(s) THEN s[j] ELSE t[j - Len(s)]
    BY <1>1, <1>3
  <2>2. ~(j <= Len(s)) => j - Len(s) \in 1..n
    BY <1>2
  <2> QED
    BY <1>1, <2>1, <2>2
<1>5. s \o t \in Seq(S) /\ Len(s \o t) = Len(s) + n
  BY <1>1, <1>3
<1> QED
  BY <1>4, <1>5 DEF t, Extended

LEMMA RepeatedNext ==
    ASSUME NEW S, NEW s \in Seq(S), NEW x \in S, NEW n \in Nat
    PROVE  Append(s \o Times(n, x), x) = s \o Times(n + 1, x)
<1> DEFINE m == n + 1
           p == s \o Times(n, x)
           b == s \o Times(m, x)
           a == Append(p, x)
<1>0. m \in Nat
  OBVIOUS
<1>1. m = n + 1 /\ Len(s) \in Nat
  BY LenProperties
<1> HIDE DEF m
<1>2. Extended(S, s, x, n, p) /\ Extended(S, s, x, m, b)
  BY <1>0, RepeatedAt, Zenon
<1>3. /\ p \in Seq(S) /\ Len(p) = Len(s) + n
      /\ \A j \in 1..(Len(s) + n) : p[j] = IF j <= Len(s) THEN s[j] ELSE x
  BY <1>2, Zenon DEF Extended
<1>4. /\ b \in Seq(S) /\ Len(b) = Len(s) + m
      /\ \A j \in 1..(Len(s) + m) : b[j] = IF j <= Len(s) THEN s[j] ELSE x
  BY <1>2, Zenon DEF Extended
<1> HIDE DEF p, b
<1>5. a \in Seq(S) /\ Len(a) = Len(b)
  BY <1>1, <1>3, <1>4
<1>6. ASSUME NEW j \in 1..Len(a)
      PROVE  a[j] = b[j]
  <2>1. CASE j \in 1..Len(p)
    <3>1. a[j] = p[j]
      BY <2>1, <1>3
    <3> QED
      BY <3>1, <2>1, <1>1, <1>3, <1>4
  <2>2. CASE j = Len(p) + 1
    <3>1. a[j] = x
      BY <2>2, <1>3
    <3>2. b[j] = x
      BY <2>2, <1>1, <1>3, <1>4
    <3> QED
      BY <3>1, <3>2
  <2> QED
    BY <2>1, <2>2, <1>1, <1>3
<1> HIDE DEF a
<1>7. a = b
  BY <1>4, <1>5, <1>6, SeqEqual, Zenon
<1> QED
  BY <1>1, <1>7 DEF a, b, p

(* What balancing adds, however many wallet cells it takes.                 *)
WalletCellInput(owner) == [outpoint |-> <<0, 0>>, block |-> 0, cell |-> WalletCell(owner)]

LEMMA PerformBalance ==
    ASSUME NEW S, NEW T, NEW d, NEW h, NEW i \in Seq(S), NEW o, NEW w \in Seq(T),
           NEW owner, WalletCellInput(owner) \in S, NoText \in T, NEW more \in Nat
    PROVE  /\ IsSeq(Balance(owner, more))
           /\ Perform(Sk(d, h, i, o, w), Balance(owner, more))
                 = Sk(d, h, i \o Times(more, WalletCellInput(owner)),
                      Append(o, WalletCell(owner)), w \o Times(more, NoText))
<1> DEFINE x   == WalletCellInput(owner)
           sk  == Sk(d, h, i, o, w)
           ins == [j \in 1..more |-> WalletInput(owner)]
           tr  == [j \in 0..more |-> Sk(d, h, i \o Times(j, x), o, w \o Times(j, NoText))]
<1>1. WalletInput(owner) = Input(x)
  BY DEF WalletInput, WalletCellInput
<1>2. IsList(ins) /\ Len(ins) = more
  BY DEF IsList
<1>3. tr[0] = sk
  <2>1. i \o Times(0, x) = i
    BY RepeatedNone, Zenon
  <2>2. w \o Times(0, NoText) = w
    BY RepeatedNone, Zenon
  <2>3. 0 \in 0..more
    OBVIOUS
  <2> QED
    BY <2>1, <2>2, <2>3, Zenon
<1>4. ASSUME NEW j \in 1..Len(ins)
      PROVE  tr[j] = Apply(tr[j - 1], ins[j])
  <2>1. j - 1 \in Nat /\ j - 1 \in 0..more /\ j \in 0..more /\ (j - 1) + 1 = j
    BY <1>2
  <2>2. ins[j] = Input(x)
    BY <1>1, <1>2
  <2>3. Apply(tr[j - 1], Input(x))
           = Sk(d, h, Append(i \o Times(j - 1, x), x), o, Append(w \o Times(j - 1, NoText), NoText))
    BY <2>1, ApplyInput
  <2>4. /\ Append(i \o Times(j - 1, x), x) = i \o Times((j - 1) + 1, x)
        /\ Append(w \o Times(j - 1, NoText), NoText) = w \o Times((j - 1) + 1, NoText)
    BY <2>1, RepeatedNext, Zenon
  <2> QED
    BY <2>1, <2>2, <2>3, <2>4
<1>5. Trace(tr, sk, ins)
  BY <1>3, <1>4 DEF Trace
<1>6. Perform(sk, ins) = tr[more]
  BY <1>2, <1>5, PerformBy
<1> DEFINE ops == {WalletInput(owner), Output(WalletCell(owner))}
<1>7. IsSeq(ins) /\ IsSeq(<<Output(WalletCell(owner))>>)
  <2>1. ins \in Seq(ops) /\ <<Output(WalletCell(owner))>> \in Seq(ops)
    OBVIOUS
  <2> QED
    BY <2>1 DEF IsSeq
<1>8. /\ IsSeq(Balance(owner, more))
      /\ Perform(sk, Balance(owner, more)) = Perform(Perform(sk, ins), <<Output(WalletCell(owner))>>)
  BY <1>7, PerformThen DEF Balance
<1>9. tr[more] = Sk(d, h, i \o Times(more, x), o, w \o Times(more, NoText))
  OBVIOUS
<1> HIDE DEF tr, ins, x
<1>10. Perform(tr[more], <<Output(WalletCell(owner))>>)
          = Sk(d, h, i \o Times(more, x), Append(o, WalletCell(owner)), w \o Times(more, NoText))
  BY <1>9, PerformOne, ApplyOutput
<1> QED
  BY <1>6, <1>8, <1>10 DEF x

-----------------------------------------------------------------------------
(* The pieces the builders share.                                           *)

LEMMA WalletInputIs ==
    ASSUME NEW owner
    PROVE  WalletInput(owner) = Input(WalletCellInput(owner))
BY DEF WalletInput, WalletCellInput

(* An operation that is only there under a condition.                       *)
LEMMA PerformIf ==
    ASSUME NEW sk, NEW op, NEW c \in BOOLEAN
    PROVE  LET ops == IF c THEN <<op>> ELSE <<>>
           IN  IsSeq(ops) /\ Perform(sk, ops) = IF c THEN Apply(sk, op) ELSE sk
<1>1. <<op>> \in Seq({op}) /\ <<>> \in Seq({op})
  OBVIOUS
<1>2. IsSeq(<<op>>) /\ IsSeq(<<>>)
  BY <1>1, Zenon DEF IsSeq
<1>3. CASE c
  BY <1>2, <1>3, PerformOne
<1>4. CASE ~c
  BY <1>2, <1>4, PerformNone
<1> QED
  BY <1>3, <1>4

LEMMA PerformXudtDep ==
    ASSUME NEW d, NEW h, NEW i, NEW o, NEW w, NEW c \in BOOLEAN
    PROVE  /\ IsSeq(XudtDep(c))
           /\ Perform(Sk(d, h, i, o, w), XudtDep(c))
                 = Sk(IF c THEN Append(d, XudtCode) ELSE d, h, i, o, w)
<1>1. /\ IsSeq(XudtDep(c))
      /\ Perform(Sk(d, h, i, o, w), XudtDep(c))
            = IF c THEN Apply(Sk(d, h, i, o, w), CellDep(XudtCode)) ELSE Sk(d, h, i, o, w)
  BY PerformIf DEF XudtDep
<1>2. Apply(Sk(d, h, i, o, w), CellDep(XudtCode)) = Sk(Append(d, XudtCode), h, i, o, w)
  BY ApplyCellDep
<1> QED
  BY <1>1, <1>2

(* A transaction that was prepared before its instruction.                  *)
LEMMA PerformPrepare ==
    ASSUME NEW d, NEW h, NEW i, NEW o, NEW w
    PROVE  /\ IsSeq(Prepare)
           /\ Perform(Sk(d, h, i, o, w), Prepare) = Sk(Append(d, Sighash), h, i, o, w)
<1>1. <<CellDep(Sighash)>> \in Seq({CellDep(Sighash)})
  OBVIOUS
<1>2. IsSeq(Prepare)
  BY <1>1 DEF IsSeq, Prepare
<1>3. Perform(Sk(d, h, i, o, w), Prepare) = Apply(Sk(d, h, i, o, w), CellDep(Sighash))
  BY PerformOne DEF Prepare
<1> QED
  BY <1>2, <1>3, ApplyCellDep

LEMMA AssemblePrepared ==
    ASSUME NEW S, NEW T, NEW ops, IsSeq(ops),
           NEW d, NEW h, NEW i \in Seq(S), NEW o, NEW w \in Seq(T),
           Perform(Sk(Append(<<>>, Sighash), <<>>, <<>>, <<>>, <<>>), ops) = Sk(d, h, i, o, w),
           NEW owner, WalletCellInput(owner) \in S, NoText \in T, NEW more \in Nat
    PROVE  Assemble(Prepare \o ops \o Balance(owner, more))
              = Sk(d, h, i \o Times(more, WalletCellInput(owner)),
                   Append(o, WalletCell(owner)), w \o Times(more, NoText))
<1>1. NewSkeleton = Sk(<<>>, <<>>, <<>>, <<>>, <<>>)
  BY DEF NewSkeleton, Sk
<1>2. /\ IsSeq(Prepare)
      /\ Perform(NewSkeleton, Prepare) = Sk(Append(<<>>, Sighash), <<>>, <<>>, <<>>, <<>>)
  <2> DEFINE none == <<>>
  <2> HIDE DEF none
  <2>1. /\ IsSeq(Prepare)
        /\ Perform(Sk(none, none, none, none, none), Prepare)
              = Sk(Append(none, Sighash), none, none, none, none)
    BY PerformPrepare
  <2> QED
    BY <1>1, <2>1 DEF none
<1>3. /\ IsSeq(Prepare \o ops)
      /\ Perform(NewSkeleton, Prepare \o ops) = Sk(d, h, i, o, w)
  BY <1>2, PerformThen
<1>4. /\ IsSeq(Balance(owner, more))
      /\ Perform(Sk(d, h, i, o, w), Balance(owner, more))
            = Sk(d, h, i \o Times(more, WalletCellInput(owner)),
                 Append(o, WalletCell(owner)), w \o Times(more, NoText))
  BY PerformBalance
<1>5. Perform(NewSkeleton, Prepare \o ops \o Balance(owner, more))
         = Perform(Perform(NewSkeleton, Prepare \o ops), Balance(owner, more))
  BY <1>3, <1>4, PerformThen
<1> QED
  BY <1>3, <1>4, <1>5 DEF Assemble
=============================================================================
