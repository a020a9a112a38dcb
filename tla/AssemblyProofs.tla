--------------------------- MODULE AssemblyProofs ---------------------------
(***************************************************************************)
(* What the operations of every stack assemble is what the record of the   *)
(* builder says, however many wallet cells the balance adds.  First the    *)
(* skeleton each builder makes of any other, then what the verifier reads  *)
(* of a balanced one, then the stacks one by one.                          *)
(***************************************************************************)
EXTENDS Assembly, SkeletonProofs, EscrowProofs

-----------------------------------------------------------------------------
(* What the builders make.                                                  *)

LEMMA UpdateMakes ==
    ASSUME NEW d, NEW h, NEW i, NEW o, NEW w, NEW who, NEW in, NEW data, NEW delta
    PROVE  LET ops == UpdateMatchOps(who, in, data, delta)
               ins == Append(Append(i, in), WalletCellInput(who))
               op  == OutputOfInput(0, Keep, data, delta)
           IN  /\ IsSeq(ops)
               /\ Perform(Sk(d, h, i, o, w), ops)
                     = Sk(Append(d, Contract), h, ins, Append(o, Derived(At(ins, 0).cell, op)),
                          Append(Append(w, NoText), NoText))
<1> DEFINE op == OutputOfInput(0, Keep, data, delta)
           i1 == Append(i, in)
           i2 == Append(i1, WalletCellInput(who))
           d1 == Append(d, Contract)
           w1 == Append(w, NoText)
           w2 == Append(w1, NoText)
           o1 == Append(o, Derived(At(i2, 0).cell, op))
<1>1. Apply(Sk(d, h, i, o, w), CellDep(Contract)) = Sk(d1, h, i, o, w)
  BY ApplyCellDep
<1>2. Apply(Sk(d1, h, i, o, w), Input(in)) = Sk(d1, h, i1, o, w1)
  BY ApplyInput
<1>3. Apply(Sk(d1, h, i1, o, w1), WalletInput(who)) = Sk(d1, h, i2, o, w2)
  BY ApplyInput, WalletInputIs
<1>4. Apply(Sk(d1, h, i2, o, w2), op) = Sk(d1, h, i2, o1, w2)
  BY ApplyOutputOfInput
<1> HIDE DEF d1, i1, i2, w1, w2, o1, op
<1>5. LET ops == <<CellDep(Contract), Input(in), WalletInput(who), op>>
      IN  IsSeq(ops) /\ Perform(Sk(d, h, i, o, w), ops) = Sk(d1, h, i2, o1, w2)
  BY <1>1, <1>2, <1>3, <1>4, PerformFour
<1> QED
  BY <1>5 DEF UpdateMatchOps, d1, i1, i2, w1, w2, o1, op

LEMMA CancelMakes ==
    ASSUME NEW d, NEW h, NEW i, NEW o, NEW w, NEW who, NEW in, NEW xudt \in BOOLEAN
    PROVE  LET ops  == CancelOrderOps(who, in, xudt)
               back == [WalletCell(who) EXCEPT !.type = in.cell.type]
           IN  /\ IsSeq(ops)
               /\ Perform(Sk(d, h, i, o, w), ops)
                     = Sk(IF xudt THEN Append(Append(d, Contract), XudtCode)
                          ELSE Append(d, Contract),
                          h, Append(Append(i, in), WalletCellInput(who)),
                          IF xudt THEN Append(o, back) ELSE o,
                          Append(Append(w, NoText), NoText))
<1> DEFINE back == [WalletCell(who) EXCEPT !.type = in.cell.type]
           i1 == Append(i, in)
           i2 == Append(i1, WalletCellInput(who))
           d1 == Append(d, Contract)
           d2 == IF xudt THEN Append(d1, XudtCode) ELSE d1
           w1 == Append(w, NoText)
           w2 == Append(w1, NoText)
           o1 == IF xudt THEN Append(o, back) ELSE o
           p1 == <<CellDep(Contract), Input(in), WalletInput(who)>>
           p2 == XudtDep(xudt)
           p3 == IF xudt THEN <<Output(back)>> ELSE <<>>
<1>1. Apply(Sk(d, h, i, o, w), CellDep(Contract)) = Sk(d1, h, i, o, w)
  BY ApplyCellDep
<1>2. Apply(Sk(d1, h, i, o, w), Input(in)) = Sk(d1, h, i1, o, w1)
  BY ApplyInput
<1>3. Apply(Sk(d1, h, i1, o, w1), WalletInput(who)) = Sk(d1, h, i2, o, w2)
  BY ApplyInput, WalletInputIs
<1>4. Apply(Sk(d2, h, i2, o, w2), Output(back)) = Sk(d2, h, i2, Append(o, back), w2)
  BY ApplyOutput
<1>5. IsSeq(p1) /\ Perform(Sk(d, h, i, o, w), p1) = Sk(d1, h, i2, o, w2)
  <2> HIDE DEF d1, i1, i2, w1, w2
  <2> QED
    BY <1>1, <1>2, <1>3, PerformThree
<1>6. IsSeq(p2) /\ Perform(Sk(d1, h, i2, o, w2), p2) = Sk(d2, h, i2, o, w2)
  BY PerformXudtDep
<1>7. IsSeq(p3) /\ Perform(Sk(d2, h, i2, o, w2), p3) = Sk(d2, h, i2, o1, w2)
  <2> HIDE DEF d1, d2, i1, i2, w1, w2, back
  <2> QED
    BY <1>4, PerformIf
<1> HIDE DEF d1, d2, i1, i2, w1, w2, o1, p1, p2, p3
<1>8. IsSeq(p1 \o p2) /\ Perform(Sk(d, h, i, o, w), p1 \o p2) = Sk(d2, h, i2, o, w2)
  BY <1>5, <1>6, PerformThen
<1>9. /\ IsSeq((p1 \o p2) \o p3)
      /\ Perform(Sk(d, h, i, o, w), (p1 \o p2) \o p3) = Sk(d2, h, i2, o1, w2)
  BY <1>7, <1>8, PerformThen
<1> QED
  BY <1>9 DEF CancelOrderOps, d1, d2, i1, i2, w1, w2, o1, p1, p2, p3

LEMMA MatchMakes ==
    ASSUME NEW d, NEW h, NEW i, NEW o, NEW w, NEW who, NEW in, NEW chan, NEW lock,
           NEW data, NEW reserve
    PROVE  LET ops  == MatchOrderOps(who, in, chan, lock, data, reserve)
               deps == Append(Append(d, Contract), chan)
               ins  == Append(Append(i, in), WalletCellInput(who))
               op   == OutputOfInput(0, lock, data, reserve)
           IN  /\ IsSeq(ops)
               /\ Perform(Sk(d, h, i, o, w), ops)
                     = Sk(deps,
                          Append(Append(h, At(deps, Newest).block),
                                 At(Append(i, in), Newest).block),
                          ins, Append(o, Derived(At(ins, 0).cell, op)),
                          Append(Append(w, NoText), NoText))
<1> DEFINE op == OutputOfInput(0, lock, data, reserve)
           i1 == Append(i, in)
           i2 == Append(i1, WalletCellInput(who))
           d1 == Append(d, Contract)
           d2 == Append(d1, chan)
           h1 == Append(h, At(d2, Newest).block)
           h2 == Append(h1, At(i1, Newest).block)
           w1 == Append(w, NoText)
           w2 == Append(w1, NoText)
           o1 == Append(o, Derived(At(i2, 0).cell, op))
<1>1. Apply(Sk(d, h, i, o, w), CellDep(Contract)) = Sk(d1, h, i, o, w)
  BY ApplyCellDep
<1>2. Apply(Sk(d1, h, i, o, w), CellDep(chan)) = Sk(d2, h, i, o, w)
  BY ApplyCellDep
<1>3. Apply(Sk(d2, h, i, o, w), HeaderOfCellDep(Newest)) = Sk(d2, h1, i, o, w)
  BY ApplyHeaderOfCellDep
<1>4. Apply(Sk(d2, h1, i, o, w), Input(in)) = Sk(d2, h1, i1, o, w1)
  BY ApplyInput
<1>5. Apply(Sk(d2, h1, i1, o, w1), HeaderOfInput(Newest)) = Sk(d2, h2, i1, o, w1)
  BY ApplyHeaderOfInput
<1>6. Apply(Sk(d2, h2, i1, o, w1), WalletInput(who)) = Sk(d2, h2, i2, o, w2)
  BY ApplyInput, WalletInputIs
<1>7. Apply(Sk(d2, h2, i2, o, w2), op) = Sk(d2, h2, i2, o1, w2)
  BY ApplyOutputOfInput
<1> HIDE DEF d1, d2, h1, h2, i1, i2, w1, w2, o1, op
<1>8. LET ops == <<CellDep(Contract), CellDep(chan), HeaderOfCellDep(Newest), Input(in),
                   HeaderOfInput(Newest), WalletInput(who), op>>
      IN  IsSeq(ops) /\ Perform(Sk(d, h, i, o, w), ops) = Sk(d2, h2, i2, o1, w2)
  BY <1>1, <1>2, <1>3, <1>4, <1>5, <1>6, <1>7, PerformSeven
<1> QED
  BY <1>8 DEF MatchOrderOps, d1, d2, h1, h2, i1, i2, w1, w2, o1, op

LEMMA ExtractMakes ==
    ASSUME NEW d, NEW h, NEW i, NEW o, NEW w, NEW who, NEW in, NEW chan, NEW t,
           NEW first \in BOOLEAN, NEW data, NEW rent
    PROVE  LET ops == ExtractRentOps(who, in, chan, t, first, data, rent)
               ins == Append(Append(i, WalletCellInput(who)), in)
               op  == OutputOfInput(Newest, Keep, data, -rent)
           IN  /\ IsSeq(ops)
               /\ Perform(Sk(d, h, i, o, w), ops)
                     = Sk(Append(Append(d, Contract), chan),
                          IF first THEN Append(Append(h, t), At(ins, Newest).block)
                          ELSE Append(h, t),
                          ins, Append(o, Derived(At(ins, Newest).cell, op)),
                          Append(Append(w, NoText), NoText))
<1> DEFINE op == OutputOfInput(Newest, Keep, data, -rent)
           i1 == Append(i, WalletCellInput(who))
           i2 == Append(i1, in)
           d1 == Append(d, Contract)
           d2 == Append(d1, chan)
           h1 == Append(h, t)
           h2 == IF first THEN Append(h1, At(i2, Newest).block) ELSE h1
           w1 == Append(w, NoText)
           w2 == Append(w1, NoText)
           o1 == Append(o, Derived(At(i2, Newest).cell, op))
           p1 == <<CellDep(Contract), CellDep(chan), HeaderOfBlock(t), WalletInput(who),
                   Input(in)>>
           p2 == IF first THEN <<HeaderOfInput(Newest)>> ELSE <<>>
           p3 == <<op>>
<1>1. Apply(Sk(d, h, i, o, w), CellDep(Contract)) = Sk(d1, h, i, o, w)
  BY ApplyCellDep
<1>2. Apply(Sk(d1, h, i, o, w), CellDep(chan)) = Sk(d2, h, i, o, w)
  BY ApplyCellDep
<1>3. Apply(Sk(d2, h, i, o, w), HeaderOfBlock(t)) = Sk(d2, h1, i, o, w)
  BY ApplyHeaderOfBlock
<1>4. Apply(Sk(d2, h1, i, o, w), WalletInput(who)) = Sk(d2, h1, i1, o, w1)
  BY ApplyInput, WalletInputIs
<1>5. Apply(Sk(d2, h1, i1, o, w1), Input(in)) = Sk(d2, h1, i2, o, w2)
  BY ApplyInput
<1>6. Apply(Sk(d2, h1, i2, o, w2), HeaderOfInput(Newest))
         = Sk(d2, Append(h1, At(i2, Newest).block), i2, o, w2)
  BY ApplyHeaderOfInput
<1>7. Apply(Sk(d2, h2, i2, o, w2), op) = Sk(d2, h2, i2, o1, w2)
  BY ApplyOutputOfInput
<1>8. IsSeq(p1) /\ Perform(Sk(d, h, i, o, w), p1) = Sk(d2, h1, i2, o, w2)
  <2> HIDE DEF d1, d2, h1, i1, i2, w1, w2
  <2> QED
    BY <1>1, <1>2, <1>3, <1>4, <1>5, PerformFive
<1>9. IsSeq(p2) /\ Perform(Sk(d2, h1, i2, o, w2), p2) = Sk(d2, h2, i2, o, w2)
  <2> HIDE DEF d1, d2, h1, i1, i2, w1, w2
  <2> QED
    BY <1>6, PerformIf
<1>10. IsSeq(p3) /\ Perform(Sk(d2, h2, i2, o, w2), p3) = Sk(d2, h2, i2, o1, w2)
  <2> HIDE DEF d1, d2, h1, h2, i1, i2, w1, w2, o1, op
  <2>1. <<op>> \in Seq({op})
    OBVIOUS
  <2> QED
    BY <1>7, <2>1, PerformOne DEF IsSeq
<1> HIDE DEF d1, d2, h1, h2, i1, i2, w1, w2, o1, op, p1, p2, p3
<1>11. IsSeq(p1 \o p2) /\ Perform(Sk(d, h, i, o, w), p1 \o p2) = Sk(d2, h2, i2, o, w2)
  BY <1>8, <1>9, PerformThen
<1>12. /\ IsSeq((p1 \o p2) \o p3)
       /\ Perform(Sk(d, h, i, o, w), (p1 \o p2) \o p3) = Sk(d2, h2, i2, o1, w2)
  BY <1>10, <1>11, PerformThen
<1> QED
  BY <1>12 DEF ExtractRentOps, d1, d2, h1, h2, i1, i2, w1, w2, o1, op, p1, p2, p3

LEMMA DestroyMakes ==
    ASSUME NEW d, NEW h, NEW i, NEW o, NEW w, NEW who, NEW in, NEW t,
           NEW first \in BOOLEAN, NEW xudt \in BOOLEAN, NEW data
    PROVE  LET ops == DestroyMatchOps(who, in, t, first, xudt, data)
               ins == Append(Append(i, in), WalletCellInput(who))
               op  == OutputOfInput(0, WalletLock(who), data, 0)
           IN  /\ IsSeq(ops)
               /\ Perform(Sk(d, h, i, o, w), ops)
                     = Sk(IF xudt THEN Append(Append(d, Contract), XudtCode)
                          ELSE Append(d, Contract),
                          IF first THEN Append(Append(h, t), in.block) ELSE Append(h, t),
                          ins, Append(o, Derived(At(ins, 0).cell, op)),
                          Append(Append(w, NoText), NoText))
<1> DEFINE op == OutputOfInput(0, WalletLock(who), data, 0)
           i1 == Append(i, in)
           i2 == Append(i1, WalletCellInput(who))
           d1 == Append(d, Contract)
           d2 == IF xudt THEN Append(d1, XudtCode) ELSE d1
           h1 == Append(h, t)
           h2 == IF first THEN Append(h1, in.block) ELSE h1
           w1 == Append(w, NoText)
           w2 == Append(w1, NoText)
           o1 == Append(o, Derived(At(i2, 0).cell, op))
           p1 == <<CellDep(Contract), HeaderOfBlock(t), Input(in), WalletInput(who)>>
           p2 == IF first THEN <<HeaderOfBlock(in.block)>> ELSE <<>>
           p3 == XudtDep(xudt)
           p4 == <<op>>
<1>1. Apply(Sk(d, h, i, o, w), CellDep(Contract)) = Sk(d1, h, i, o, w)
  BY ApplyCellDep
<1>2. Apply(Sk(d1, h, i, o, w), HeaderOfBlock(t)) = Sk(d1, h1, i, o, w)
  BY ApplyHeaderOfBlock
<1>3. Apply(Sk(d1, h1, i, o, w), Input(in)) = Sk(d1, h1, i1, o, w1)
  BY ApplyInput
<1>4. Apply(Sk(d1, h1, i1, o, w1), WalletInput(who)) = Sk(d1, h1, i2, o, w2)
  BY ApplyInput, WalletInputIs
<1>5. Apply(Sk(d1, h1, i2, o, w2), HeaderOfBlock(in.block))
         = Sk(d1, Append(h1, in.block), i2, o, w2)
  BY ApplyHeaderOfBlock
<1>6. Apply(Sk(d2, h2, i2, o, w2), op) = Sk(d2, h2, i2, o1, w2)
  BY ApplyOutputOfInput
<1>7. IsSeq(p1) /\ Perform(Sk(d, h, i, o, w), p1) = Sk(d1, h1, i2, o, w2)
  <2> HIDE DEF d1, h1, i1, i2, w1, w2
  <2> QED
    BY <1>1, <1>2, <1>3, <1>4, PerformFour
<1>8. IsSeq(p2) /\ Perform(Sk(d1, h1, i2, o, w2), p2) = Sk(d1, h2, i2, o, w2)
  <2> HIDE DEF d1, h1, i1, i2, w1, w2
  <2> QED
    BY <1>5, PerformIf
<1>9. IsSeq(p3) /\ Perform(Sk(d1, h2, i2, o, w2), p3) = Sk(d2, h2, i2, o, w2)
  <2> HIDE DEF d1, h1, h2, i1, i2, w1, w2
  <2> QED
    BY PerformXudtDep
<1>10. IsSeq(p4) /\ Perform(Sk(d2, h2, i2, o, w2), p4) = Sk(d2, h2, i2, o1, w2)
  <2> HIDE DEF d1, d2, h1, h2, i1, i2, w1, w2, o1, op
  <2>1. <<op>> \in Seq({op})
    OBVIOUS
  <2> QED
    BY <1>6, <2>1, PerformOne DEF IsSeq
<1> HIDE DEF d1, d2, h1, h2, i1, i2, w1, w2, o1, op, p1, p2, p3, p4
<1>11. IsSeq(p1 \o p2) /\ Perform(Sk(d, h, i, o, w), p1 \o p2) = Sk(d1, h2, i2, o, w2)
  BY <1>7, <1>8, PerformThen
<1>12. /\ IsSeq((p1 \o p2) \o p3)
       /\ Perform(Sk(d, h, i, o, w), (p1 \o p2) \o p3) = Sk(d2, h2, i2, o, w2)
  BY <1>9, <1>11, PerformThen
<1>13. /\ IsSeq(((p1 \o p2) \o p3) \o p4)
       /\ Perform(Sk(d, h, i, o, w), ((p1 \o p2) \o p3) \o p4) = Sk(d2, h2, i2, o1, w2)
  BY <1>10, <1>12, PerformThen
<1> QED
  BY <1>13 DEF DestroyMatchOps, d1, d2, h1, h2, i1, i2, w1, w2, o1, op, p1, p2, p3, p4

-----------------------------------------------------------------------------
(* What the verifier reads of a balanced transaction.                       *)

Wallet(who) == WalletCellInput(who)

LEMMA WalletIsNot == \A who : ~IsOpticrum(WalletCell(who)) /\ ~IsOpticrum(Wallet(who).cell)
BY DEF IsOpticrum, WalletCell, WalletLock, Wallet, WalletCellInput

(* One Opticrum input and one of a wallet, in either order.                 *)
Pair(i, in, who) == i = <<in, Wallet(who)>> \/ i = <<Wallet(who), in>>

LEMMA PairOf ==
    ASSUME NEW in, NEW who, NEW none, none = <<>>
    PROVE  /\ Pair(Append(Append(none, in), Wallet(who)), in, who)
           /\ Pair(Append(Append(none, Wallet(who)), in), in, who)
BY Longer, Zenon DEF Pair

(* One Opticrum input among wallet cells is the group input.                *)
LEMMA ReadInputs ==
    ASSUME NEW in, IsOpticrum(in.cell), NEW who, NEW more \in Nat, NEW sk,
           NEW i, Pair(i, in, who), sk.inputs = i \o Times(more, Wallet(who))
    PROVE  GroupInput(sk) = in /\ InputOwners(sk) = {who}
<1> DEFINE x == Wallet(who)
           S == {in, x}
           g == IF i[1] = in THEN 1 ELSE 2
           s == sk.inputs
           T == {j \in DOMAIN s : IsOpticrum(s[j].cell)}
<1>1. ~IsOpticrum(x.cell) /\ x # in
  BY WalletIsNot
<1>2. x.cell.lock.owner = who
  BY DEF Wallet, WalletCellInput, WalletCell, WalletLock
<1> HIDE DEF x
<1>3. i \in Seq(S) /\ Len(i) = 2 /\ i[g] = in /\ i[3 - g] = x /\ g \in {1, 2}
  <2>1. CASE i = <<in, x>>
    BY <2>1
  <2>2. CASE i = <<x, in>>
    BY <2>2, <1>1
  <2> QED
    BY <2>1, <2>2 DEF x, Pair
<1>4. Extended(S, i, x, more, s)
  <2>1. x \in S
    OBVIOUS
  <2>2. Extended(S, i, x, more, i \o Times(more, x))
    BY <1>3, <2>1, RepeatedAt, Zenon
  <2> QED
    BY <2>2 DEF x
<1> HIDE DEF g, s
<1>5. /\ s \in Seq(S) /\ Len(s) = 2 + more /\ DOMAIN s = 1..(2 + more)
      /\ \A j \in 1..(2 + more) : s[j] = IF j = g THEN in ELSE x
  <2>1. s \in Seq(S) /\ Len(s) = 2 + more
    BY <1>3, <1>4 DEF Extended
  <2>2. ASSUME NEW j \in 1..(2 + more)
        PROVE  s[j] = IF j = g THEN in ELSE x
    <3>1. s[j] = IF j <= 2 THEN i[j] ELSE x
      BY <1>3, <1>4 DEF Extended
    <3> QED
      BY <3>1, <1>3
  <2> QED
    BY <2>1, <2>2
<1>6. T = {g}
  BY <1>1, <1>3, <1>5
<1>7. Min(T) = g
  BY <1>3, <1>6, MinOne
<1>8. GroupInput(sk) = s[Min(T)]
  BY DEF GroupInput, s
<1>9. GroupInput(sk) = in
  BY <1>3, <1>5, <1>7, <1>8
<1>10. ToSet(s) = {in, x}
  <2>1. g \in 1..(2 + more) /\ 3 - g \in 1..(2 + more) /\ 3 - g # g
    BY <1>3
  <2>2. s[g] = in /\ s[3 - g] = x
    BY <1>5, <2>1
  <2> QED
    BY <1>5, <2>1, <2>2 DEF ToSet
<1>11. {j \in ToSet(s) : ~IsOpticrum(j.cell)} = {x}
  BY <1>1, <1>10
<1>12. InputOwners(sk) = {j.cell.lock.owner : j \in {x}}
  BY <1>11 DEF InputOwners, s
<1> QED
  BY <1>2, <1>9, <1>12

(* The output before the change is what find_opticrum_script finds, if it   *)
(* is under the Opticrum lock.                                              *)
Shown(o, out) ==
    \/ o = <<>> /\ out = NoCell
    \/ \E c : o = <<c>> /\ out = IF IsOpticrum(c) THEN Parsed(c) ELSE NoCell

LEMMA ShownOf ==
    ASSUME NEW none, none = <<>>
    PROVE  /\ Shown(none, NoCell)
           /\ \A c : IsOpticrum(c) => Shown(Append(none, c), Parsed(c))
           /\ \A c : ~IsOpticrum(c) => Shown(Append(none, c), NoCell)
BY Longer DEF Shown

LEMMA ReadOutput ==
    ASSUME NEW sk, NEW who, NEW o, NEW out, Shown(o, out),
           sk.outputs = Append(o, WalletCell(who))
    PROVE  FindOpticrum(sk) = out
<1> DEFINE x == WalletCell(who)
           s == sk.outputs
           T == {j \in DOMAIN s : IsOpticrum(s[j])}
<1>1. ~IsOpticrum(x)
  BY WalletIsNot
<1>2. FindOpticrum(sk) = IF T = {} THEN NoCell ELSE Parsed(s[Min(T)])
  BY DEF FindOpticrum
<1> HIDE DEF x
<1>3. CASE o = <<>> /\ out = NoCell
  <2>1. s = <<x>>
    BY <1>3, Longer DEF x
  <2>2. T = {}
    BY <1>1, <2>1
  <2> QED
    BY <1>2, <1>3, <2>2
<1>4. ASSUME NEW c, o = <<c>>, out = IF IsOpticrum(c) THEN Parsed(c) ELSE NoCell
      PROVE  FindOpticrum(sk) = out
  <2>1. s = <<c, x>>
    BY <1>4, Longer DEF x
  <2>2. CASE IsOpticrum(c)
    <3>1. T = {1}
      BY <1>1, <2>1, <2>2
    <3>2. Min(T) = 1
      BY <3>1, MinOne
    <3>3. s[1] = c
      BY <2>1
    <3> QED
      BY <1>2, <1>4, <2>2, <3>1, <3>2, <3>3
  <2>3. CASE ~IsOpticrum(c)
    <3>1. T = {}
      BY <1>1, <2>1, <2>3
    <3> QED
      BY <1>2, <1>4, <2>3, <3>1
  <2> QED
    BY <2>2, <2>3
<1> QED
  BY <1>3, <1>4 DEF Shown

(* The deps and headers of a list that has grown by one.                    *)
LEMMA ToSetAppend ==
    ASSUME NEW s, IsSeq(s), NEW x
    PROVE  IsSeq(Append(s, x)) /\ ToSet(Append(s, x)) = ToSet(s) \cup {x}
<1>1. PICK S : s \in Seq(S)
  BY DEF IsSeq
<1> DEFINE t == Append(s, x)
           n == Len(s)
<1>2. s \in Seq(S \cup {x})
  BY <1>1, SeqMonotonic
<1>3. /\ t \in Seq(S \cup {x}) /\ n \in Nat /\ DOMAIN s = 1..n /\ DOMAIN t = 1..(n + 1)
      /\ t[n + 1] = x /\ \A j \in 1..n : t[j] = s[j]
  <2>1. n \in Nat /\ DOMAIN s = 1..n
    BY <1>2, LenProperties
  <2>2. t \in Seq(S \cup {x}) /\ Len(t) = n + 1
    BY <1>2
  <2>3. DOMAIN t = 1..(n + 1)
    BY <2>2, LenProperties
  <2>4. t[n + 1] = x /\ \A j \in 1..n : t[j] = s[j]
    BY <1>2, <2>1
  <2> QED
    BY <2>1, <2>2, <2>3, <2>4
<1> HIDE DEF t, n
<1>4. ToSet(t) = ToSet(s) \cup {x}
  <2>1. 1..(n + 1) = 1..n \cup {n + 1}
    BY <1>3
  <2> QED
    BY <1>3, <2>1 DEF ToSet
<1> QED
  BY <1>3, <1>4 DEF IsSeq, t

LEMMA ReadNone ==
    ASSUME NEW none, none = <<>>
    PROVE  IsSeq(none) /\ ToSet(none) = {}
BY DEF IsSeq, ToSet

(* All of it.                                                               *)
LEMMA ReadBalanced ==
    ASSUME NEW in, IsOpticrum(in.cell), NEW who, NEW more \in Nat,
           NEW i, Pair(i, in, who), NEW d, NEW h, NEW o, NEW w, NEW out, Shown(o, out)
    PROVE  ReadBy(Sk(d, h, i \o Times(more, Wallet(who)), Append(o, WalletCell(who)), w))
              = [outpoint |-> in.outpoint, input |-> Parsed(in.cell), inputBlock |-> in.block,
                 output |-> out, auth |-> {who},
                 deps |-> {x.name : x \in ToSet(d)} \cap Channel,
                 headers |-> ToSet(h), header0 |-> IF h = <<>> THEN 0 ELSE h[1]]
<1> DEFINE ins == i \o Times(more, Wallet(who))
           sk  == Sk(d, h, ins, Append(o, WalletCell(who)), w)
<1>1. /\ sk.inputs = ins /\ sk.outputs = Append(o, WalletCell(who))
      /\ sk.deps = d /\ sk.headers = h
  BY DEF Sk
<1> HIDE DEF sk
<1>2. GroupInput(sk) = in /\ InputOwners(sk) = {who}
  BY <1>1, ReadInputs
<1>3. FindOpticrum(sk) = out
  BY <1>1, ReadOutput
<1>4. DepChannels(sk) = {x.name : x \in ToSet(d)} \cap Channel
  BY <1>1 DEF DepChannels
<1>5. FirstHeader(sk) = IF h = <<>> THEN 0 ELSE h[1]
  BY <1>1 DEF FirstHeader
<1> QED
  BY <1>1, <1>2, <1>3, <1>4, <1>5 DEF ReadBy, sk

-----------------------------------------------------------------------------
(* Cells on the chain.                                                      *)

LEMMA ParsedOrder ==
    ASSUME NEW c \in OrderCell
    PROVE  Parsed(OnChain(c)) = c /\ IsOpticrum(OnChain(c))
BY DEF OrderCell, Parsed, OnChain, IsOrder, OrderLock, OrderData, IsOpticrum

LEMMA ParsedMatch ==
    ASSUME NEW c \in MatchCell
    PROVE  Parsed(OnChain(c)) = c /\ IsOpticrum(OnChain(c))
BY DEF MatchCell, Parsed, OnChain, IsOrder, MatchLock, MatchData, IsOpticrum

-----------------------------------------------------------------------------
(* The stacks.                                                              *)

LEMMA DepsRead ==
    ASSUME NEW d
    PROVE  /\ ToSet(d) \subseteq {Contract, Sighash, XudtCode} =>
                 {x.name : x \in ToSet(d)} \cap Channel = {}
           /\ \A c \in Channel : ToSet(d) = {Sighash, Contract, ChannelDep(c)} =>
                 {x.name : x \in ToSet(d)} \cap Channel = {c}
<1>1. \A dep \in {Contract, Sighash, XudtCode} : dep.name \notin Channel
  BY AssemblyAssumption
<1>2. \A c : ChannelDep(c).name = c
  BY DEF ChannelDep
<1> QED
  BY <1>1, <1>2

LEMMA TwoDeps ==
    ASSUME NEW a, NEW b
    PROVE  /\ IsSeq(Append(Append(None, a), b))
           /\ ToSet(Append(Append(None, a), b)) = {a, b}
<1>1. IsSeq(None) /\ ToSet(None) = {}
  BY ReadNone DEF None
<1>2. IsSeq(Append(None, a)) /\ ToSet(Append(None, a)) = {a}
  BY <1>1, ToSetAppend
<1> QED
  BY <1>2, ToSetAppend

LEMMA AtPair ==
    ASSUME NEW a, NEW b
    PROVE  LET s == Append(Append(None, a), b)
           IN  At(s, 0) = a /\ At(s, Newest) = b /\ At(Append(None, a), Newest) = a
<1>1. Append(None, a) = <<a>> /\ Append(Append(None, a), b) = <<a, b>>
  BY Longer, Zenon DEF None
<1>2. At(<<a, b>>, 0) = a /\ At(<<a, b>>, Newest) = b /\ At(<<a>>, Newest) = a
  BY DEF At, Newest, Last
<1> QED
  BY <1>1, <1>2

(* A transaction that was prepared before its instruction, as it is read.   *)
LEMMA PreparedReads ==
    ASSUME NEW ops, IsSeq(ops), NEW d, NEW h, NEW i, NEW o,
           Perform(Sk(Append(None, Sighash), None, None, None, None), ops)
              = Sk(d, h, i, o, Append(Append(None, NoText), NoText)),
           NEW in, IsOpticrum(in.cell), NEW who, NEW more \in Nat,
           Pair(i, in, who), NEW out, Shown(o, out)
    PROVE  ReadBy(Assemble(Prepare \o ops \o Balance(who, more)))
              = [outpoint |-> in.outpoint, input |-> Parsed(in.cell), inputBlock |-> in.block,
                 output |-> out, auth |-> {who},
                 deps |-> {x.name : x \in ToSet(d)} \cap Channel,
                 headers |-> ToSet(h), header0 |-> IF h = <<>> THEN 0 ELSE h[1]]
<1> DEFINE w == Append(Append(None, NoText), NoText)
           S == {in, Wallet(who)}
<1>1. i \in Seq(S)
  <2>1. <<in, Wallet(who)>> \in Seq(S) /\ <<Wallet(who), in>> \in Seq(S)
    OBVIOUS
  <2> QED
    BY <2>1, Zenon DEF Pair
<1>2. w \in Seq({NoText})
  <2>1. w = <<NoText, NoText>>
    BY Longer, Zenon DEF None
  <2> QED
    BY <2>1
<1>3. WalletCellInput(who) \in S
  BY DEF Wallet
<1> HIDE DEF w, S
<1>4. Perform(Sk(Append(<<>>, Sighash), <<>>, <<>>, <<>>, <<>>), ops) = Sk(d, h, i, o, w)
  BY DEF None, w
<1>5. Assemble(Prepare \o ops \o Balance(who, more))
         = Sk(d, h, i \o Times(more, Wallet(who)), Append(o, WalletCell(who)),
              w \o Times(more, NoText))
  BY <1>1, <1>2, <1>3, <1>4, AssemblePrepared DEF Wallet
<1> QED
  BY <1>5, ReadBalanced

(* A match whose clock, amount and capacity change.                         *)
MatchWith(c, last, amount, capacity) ==
    [branch |-> "Match", orderArgs |-> c.orderArgs, channel |-> c.channel,
     seller |-> c.seller, amount |-> amount, rate |-> c.rate, last |-> last,
     capacity |-> capacity, token |-> c.token]

Extracted(c, last, amount, capacity) ==
    [c EXCEPT !.last = last, !.amount = amount, !.capacity = capacity]
Updated(c, amount, capacity) == [c EXCEPT !.amount = amount, !.capacity = capacity]

LEMMA MatchOf ==
    ASSUME NEW c \in MatchCell, NEW last, NEW amount, NEW capacity
    PROVE  Extracted(c, last, amount, capacity) = MatchWith(c, last, amount, capacity)
<1> USE DEF Extracted
<1> DEFINE b == Extracted(c, last, amount, capacity)
<1>1. b \in [branch: {"Match"}, orderArgs: OrderArgs, channel: Channel,
              seller: Party, amount: {amount}, rate: U64, last: {last},
              capacity: {capacity}, token: Types]
  BY DEF MatchCell
<1>2. /\ b.branch = "Match" /\ b.orderArgs = c.orderArgs /\ b.channel = c.channel
      /\ b.seller = c.seller /\ b.amount = amount /\ b.rate = c.rate /\ b.last = last
      /\ b.capacity = capacity /\ b.token = c.token
  BY DEF MatchCell
<1> HIDE DEF b
<1>3. b = [branch |-> b.branch, orderArgs |-> b.orderArgs, channel |-> b.channel,
           seller |-> b.seller, amount |-> b.amount, rate |-> b.rate, last |-> b.last,
           capacity |-> b.capacity, token |-> b.token]
  BY <1>1
<1> QED
  BY <1>2, <1>3 DEF b, MatchWith

LEMMA MatchKept ==
    ASSUME NEW c \in MatchCell, NEW amount, NEW capacity
    PROVE  Updated(c, amount, capacity) = MatchWith(c, c.last, amount, capacity)
<1> USE DEF Updated
<1> DEFINE b == Updated(c, amount, capacity)
<1>1. b \in [branch: {"Match"}, orderArgs: OrderArgs, channel: Channel,
              seller: Party, amount: {amount}, rate: U64, last: U64,
              capacity: {capacity}, token: Types]
  BY DEF MatchCell
<1>2. /\ b.branch = "Match" /\ b.orderArgs = c.orderArgs /\ b.channel = c.channel
      /\ b.seller = c.seller /\ b.amount = amount /\ b.rate = c.rate /\ b.last = c.last
      /\ b.capacity = capacity /\ b.token = c.token
  BY DEF MatchCell
<1> HIDE DEF b
<1>3. b = [branch |-> b.branch, orderArgs |-> b.orderArgs, channel |-> b.channel,
           seller |-> b.seller, amount |-> b.amount, rate |-> b.rate, last |-> b.last,
           capacity |-> b.capacity, token |-> b.token]
  BY <1>1
<1> QED
  BY <1>2, <1>3 DEF b, MatchWith

LEMMA DerivedMatch ==
    ASSUME NEW c \in MatchCell, NEW amount, NEW last, NEW adjust, NEW index
    PROVE  LET data == [amount |-> amount, rate |-> c.rate, last |-> last]
               cell == Derived(OnChain(c), OutputOfInput(index, Keep, data, adjust))
           IN  /\ IsOpticrum(cell)
               /\ Parsed(cell) = MatchWith(c, last, amount, c.capacity + adjust)
<1> DEFINE data == [amount |-> amount, rate |-> c.rate, last |-> last]
           old  == OnChain(c)
           op   == OutputOfInput(index, Keep, data, adjust)
           cell == Derived(old, op)
<1>1. /\ old.lock = MatchLock(c) /\ old.type = c.token /\ old.capacity = c.capacity
  BY DEF OnChain, IsOrder, MatchCell
<1>2. op.lock = Keep /\ op.data = data /\ op.adjust = adjust
  BY DEF OutputOfInput
<1> HIDE DEF old, op
<1>3. cell = [lock |-> MatchLock(c), type |-> c.token, data |-> data,
              capacity |-> c.capacity + adjust]
  BY <1>1, <1>2 DEF Derived
<1> HIDE DEF cell
<1>4. IsOpticrum(cell) /\ Parsed(cell) = MatchWith(c, last, amount, c.capacity + adjust)
  BY <1>3 DEF MatchWith, Parsed, MatchLock, IsOpticrum
<1> QED
  BY <1>4 DEF cell, op, old

LEMMA UpdateReads ==
    ASSUME NEW info, info.cell \in MatchCell, NEW who, NEW more \in Nat, NEW delta
    PROVE  ReadBy(Assemble(UpdateStack(info, who, delta, more)))
              = UpdateMatchTx(info, who, info.cell.amount, delta)
<1> DEFINE c    == info.cell
           in   == CellInput(info)
           ops  == UpdateMatchOps(who, in, MatchData(c), delta)
           new  == [c EXCEPT !.amount = c.amount, !.capacity = @ + delta]
           op   == OutputOfInput(0, Keep, MatchData(c), delta)
           i    == Append(Append(None, in), Wallet(who))
           d    == Append(Append(None, Sighash), Contract)
           cell == Derived(in.cell, op)
<1>1. /\ in.cell = OnChain(c) /\ in.block = info.currentBlock /\ in.outpoint = info.outpoint
      /\ Parsed(in.cell) = c /\ IsOpticrum(in.cell)
  BY ParsedMatch DEF CellInput
<1>2. IsOpticrum(cell) /\ Parsed(cell) = new
  <2>4. IsOpticrum(cell) /\ Parsed(cell) = MatchWith(c, c.last, c.amount, c.capacity + delta)
    BY <1>1, DerivedMatch DEF MatchData
  <2>5. new = Updated(c, c.amount, c.capacity + delta)
    BY DEF MatchCell, Updated
  <2> HIDE DEF new
  <2> QED
    BY <2>4, <2>5, MatchKept
<1>3. {x.name : x \in ToSet(d)} \cap Channel = {}
  BY TwoDeps, DepsRead
<1>4. Shown(Append(None, cell), new)
  BY <1>2, ShownOf, Zenon DEF None
<1>5. Pair(i, in, who)
  BY PairOf, Zenon DEF None
<1>6. At(i, 0) = in
  BY AtPair
<1>7. /\ IsSeq(ops)
      /\ Perform(Sk(Append(None, Sighash), None, None, None, None), ops)
            = Sk(d, None, i, Append(None, Derived(At(i, 0).cell, op)),
                 Append(Append(None, NoText), NoText))
  BY UpdateMakes DEF Wallet
<1>8. ToSet(None) = {} /\ None = <<>>
  BY ReadNone DEF None
<1> HIDE DEF in, ops, d, i, op
<1>9. ReadBy(Assemble(Prepare \o ops \o Balance(who, more)))
         = [outpoint |-> in.outpoint, input |-> Parsed(in.cell), inputBlock |-> in.block,
            output |-> new, auth |-> {who},
            deps |-> {x.name : x \in ToSet(d)} \cap Channel,
            headers |-> ToSet(None), header0 |-> IF None = <<>> THEN 0 ELSE None[1]]
  BY <1>1, <1>4, <1>5, <1>6, <1>7, PreparedReads
<1> QED
  BY <1>1, <1>3, <1>8, <1>9 DEF UpdateStack, UpdateMatchTx, Built, ops, in

(* What a seller's headers make: the tip first, then the creation header if *)
(* there is one.                                                            *)
Clock(t, b, first) == IF first THEN Append(Append(None, t), b) ELSE Append(None, t)

LEMMA ClockRead ==
    ASSUME NEW t, NEW b, NEW first \in BOOLEAN
    PROVE  /\ ToSet(Clock(t, b, first)) = {t} \cup (IF first THEN {b} ELSE {})
           /\ Clock(t, b, first) # <<>> /\ Clock(t, b, first)[1] = t
<1>1. /\ ToSet(Append(None, t)) = {t} /\ Append(None, t)[1] = t
      /\ Append(None, t) # <<>>
      /\ ToSet(Append(Append(None, t), b)) = {t, b} /\ Append(Append(None, t), b)[1] = t
      /\ Append(Append(None, t), b) # <<>>
  <2>1. Append(None, t) = <<t>> /\ Append(Append(None, t), b) = <<t, b>>
    BY Longer, Zenon DEF None
  <2>2. ToSet(Append(None, t)) = {t}
    BY ReadNone, ToSetAppend DEF None
  <2>3. ToSet(Append(Append(None, t), b)) = {t, b}
    BY TwoDeps
  <2> QED
    BY <2>1, <2>2, <2>3
<1>2. CASE first
  BY <1>1, <1>2 DEF Clock
<1>3. CASE ~first
  BY <1>1, <1>3 DEF Clock
<1> QED
  BY <1>2, <1>3

LEMMA ThreeDeps ==
    ASSUME NEW a, NEW b, NEW c
    PROVE  /\ IsSeq(Append(Append(Append(None, a), b), c))
           /\ ToSet(Append(Append(Append(None, a), b), c)) = {a, b, c}
           /\ At(Append(Append(Append(None, a), b), c), Newest) = c
<1>1. /\ IsSeq(Append(Append(Append(None, a), b), c))
      /\ ToSet(Append(Append(Append(None, a), b), c)) = {a, b, c}
  BY TwoDeps, ToSetAppend
<1>2. Append(Append(Append(None, a), b), c) = <<a, b, c>>
  <2>1. Append(Append(None, a), b) = <<a, b>>
    BY Longer, Zenon DEF None
  <2> QED
    BY <2>1, Longer
<1>3. At(<<a, b, c>>, Newest) = c
  BY DEF At, Newest, Last
<1> QED
  BY <1>1, <1>2, <1>3

(* The rent of a match that still has value.                                *)
LEMMA ExtractReads ==
    ASSUME NEW info, info.cell \in MatchCell, info.currentBlock \in Nat, NEW who,
           NEW t \in Nat, NEW more \in Nat, ~InfoIsExhausted(info, t)
    PROVE  ReadBy(Assemble(ExtractStack(info, who, t, more))) = ExtractTx(info, who, t)
<1> DEFINE c     == info.cell
           in    == CellInput(info)
           chan  == ChannelDep(c.channel)
           first == c.last = 0
           rent  == ExtractionAmount(info, t)
           left  == IF HasXudt(c) THEN Monus(c.amount, rent) ELSE 0
           data  == [amount |-> left, rate |-> c.rate, last |-> t]
           out   == IF HasXudt(c) THEN 0 ELSE rent
           ops   == ExtractRentOps(who, in, chan, t, first, data, out)
           op    == OutputOfInput(Newest, Keep, data, -out)
           new   == [c EXCEPT !.last = t,
                              !.amount = IF c.token = NoToken THEN 0 ELSE Monus(@, rent),
                              !.capacity = IF c.token = NoToken THEN @ - rent ELSE @]
           i     == Append(Append(None, Wallet(who)), in)
           h     == Clock(t, in.block, first)
           d     == Append(Append(Append(None, Sighash), Contract), chan)
           cell  == Derived(in.cell, op)
<1>0. c \in MatchCell /\ c.channel \in Channel /\ c.capacity \in Int /\ rent \in Int
  <2>1. c.rate \in Nat /\ c.last \in Nat /\ c.capacity \in Nat /\ c.channel \in Channel
    BY VerifierAssumption DEF MatchCell, U64
  <2>2. \A b \in Nat : Monus(t, b) \in Nat
    BY DEF Monus
  <2> QED
    BY <2>1, <2>2 DEF ExtractionAmount
<1>1. /\ in.cell = OnChain(c) /\ in.block = info.currentBlock /\ in.outpoint = info.outpoint
      /\ Parsed(in.cell) = c /\ IsOpticrum(in.cell)
  BY ParsedMatch DEF CellInput
<1>2. IsOpticrum(cell) /\ Parsed(cell) = new
  <2>1. IsOpticrum(cell) /\ Parsed(cell) = MatchWith(c, t, left, c.capacity + -out)
    BY <1>1, DerivedMatch
  <2>2. new = Extracted(c, t, left, c.capacity + -out)
    <3>1. CASE HasXudt(c)
      <4>1. c.token # NoToken /\ out = 0 /\ left = Monus(c.amount, rent)
        BY <3>1 DEF HasXudt
      <4>2. new = Extracted(c, t, Monus(c.amount, rent), c.capacity)
        <5> HIDE DEF rent
        <5> QED
          BY <4>1 DEF Extracted, MatchCell
      <4>3. c.capacity + -0 = c.capacity
        BY <1>0
      <4> QED
        BY <4>1, <4>2, <4>3
    <3>2. CASE ~HasXudt(c)
      <4>1. c.token = NoToken /\ out = rent /\ left = 0
        BY <3>2 DEF HasXudt
      <4>2. new = Extracted(c, t, 0, c.capacity - rent)
        <5> HIDE DEF rent
        <5> QED
          BY <4>1 DEF Extracted, MatchCell
      <4>3. c.capacity + -rent = c.capacity - rent
        <5> HIDE DEF rent
        <5> QED
          BY <1>0
      <4> QED
        BY <4>1, <4>2, <4>3
    <3> QED
      BY <3>1, <3>2
  <2> HIDE DEF new, left, out, cell
  <2> QED
    BY <1>0, <2>1, <2>2, MatchOf
<1>3. {x.name : x \in ToSet(d)} \cap Channel = {c.channel}
  <2>1. ToSet(d) = {Sighash, Contract, chan}
    BY ThreeDeps
  <2> QED
    BY <1>0, <2>1, DepsRead
<1>4. Shown(Append(None, cell), new)
  <2> HIDE DEF cell, new
  <2> QED
    BY <1>2, ShownOf, Zenon DEF None
<1>5. Pair(i, in, who)
  BY PairOf, Zenon DEF None
<1>6. At(i, Newest) = in
  BY AtPair
<1>7. first \in BOOLEAN
  OBVIOUS
<1>8. /\ IsSeq(ops)
      /\ Perform(Sk(Append(None, Sighash), None, None, None, None), ops)
            = Sk(d, IF first THEN Append(Append(None, t), At(i, Newest).block)
                    ELSE Append(None, t),
                 i, Append(None, Derived(At(i, Newest).cell, op)),
                 Append(Append(None, NoText), NoText))
  <2> HIDE DEF first, data, out
  <2> QED
    BY <1>7, ExtractMakes DEF Wallet
<1>9. /\ ToSet(h) = {t} \cup (IF first THEN {info.currentBlock} ELSE {})
      /\ (IF h = <<>> THEN 0 ELSE h[1]) = t
  <2>1. /\ ToSet(h) = {t} \cup (IF first THEN {in.block} ELSE {})
        /\ h # <<>> /\ h[1] = t
    <3> HIDE DEF first, in
    <3> QED
      BY <1>7, ClockRead, Zenon
  <2> QED
    BY <1>1, <2>1
<1> HIDE DEF in, ops, d, i, op, new, data
<1>10. /\ IsSeq(ops)
       /\ Perform(Sk(Append(None, Sighash), None, None, None, None), ops)
             = Sk(d, h, i, Append(None, cell), Append(Append(None, NoText), NoText))
  BY <1>6, <1>8 DEF Clock
<1> HIDE DEF h, cell
<1>11. ReadBy(Assemble(Prepare \o ops \o Balance(who, more)))
         = [outpoint |-> in.outpoint, input |-> Parsed(in.cell), inputBlock |-> in.block,
            output |-> new, auth |-> {who},
            deps |-> {x.name : x \in ToSet(d)} \cap Channel,
            headers |-> ToSet(h), header0 |-> IF h = <<>> THEN 0 ELSE h[1]]
  BY <1>1, <1>4, <1>5, <1>10, PreparedReads
<1>12. ExtractStack(info, who, t, more) = Prepare \o ops \o Balance(who, more)
  BY DEF ExtractStack, ops, in, data
<1>13. ExtractTx(info, who, t) = Built(info, new, who, {c.channel}, ClockHeaders(info, t), t)
  BY DEF ExtractTx, new
<1>14. ClockHeaders(info, t) = ToSet(h)
  BY <1>9 DEF ClockHeaders
<1> QED
  BY <1>1, <1>3, <1>9, <1>11, <1>12, <1>13, <1>14 DEF Built

(* A cell that goes back under a lock of its owner.                         *)
LEMMA DerivedWallet ==
    ASSUME NEW old, NEW who, NEW index, NEW data, NEW adjust
    PROVE  ~IsOpticrum(Derived(old, OutputOfInput(index, WalletLock(who), data, adjust)))
<1> DEFINE op == OutputOfInput(index, WalletLock(who), data, adjust)
<1>1. op.lock = WalletLock(who)
  BY DEF OutputOfInput
<1>2. WalletLock(who) # Keep /\ WalletLock(who).branch = "Wallet"
  BY DEF WalletLock, Keep
<1> HIDE DEF op
<1>3. Derived(old, op).lock = WalletLock(who)
  BY <1>1, <1>2 DEF Derived
<1>4. ~IsOpticrum(Derived(old, op))
  BY <1>2, <1>3 DEF IsOpticrum
<1> QED
  BY <1>4 DEF op

(* The end of an exhausted match.                                           *)
LEMMA DestroyReads ==
    ASSUME NEW info, info.cell \in MatchCell, NEW who, NEW t, NEW more \in Nat,
           InfoIsExhausted(info, t)
    PROVE  ReadBy(Assemble(ExtractStack(info, who, t, more))) = DestroyMatchTx(info, who, t)
<1> DEFINE c     == info.cell
           in    == CellInput(info)
           first == c.last = 0
           xudt  == HasXudt(c)
           data  == IF HasXudt(c) THEN c.amount ELSE <<>>
           ops   == DestroyMatchOps(who, in, t, first, xudt, data)
           op    == OutputOfInput(0, WalletLock(who), data, 0)
           i     == Append(Append(None, in), Wallet(who))
           h     == Clock(t, in.block, first)
           two   == Append(Append(None, Sighash), Contract)
           d     == IF xudt THEN Append(two, XudtCode) ELSE two
           cell  == Derived(in.cell, op)
<1>1. /\ in.cell = OnChain(c) /\ in.block = info.currentBlock /\ in.outpoint = info.outpoint
      /\ Parsed(in.cell) = c /\ IsOpticrum(in.cell)
  BY ParsedMatch DEF CellInput
<1>2. first \in BOOLEAN /\ xudt \in BOOLEAN
  BY DEF HasXudt
<1>3. {x.name : x \in ToSet(d)} \cap Channel = {}
  <2>1. ToSet(two) = {Sighash, Contract} /\ ToSet(Append(two, XudtCode)) = {Sighash, Contract, XudtCode}
    BY TwoDeps, ThreeDeps
  <2>2. ToSet(d) \subseteq {Contract, Sighash, XudtCode}
    <3> HIDE DEF two, xudt
    <3> QED
      BY <2>1
  <2> QED
    BY <2>2, DepsRead
<1>4. Shown(Append(None, cell), NoCell)
  <2>1. ~IsOpticrum(cell)
    BY DerivedWallet
  <2> HIDE DEF cell
  <2> QED
    BY <2>1, ShownOf, Zenon DEF None
<1>5. Pair(i, in, who)
  BY PairOf, Zenon DEF None
<1>6. At(i, 0) = in
  BY AtPair
<1>7. /\ IsSeq(ops)
      /\ Perform(Sk(Append(None, Sighash), None, None, None, None), ops)
            = Sk(d, h, i, Append(None, Derived(At(i, 0).cell, op)),
                 Append(Append(None, NoText), NoText))
  <2> HIDE DEF first, xudt, data, in
  <2> QED
    BY <1>2, DestroyMakes DEF Wallet, Clock
<1>8. /\ ToSet(h) = {t} \cup (IF first THEN {info.currentBlock} ELSE {})
      /\ (IF h = <<>> THEN 0 ELSE h[1]) = t
  <2>1. /\ ToSet(h) = {t} \cup (IF first THEN {in.block} ELSE {})
        /\ h # <<>> /\ h[1] = t
    <3> HIDE DEF first, in
    <3> QED
      BY <1>2, ClockRead, Zenon
  <2> QED
    BY <1>1, <2>1
<1> HIDE DEF in, ops, d, i, op, data
<1>9. /\ IsSeq(ops)
      /\ Perform(Sk(Append(None, Sighash), None, None, None, None), ops)
            = Sk(d, h, i, Append(None, cell), Append(Append(None, NoText), NoText))
  BY <1>6, <1>7
<1> HIDE DEF h, cell
<1>10. ReadBy(Assemble(Prepare \o ops \o Balance(who, more)))
         = [outpoint |-> in.outpoint, input |-> Parsed(in.cell), inputBlock |-> in.block,
            output |-> NoCell, auth |-> {who},
            deps |-> {x.name : x \in ToSet(d)} \cap Channel,
            headers |-> ToSet(h), header0 |-> IF h = <<>> THEN 0 ELSE h[1]]
  BY <1>1, <1>4, <1>5, <1>9, PreparedReads
<1>11. ExtractStack(info, who, t, more) = Prepare \o ops \o Balance(who, more)
  BY DEF ExtractStack, DestroyOps, ops, in, data
<1>12. ClockHeaders(info, t) = ToSet(h)
  BY <1>8 DEF ClockHeaders
<1> QED
  BY <1>1, <1>3, <1>8, <1>10, <1>11, <1>12 DEF DestroyMatchTx, Built

(* The cancellation of an order.                                            *)
LEMMA CancelReads ==
    ASSUME NEW info, info.cell \in OrderCell, NEW who, NEW more \in Nat
    PROVE  ReadBy(Assemble(CancelStack(info, who, more))) = CancelOrderTx(info, who)
<1> DEFINE c    == info.cell
           in   == CellInput(info)
           xudt == HasXudt(c)
           back == [WalletCell(who) EXCEPT !.type = in.cell.type]
           ops  == CancelOrderOps(who, in, xudt)
           i    == Append(Append(None, in), Wallet(who))
           two  == Append(Append(None, Sighash), Contract)
           d    == IF xudt THEN Append(two, XudtCode) ELSE two
           o    == IF xudt THEN Append(None, back) ELSE None
<1>1. /\ in.cell = OnChain(c) /\ in.block = info.currentBlock /\ in.outpoint = info.outpoint
      /\ Parsed(in.cell) = c /\ IsOpticrum(in.cell)
  BY ParsedOrder DEF CellInput
<1>2. xudt \in BOOLEAN
  BY DEF HasXudt
<1>3. {x.name : x \in ToSet(d)} \cap Channel = {}
  <2>1. ToSet(two) = {Sighash, Contract} /\ ToSet(Append(two, XudtCode)) = {Sighash, Contract, XudtCode}
    BY TwoDeps, ThreeDeps
  <2>2. ToSet(d) \subseteq {Contract, Sighash, XudtCode}
    <3> HIDE DEF two, xudt
    <3> QED
      BY <2>1
  <2> QED
    BY <2>2, DepsRead
<1>4. Shown(o, NoCell)
  <2>1. ~IsOpticrum(back)
    BY DEF IsOpticrum, WalletCell, WalletLock
  <2> HIDE DEF back, xudt
  <2>2. Shown(None, NoCell) /\ Shown(Append(None, back), NoCell)
    BY <2>1, ShownOf, Zenon DEF None
  <2> QED
    BY <2>2
<1>5. Pair(i, in, who)
  BY PairOf, Zenon DEF None
<1>6. /\ IsSeq(ops)
      /\ Perform(Sk(Append(None, Sighash), None, None, None, None), ops)
            = Sk(d, None, i, o, Append(Append(None, NoText), NoText))
  <2> HIDE DEF xudt, in
  <2> QED
    BY <1>2, CancelMakes DEF Wallet
<1>7. ToSet(None) = {} /\ None = <<>>
  BY ReadNone DEF None
<1> HIDE DEF in, ops, d, i, o
<1>8. ReadBy(Assemble(Prepare \o ops \o Balance(who, more)))
         = [outpoint |-> in.outpoint, input |-> Parsed(in.cell), inputBlock |-> in.block,
            output |-> NoCell, auth |-> {who},
            deps |-> {x.name : x \in ToSet(d)} \cap Channel,
            headers |-> ToSet(None), header0 |-> IF None = <<>> THEN 0 ELSE None[1]]
  BY <1>1, <1>4, <1>5, <1>6, PreparedReads
<1> QED
  BY <1>1, <1>3, <1>7, <1>8 DEF CancelStack, CancelOrderTx, Built, ops, in

(* A match completes the transaction after its instruction.                 *)
LEMMA MatchReads ==
    ASSUME NEW info, info.cell \in OrderCell, NEW who, NEW more \in Nat, NEW c \in Channel
    PROVE  ReadBy(Assemble(MatchStack(info, who, c, more))) = MatchOrderTx(info, who, c)
<1> DEFINE order == info.cell
           in    == CellInput(info)
           chan  == ChannelDep(c)
           new   == [branch |-> "Match", orderArgs |-> order.orderArgs,
                     channel |-> c, seller |-> who,
                     amount |-> IF order.token = NoToken THEN 0 ELSE order.amount,
                     rate |-> order.rate, last |-> 0,
                     capacity |-> MatchCapacity(order), token |-> order.token]
           ops   == MatchOrderOps(who, in, chan, MatchLock(new), MatchData(new), Reserve)
           op    == OutputOfInput(0, MatchLock(new), MatchData(new), Reserve)
           i     == Append(Append(None, in), Wallet(who))
           d     == Append(Append(None, Contract), chan)
           h     == Append(Append(None, chan.block), in.block)
           w     == Append(Append(None, NoText), NoText)
           cell  == Derived(in.cell, op)
           d3    == Append(d, Sighash)
<1>1. /\ in.cell = OnChain(order) /\ in.block = info.currentBlock
      /\ in.outpoint = info.outpoint /\ Parsed(in.cell) = order /\ IsOpticrum(in.cell)
  BY ParsedOrder DEF CellInput
<1>2. IsOpticrum(cell) /\ Parsed(cell) = new
  <2>1. in.cell.type = order.token /\ in.cell.capacity = order.capacity
    BY <1>1 DEF OnChain
  <2>2. op.lock = MatchLock(new) /\ op.data = MatchData(new) /\ op.adjust = Reserve
    BY DEF OutputOfInput
  <2>3. MatchLock(new) # Keep
    BY DEF MatchLock, Keep
  <2> HIDE DEF in, op
  <2>4. cell = [lock |-> MatchLock(new), type |-> order.token, data |-> MatchData(new),
                capacity |-> order.capacity + Reserve]
    BY <2>1, <2>2, <2>3 DEF Derived
  <2> HIDE DEF cell
  <2> QED
    BY <2>4 DEF Parsed, MatchLock, MatchData, IsOpticrum, MatchCapacity
<1> HIDE DEF new
<1>3. {x.name : x \in ToSet(d3)} \cap Channel = {c}
  <2>1. ToSet(d3) = {Contract, chan, Sighash}
    BY ThreeDeps
  <2>2. {Contract, chan, Sighash} = {Sighash, Contract, chan}
    OBVIOUS
  <2> QED
    BY <2>1, <2>2, DepsRead
<1>4. Shown(Append(None, cell), new)
  <2> HIDE DEF cell, new
  <2> QED
    BY <1>2, ShownOf, Zenon DEF None
<1>5. Pair(i, in, who)
  BY PairOf, Zenon DEF None
<1>6. At(i, 0) = in /\ At(d, Newest) = chan /\ At(Append(None, in), Newest) = in
  BY AtPair
<1>7. /\ IsSeq(ops)
      /\ Perform(Sk(None, None, None, None, None), ops)
            = Sk(d, Append(Append(None, At(d, Newest).block), At(Append(None, in), Newest).block),
                 i, Append(None, Derived(At(i, 0).cell, op)), w)
  <2> HIDE DEF in, chan
  <2> QED
    BY MatchMakes DEF Wallet
<1>8. /\ ToSet(h) = {chan.block, in.block} /\ h # <<>> /\ h[1] = chan.block
  <2>1. Clock(chan.block, in.block, TRUE) = h
    BY DEF Clock
  <2> HIDE DEF h, chan, in
  <2>2. /\ ToSet(Clock(chan.block, in.block, TRUE))
              = {chan.block} \cup (IF TRUE THEN {in.block} ELSE {})
        /\ Clock(chan.block, in.block, TRUE) # <<>>
        /\ Clock(chan.block, in.block, TRUE)[1] = chan.block
    BY ClockRead
  <2> QED
    BY <2>1, <2>2
<1> DEFINE S  == {in, Wallet(who)}
           o  == Append(None, cell)
<1>9. i \in Seq(S) /\ w \in Seq({NoText}) /\ WalletCellInput(who) \in S
  <2>1. i = <<in, Wallet(who)>> /\ w = <<NoText, NoText>>
    BY Longer, Zenon DEF None
  <2>2. <<in, Wallet(who)>> \in Seq(S) /\ <<NoText, NoText>> \in Seq({NoText})
    OBVIOUS
  <2>3. WalletCellInput(who) \in S
    BY DEF Wallet
  <2> HIDE DEF S, i, w
  <2> QED
    BY <2>1, <2>2, <2>3
<1> HIDE DEF in, ops, d, i, op, S
<1>10. /\ IsSeq(ops)
       /\ Perform(Sk(None, None, None, None, None), ops) = Sk(d, h, i, o, w)
  BY <1>6, <1>7
<1> HIDE DEF h, cell, o, w
<1>11. /\ IsSeq(Prepare)
       /\ Perform(Sk(d, h, i, o, w), Prepare) = Sk(d3, h, i, o, w)
  BY PerformPrepare
<1> HIDE DEF d3
<1>12. /\ IsSeq(ops \o Prepare)
       /\ Perform(Sk(None, None, None, None, None), ops \o Prepare) = Sk(d3, h, i, o, w)
  BY <1>10, <1>11, PerformThen
<1>13. /\ IsSeq(Balance(who, more))
       /\ Perform(Sk(d3, h, i, o, w), Balance(who, more))
             = Sk(d3, h, i \o Times(more, Wallet(who)), Append(o, WalletCell(who)),
                  w \o Times(more, NoText))
  BY <1>9, PerformBalance DEF Wallet
<1>14. Perform(Sk(None, None, None, None, None), (ops \o Prepare) \o Balance(who, more))
          = Sk(d3, h, i \o Times(more, Wallet(who)), Append(o, WalletCell(who)),
               w \o Times(more, NoText))
  BY <1>12, <1>13, PerformThen
<1>15. NewSkeleton = Sk(None, None, None, None, None)
  BY DEF NewSkeleton, Sk, None
<1>16. Assemble(ops \o Prepare \o Balance(who, more))
          = Sk(d3, h, i \o Times(more, Wallet(who)), Append(o, WalletCell(who)),
               w \o Times(more, NoText))
  BY <1>14, <1>15 DEF Assemble
<1>17. Shown(o, new)
  BY <1>4 DEF o
<1> DEFINE done == w \o Times(more, NoText)
<1> HIDE DEF done
<1>18. Assemble(ops \o Prepare \o Balance(who, more))
          = Sk(d3, h, i \o Times(more, Wallet(who)), Append(o, WalletCell(who)), done)
  BY <1>16 DEF done
<1>19. ReadBy(Sk(d3, h, i \o Times(more, Wallet(who)), Append(o, WalletCell(who)), done))
         = [outpoint |-> in.outpoint, input |-> Parsed(in.cell), inputBlock |-> in.block,
            output |-> new, auth |-> {who},
            deps |-> {x.name : x \in ToSet(d3)} \cap Channel,
            headers |-> ToSet(h), header0 |-> IF h = <<>> THEN 0 ELSE h[1]]
  BY <1>1, <1>5, <1>17, ReadBalanced
<1>20. MatchOrderTx(info, who, c)
          = Built(info, new, who, {c}, {channels[c].block, info.currentBlock}, channels[c].block)
  BY DEF MatchOrderTx, new
<1>21. MatchOrderTx(info, who, c).output = new
  BY <1>20 DEF Built
<1>22. MatchStack(info, who, c, more) = ops \o Prepare \o Balance(who, more)
  BY <1>21 DEF MatchStack, ops, in
<1>23. chan.block = channels[c].block
  BY DEF ChannelDep
<1> QED
  BY <1>1, <1>3, <1>8, <1>18, <1>19, <1>20, <1>22, <1>23 DEF Built

-----------------------------------------------------------------------------
(* Every stack of every tool assembles what its builder's record says: no   *)
(* operation of another instruction gets between the verifier and the cell, *)
(* the output, the owner, the channel or the headers it reads by position,  *)
(* whatever the number of wallet cells (calculator.rs 233-520, state.rs     *)
(* 119-128).                                                                *)
THEOREM TransactionsAreAssembledAsBuilt == Spec => []AssembledAsBuilt
<1>1. TypeOK => AssembledAsBuilt
  <2> SUFFICES ASSUME TypeOK, NEW e \in Slot, Live(cells[e]),
                      NEW who \in Party, NEW more \in 0..MaxExtra
               PROVE  LET info == CellInfo(e, 1)
                      IN  IF IsOrder(cells[e])
                          THEN /\ ReadBy(Assemble(CancelStack(info, who, more)))
                                     = CancelOrderTx(info, who)
                               /\ \A c \in LiveChannels :
                                     ReadBy(Assemble(MatchStack(info, who, c, more)))
                                        = MatchOrderTx(info, who, c)
                          ELSE /\ \A t \in 0..tip :
                                     ReadBy(Assemble(ExtractStack(info, who, t, more)))
                                        = ExtractRentTx(info, who, t)
                               /\ \A d \in AssemblyDeltas :
                                     ReadBy(Assemble(UpdateStack(info, who, d, more)))
                                        = UpdateMatchTx(info, who, info.cell.amount, d)
    BY DEF AssembledAsBuilt
  <2> DEFINE info == CellInfo(e, 1)
  <2>1. info.cell = cells[e] /\ info.currentBlock = block[e]
    BY DEF CellInfo
  <2>2. /\ IsOrder(cells[e]) => info.cell \in OrderCell
        /\ ~IsOrder(cells[e]) => info.cell \in MatchCell
        /\ info.currentBlock \in Nat
    BY <2>1 DEF TypeOK, Cell, Live, IsOrder, IsMatch, OrderCell, MatchCell, NoCell, Spent
  <2>3. more \in Nat
    BY AssemblyAssumption
  <2> HIDE DEF info
  <2>4. CASE IsOrder(cells[e])
    <3>1. ReadBy(Assemble(CancelStack(info, who, more))) = CancelOrderTx(info, who)
      BY <2>2, <2>3, <2>4, CancelReads
    <3>2. ASSUME NEW c \in LiveChannels
          PROVE  ReadBy(Assemble(MatchStack(info, who, c, more))) = MatchOrderTx(info, who, c)
      <4>1. c \in Channel
        BY DEF LiveChannels
      <4> QED
        BY <2>2, <2>3, <2>4, <4>1, MatchReads
    <3> QED
      BY <2>4, <3>1, <3>2 DEF info
  <2>5. CASE ~IsOrder(cells[e])
    <3>1. ASSUME NEW t \in 0..tip
          PROVE  ReadBy(Assemble(ExtractStack(info, who, t, more))) = ExtractRentTx(info, who, t)
      <4>1. t \in Nat
        BY DEF TypeOK
      <4>2. CASE InfoIsExhausted(info, t)
        BY <2>2, <2>3, <2>5, <4>2, DestroyReads DEF ExtractRentTx
      <4>3. CASE ~InfoIsExhausted(info, t)
        BY <2>2, <2>3, <2>5, <4>1, <4>3, ExtractReads DEF ExtractRentTx
      <4> QED
        BY <4>2, <4>3
    <3>2. ASSUME NEW d \in AssemblyDeltas
          PROVE  ReadBy(Assemble(UpdateStack(info, who, d, more)))
                    = UpdateMatchTx(info, who, info.cell.amount, d)
      BY <2>2, <2>3, <2>5, UpdateReads
    <3> QED
      BY <2>5, <3>1, <3>2 DEF info
  <2> QED
    BY <2>4, <2>5
<1> QED
  BY <1>1, TypeCorrect, PTL
=============================================================================
