---------------------------- MODULE MarketProofs ----------------------------
(***************************************************************************)
(* Theorems about Market, for any terminals, owners, channels, offers and  *)
(* bounds: the tools at work are some of the clients of Escrow, so all     *)
(* that holds there for any client holds under the tools.                  *)
(*                                                                         *)
(* What a run has read and what the pool holds are references to cells     *)
(* that may be gone.  The invariant says what is left of the truth of a    *)
(* reference: its version is not ahead of the lineage, and if the lineage  *)
(* has not moved on, the cell and its block are still the ones it names.   *)
(***************************************************************************)
EXTENDS Market, EscrowProofs

Ref(outpoint, c, b) ==
    LET e == outpoint[1]
        n == outpoint[2]
    IN  /\ e \in Slot /\ n \in 1..MaxVersion
        /\ c \in OrderCell \cup MatchCell
        /\ b \in 0..tip
        /\ n <= version[e]
        /\ n = version[e] /\ Live(cells[e]) => cells[e] = c /\ block[e] = b

Versioned ==
    \A e \in Slot :
        /\ Live(cells[e]) => version[e] \in 1..MaxVersion
        /\ cells[e] = NoCell => version[e] = 0

(* What a run that has scanned knows, and, but for an extraction, whose     *)
(* cell it is.                                                              *)
ScannedRight(r) ==
    LET info == run[r].info
    IN  /\ Ref(info.outpoint, info.cell, info.currentBlock)
        /\ info.ckbCapacity = Unoccupied(info.cell)
        /\ run[r].tipBlock \in 0..tip
        /\ run[r].command \in {"match", "extract"} => r \in SellerTerminal
        /\ run[r].command \in {"match", "cancel"} => IsOrder(info.cell)
        /\ run[r].command \in {"extract", "update"} => IsMatch(info.cell)
        /\ run[r].command = "update" => info.cell.orderArgs.buyer = Owner[r]
        /\ run[r].command = "cancel" => info.cell.orderArgs.buyer = Owner[r]

RunRight(r) ==
    /\ run[r].pc = "tip" => r \in SellerTerminal /\ run[r].tipBlock \in 0..tip
    /\ run[r].pc = "scanned" => ScannedRight(r)

RunsRight == \A r \in Terminal : RunRight(r)

TxRight(tx) ==
    /\ Ref(tx.outpoint, tx.input, tx.inputBlock)
    /\ tx.headers \subseteq 0..tip /\ tx.header0 \in 0..tip
    /\ tx.output # NoCell => tx.outpoint[2] < MaxVersion

PoolRight == \A tx \in pool : TxRight(tx)

MInv == Inv /\ MarketTypeOK /\ Versioned /\ RunsRight /\ PoolRight

-----------------------------------------------------------------------------
(* A transaction of the pool that commits is one any client could submit.   *)

LEMMA PoolCommits ==
    ASSUME Inv, MarketTypeOK, PoolRight, NEW tx \in pool, Include(tx)
    PROVE  \E more : /\ Submitted(tx.outpoint[1], tx.output, more)
                     /\ Commit(tx.outpoint[1], more)
                     /\ MoreDeps(tx, more)
<1> DEFINE e == tx.outpoint[1]
           more == [input |-> cells[e], inputBlock |-> block[e], output |-> tx.output,
                    auth |-> tx.auth, deps |-> LiveChannels, headers |-> 0..tip,
                    header0 |-> tx.header0]
<1>1. tx \in PendingTx /\ TxRight(tx) /\ TypeOK
  BY DEF MarketTypeOK, PoolRight
<1>2. e \in Slot /\ Live(cells[e]) /\ Commit(e, tx)
  BY <1>1 DEF Include, Fresh, TxRight, Ref
<1>3. Resolves(e, tx) /\ Compare(tx.input, tx.output) # "unknown"
  BY <1>2 DEF Commit, CancelOrder, MatchOrder, ExtractRent, UpdateMatch, DestroyMatch
<1>4. MoreDeps(tx, more)
  BY <1>3 DEF MoreDeps, Resolves
<1>5. /\ tx.output \in MatchCell \cup {NoCell} /\ tx.auth \in SUBSET Party
      /\ tx.header0 \in 0..tip
  BY <1>1 DEF PendingTx, TxRight
<1>6. more \in Transactions(e, tx.output)
  BY <1>5 DEF Transactions
<1>7. Submitted(e, tx.output, more)
  BY <1>2, <1>3, <1>5, <1>6 DEF Submitted, Resolves
<1>8. Resolves(e, more)
  BY <1>3 DEF Resolves
<1>9. Spend(e, tx) => Spend(e, more)
  BY DEF Spend
<1>10. /\ OrderCancel(tx) => OrderCancel(more)
       /\ OrderMatch(tx, channels) => OrderMatch(more, channels)
       /\ SellerExtracts(tx) => SellerExtracts(more)
       /\ BuyerUpdates(tx) => BuyerUpdates(more)
       /\ MatchDestroy(tx) => MatchDestroy(more)
  BY <1>4, MoreDepsEach
<1>11. more.input = tx.input /\ more.output = tx.output
  BY <1>3 DEF Resolves
<1> HIDE DEF more, e
<1>12. Commit(e, more)
  BY <1>2, <1>8, <1>9, <1>10, <1>11
     DEF Commit, CancelOrder, MatchOrder, ExtractRent, UpdateMatch, DestroyMatch
<1> QED BY <1>4, <1>7, <1>12 DEF e

(* What a step of the market does to the chain.                             *)
Onward(e) ==
    \/ version'[e] = version[e] /\ cells'[e] = cells[e] /\ block'[e] = block[e]
    \/ version'[e] = version[e] + 1

LEMMA MarketMoves ==
    ASSUME MInv, [MarketNext]_marketVars
    PROVE  [AnyStep]_vars /\ tip' >= tip /\ \A e \in Slot : Onward(e)
<1> USE DEF MInv
<1>0. tip \in Nat /\ TypeOK /\ version \in [Slot -> Nat]
  BY EscrowAssumption, MarketAssumption DEF Inv, TypeOK, MarketTypeOK
<1>1. CASE Outside
  BY <1>0, <1>1 DEF Outside, AnyStep, Mine, OpenChannel, CloseChannel, Onward
<1>2. CASE \E e \in Slot : \E order \in OrderOffers : PlaceOrder(e, order)
  <2>1. PICK e \in Slot : \E order \in OrderOffers : PlaceOrder(e, order)
    BY <1>2
  <2>2. PICK order \in OrderOffers : PlaceOrder(e, order)
    BY <2>1
  <2>3. CreateOrder(e, order) /\ version' = [version EXCEPT ![e] = 1]
    BY <2>2 DEF PlaceOrder
  <2>4. version[e] = 0
    BY <2>3 DEF CreateOrder, Versioned
  <2>5. \A d \in Slot : Onward(d)
    BY <1>0, <2>3, <2>4 DEF CreateOrder, TypeOK, Onward
  <2>6. AnyStep /\ tip' = tip
    BY <2>3 DEF AnyStep, CreateOrder
  <2> QED BY <1>0, <2>5, <2>6
<1>3. CASE \E r \in Terminal : ToolStep(r)
  <2>1. UNCHANGED <<vars, version>>
    BY <1>3 DEF ToolStep, ReadTip, ScanFails, Send, BuildFails, Finish, Kill, Step,
                ScanToExtract, ScanToMatch, ScanToUpdate, ScanToCancel, Pick
  <2> QED BY <1>0, <2>1 DEF vars, Onward
<1>4. CASE PoolStep
  <2>1. PICK tx \in pool : Include(tx) \/ Reject(tx)
    BY <1>4 DEF PoolStep, Settle
  <2>2. CASE Include(tx)
    <3>1. PICK more : /\ Submitted(tx.outpoint[1], tx.output, more)
                      /\ Commit(tx.outpoint[1], more)
      BY <2>2, PoolCommits
    <3>2. AnyStep
      BY <3>1 DEF AnyStep
    <3>3. Spend(tx.outpoint[1], more) /\ tx.outpoint[1] \in Slot
      BY <3>1, CommitEffect DEF Submitted
    <3>4. version' = [version EXCEPT ![tx.outpoint[1]] = @ + 1]
      BY <2>2 DEF Include
    <3>5. tip' = tip
          /\ \A d \in Slot : d # tx.outpoint[1] => cells'[d] = cells[d] /\ block'[d] = block[d]
      BY <1>0, <3>3, SpendEffect
    <3>6. \A e \in Slot : Onward(e)
      BY <1>0, <3>3, <3>4, <3>5 DEF Onward
    <3> QED BY <1>0, <3>2, <3>5, <3>6
  <2>3. CASE Reject(tx)
    BY <1>0, <2>3 DEF Reject, vars, Onward
  <2> QED BY <2>1, <2>2, <2>3
<1>5. CASE UNCHANGED marketVars
  BY <1>0, <1>5 DEF marketVars, vars, Onward
<1> QED BY <1>1, <1>2, <1>3, <1>4, <1>5 DEF MarketNext

-----------------------------------------------------------------------------
(* What the builders make of what a run has scanned.                        *)

(* What the records of RunState are, by pc.                                 *)
Command == {"match", "extract", "update", "cancel"}

LEMMA RunKinds ==
    ASSUME NEW s \in RunState
    PROVE  /\ s.pc = "tip" => s.command = "extract" /\ s.tipBlock \in 0..MaxTip
           /\ s.pc = "scanned" =>
                 /\ s.command \in Command /\ s.tipBlock \in 0..MaxTip
                 /\ s.info.outpoint \in Slot \X (1..MaxVersion)
                 /\ s.info.ckbCapacity \in U64
           /\ s.pc = "waiting" => s.command \in Command /\ s.tx \in PendingTx
           /\ s.pc = "landed" => s.command \in Command /\ s.block \in 1..(MaxTip + 1)
BY DEF RunState, Idle, Command

LEMMA BuiltRight ==
    ASSUME NEW info, NEW output \in MatchCell \cup {NoCell}, NEW party \in Party,
           NEW deps \in SUBSET Channel, NEW headers \in SUBSET (0..tip),
           NEW header0 \in 0..tip, tip \in 0..MaxTip,
           Ref(info.outpoint, info.cell, info.currentBlock),
           info.outpoint \in Slot \X (1..MaxVersion),
           Sendable(Built(info, output, party, deps, headers, header0))
    PROVE  /\ Built(info, output, party, deps, headers, header0) \in PendingTx
           /\ TxRight(Built(info, output, party, deps, headers, header0))
<1> DEFINE tx == Built(info, output, party, deps, headers, header0)
<1>1. /\ tx.outpoint = info.outpoint /\ tx.input = info.cell
      /\ tx.inputBlock = info.currentBlock /\ tx.output = output
      /\ tx.headers = headers /\ tx.header0 = header0
  BY DEF Built
<1>2. MaxTip \in Nat /\ info.currentBlock \in 0..MaxTip
      /\ info.cell \in OrderCell \cup MatchCell
  BY EscrowAssumption DEF Ref
<1>3. tx \in PendingTx
  BY <1>2 DEF Built, PendingTx
<1>4. TxRight(tx)
  BY <1>1 DEF TxRight, Sendable
<1> QED BY <1>3, <1>4

LEMMA OccupiedNat == \A c : Occupied(c) \in Nat
BY VerifierAssumption DEF Occupied

(* The output of each builder, once the node takes its capacity.            *)
LEMMA MatchBuilt ==
    ASSUME Inv, NEW info, info.cell \in OrderCell, NEW who \in Party,
           NEW c \in LiveChannels, Sendable(MatchOrderTx(info, who, c))
    PROVE  MatchOrderTx(info, who, c).output \in MatchCell
<1> DEFINE new == MatchOrderTx(info, who, c).output
<1>1. new = [branch |-> "Match", orderArgs |-> info.cell.orderArgs,
             channel |-> c, seller |-> who,
             amount |-> IF info.cell.token = NoToken THEN 0 ELSE info.cell.amount,
             rate |-> info.cell.rate, last |-> 0,
             capacity |-> MatchCapacity(info.cell), token |-> info.cell.token]
  BY DEF MatchOrderTx, Built
<1>2. new # NoCell
  BY <1>1 DEF NoCell
<1>3. new.capacity \in U64
  <2>1. new.capacity \in Occupied(new)..U64Max
    BY <1>2 DEF Sendable
  <2> QED BY <2>1, OccupiedNat, VerifierAssumption DEF U64
<1>4. c \in Channel /\ 0 \in U64
  BY VerifierAssumption DEF LiveChannels, U64
<1> QED BY <1>1, <1>3, <1>4 DEF OrderCell, MatchCell

LEMMA ExtractBuilt ==
    ASSUME Inv, NEW info, info.cell \in MatchCell, info.currentBlock \in Nat,
           NEW who \in Party, NEW t \in 0..tip, Sendable(ExtractTx(info, who, t))
    PROVE  ExtractTx(info, who, t).output \in MatchCell
<1> DEFINE new == ExtractTx(info, who, t).output
           old == info.cell
           rent == ExtractionAmount(info, t)
<1>1. new = [old EXCEPT
               !.last = t,
               !.amount = IF old.token = NoToken THEN 0 ELSE Monus(@, rent),
               !.capacity = IF old.token = NoToken THEN @ - rent ELSE @]
  BY DEF ExtractTx, Built
<1>2. new = [branch |-> "Match", orderArgs |-> old.orderArgs, channel |-> old.channel,
             seller |-> old.seller, rate |-> old.rate, token |-> old.token, last |-> t,
             amount |-> new.amount, capacity |-> new.capacity]
  BY <1>1 DEF MatchCell
<1>3. new # NoCell
  BY <1>2 DEF NoCell
<1>4. new.capacity \in U64
  <2>1. new.capacity \in Occupied(new)..U64Max
    BY <1>3 DEF Sendable
  <2> QED BY <2>1, OccupiedNat, VerifierAssumption DEF U64
<1>5. t \in U64
  BY VerifierAssumption, EscrowAssumption DEF U64, Inv, TypeOK
<1>6. new.amount \in Nat
  <2>1. rent \in Int
    <3>1. t \in Nat /\ old.rate \in Nat /\ old.last \in Nat
      BY EscrowAssumption, VerifierAssumption DEF Inv, TypeOK, MatchCell, U64
    <3> QED BY <3>1 DEF ExtractionAmount, Monus
  <2>2. old.amount \in Nat
    BY DEF MatchCell
  <2>3. new.amount = IF old.token = NoToken THEN 0 ELSE Monus(old.amount, rent)
    BY <1>1 DEF MatchCell
  <2> HIDE DEF rent, new
  <2> QED BY <2>1, <2>2, <2>3 DEF Monus
<1> QED BY <1>2, <1>4, <1>5, <1>6 DEF MatchCell

LEMMA UpdateBuilt ==
    ASSUME NEW info, info.cell \in MatchCell, NEW who, NEW d \in Int,
           NEW amount \in Nat, Sendable(UpdateMatchTx(info, who, amount, d))
    PROVE  UpdateMatchTx(info, who, amount, d).output \in MatchCell
<1> DEFINE new == UpdateMatchTx(info, who, amount, d).output
           old == info.cell
<1>1. new = [old EXCEPT !.amount = amount, !.capacity = @ + d]
  BY DEF UpdateMatchTx, Built
<1>2. new = [branch |-> "Match", orderArgs |-> old.orderArgs, channel |-> old.channel,
             seller |-> old.seller, rate |-> old.rate, token |-> old.token,
             last |-> old.last, amount |-> amount, capacity |-> new.capacity]
  BY <1>1 DEF MatchCell
<1>3. new # NoCell
  BY <1>2 DEF NoCell
<1>4. new.capacity \in U64
  <2>1. new.capacity \in Occupied(new)..U64Max
    BY <1>3 DEF Sendable
  <2> QED BY <2>1, OccupiedNat, VerifierAssumption DEF U64
<1> QED BY <1>2, <1>4 DEF MatchCell

LEMMA SendRight ==
    ASSUME MInv, NEW r \in Terminal, run[r].pc = "scanned",
           NEW tx \in MayBuild(r), Sendable(tx)
    PROVE  tx \in PendingTx /\ TxRight(tx)
<1> DEFINE info == run[r].info
           who  == Owner[r]
<1>1. /\ TypeOK /\ Inv /\ ScannedRight(r) /\ who \in Party
      /\ tip \in 0..MaxTip /\ MaxTip \in Nat /\ 0 \in 0..tip
  BY MarketAssumption, EscrowAssumption DEF MInv, Inv, TypeOK, RunsRight, RunRight, Terminal
<1>2. /\ Ref(info.outpoint, info.cell, info.currentBlock)
      /\ info.cell \in OrderCell \cup MatchCell
      /\ info.currentBlock \in 0..tip /\ info.currentBlock \in Nat
      /\ run[r].tipBlock \in 0..tip
  BY <1>1, EscrowAssumption DEF ScannedRight, Ref
<1>3. /\ info.outpoint \in Slot \X (1..MaxVersion)
      /\ run[r].command \in Command
  BY RunKinds DEF MInv, MarketTypeOK
<1>4. CASE run[r].command = "match"
  <2>1. tx \in MatchTxs(info, who)
    BY <1>4 DEF MayBuild
  <2>2. PICK c \in LiveChannels : channels[c].block <= tip /\ tx = MatchOrderTx(info, who, c)
    BY <2>1 DEF MatchTxs
  <2>3. info.cell \in OrderCell
    BY <1>1, <1>2, <1>4, CellKinds DEF ScannedRight
  <2>4. tx.output \in MatchCell
    BY <1>1, <2>2, <2>3, MatchBuilt
  <2>5. c \in Channel /\ channels[c].block \in 0..tip
    BY <1>1, <2>2, EscrowAssumption DEF LiveChannels, TypeOK
  <2>6. tx = Built(info, tx.output, who, {c}, {channels[c].block, info.currentBlock},
                   channels[c].block)
    BY <2>2 DEF MatchOrderTx, Built
  <2>7. {c} \in SUBSET Channel
        /\ {channels[c].block, info.currentBlock} \in SUBSET (0..tip)
    BY <1>2, <2>5
  <2> QED BY <1>1, <1>2, <1>3, <2>4, <2>5, <2>6, <2>7, BuiltRight
<1>5. CASE run[r].command = "extract"
  <2> DEFINE t == run[r].tipBlock
  <2>1. tx = ExtractRentTx(info, who, t)
    BY <1>5 DEF MayBuild, ExtractTxs
  <2>2. info.cell \in MatchCell /\ info.cell.channel \in Channel
    BY <1>1, <1>2, <1>5, CellKinds DEF ScannedRight, MatchCell
  <2>3. ClockHeaders(info, t) \in SUBSET (0..tip)
    BY <1>2 DEF ClockHeaders
  <2>4. CASE InfoIsExhausted(info, t)
    <3>1. tx = Built(info, NoCell, who, {}, ClockHeaders(info, t), t)
      BY <2>1, <2>4 DEF ExtractRentTx, DestroyMatchTx
    <3>2. {} \in SUBSET Channel /\ NoCell \in MatchCell \cup {NoCell}
      OBVIOUS
    <3> QED BY <1>1, <1>2, <1>3, <2>3, <3>1, <3>2, BuiltRight
  <2>5. CASE ~InfoIsExhausted(info, t)
    <3>1. tx = ExtractTx(info, who, t)
      BY <2>1, <2>5 DEF ExtractRentTx
    <3>2. tx.output \in MatchCell
      BY <1>1, <1>2, <2>2, <3>1, ExtractBuilt
    <3>3. tx = Built(info, tx.output, who, {info.cell.channel}, ClockHeaders(info, t), t)
      BY <3>1 DEF ExtractTx, Built
    <3>4. {info.cell.channel} \in SUBSET Channel
      BY <2>2
    <3> QED BY <1>1, <1>2, <1>3, <2>3, <3>2, <3>3, <3>4, BuiltRight
  <2> QED BY <2>4, <2>5
<1>6. CASE run[r].command = "update"
  <2> DEFINE amount == IF HasXudt(info.cell) THEN info.cell.amount ELSE 0
  <2>1. PICK d \in Deltas : tx = UpdateMatchTx(info, who, amount, d)
    BY <1>6 DEF MayBuild, UpdateTxs
  <2>2. info.cell \in MatchCell /\ amount \in Nat /\ d \in Int
    BY <1>1, <1>2, <1>6, CellKinds, MarketAssumption DEF ScannedRight, MatchCell
  <2>3. tx.output \in MatchCell
    BY <2>1, <2>2, UpdateBuilt
  <2>4. tx = Built(info, tx.output, who, {}, {}, 0)
    BY <2>1 DEF UpdateMatchTx, Built
  <2>5. {} \in SUBSET Channel /\ {} \in SUBSET (0..tip)
    OBVIOUS
  <2> QED BY <1>1, <1>2, <1>3, <2>3, <2>4, <2>5, BuiltRight
<1>7. CASE run[r].command = "cancel"
  <2>1. tx = Built(info, NoCell, who, {}, {}, 0)
    BY <1>7 DEF MayBuild, CancelOrderTx
  <2>2. {} \in SUBSET Channel /\ {} \in SUBSET (0..tip) /\ NoCell \in MatchCell \cup {NoCell}
    OBVIOUS
  <2> QED BY <1>1, <1>2, <1>3, <2>1, <2>2, BuiltRight
<1> QED BY <1>3, <1>4, <1>5, <1>6, <1>7 DEF Command

-----------------------------------------------------------------------------
(* The invariant is inductive: one lemma per part of it.                    *)

(* A reference outlives every step: the tip and the versions only grow.     *)
LEMMA Carried ==
    ASSUME MInv, [MarketNext]_marketVars
    PROVE  \A o, c, b : Ref(o, c, b) => Ref(o, c, b)'
<1>1. /\ tip' >= tip /\ \A e \in Slot : Onward(e)
      /\ [AnyStep]_vars
  BY MarketMoves
<1>2. Inv'
  BY <1>1, StepInv DEF MInv
<1>3. tip \in Nat /\ tip' \in Nat /\ version \in [Slot -> Nat]
  BY <1>2, EscrowAssumption, MarketAssumption DEF MInv, Inv, TypeOK, MarketTypeOK
<1> SUFFICES ASSUME NEW o, NEW c, NEW b, Ref(o, c, b)
             PROVE  Ref(o, c, b)'
  OBVIOUS
<1>4. /\ o[1] \in Slot /\ o[2] \in 1..MaxVersion /\ o[2] <= version[o[1]]
      /\ b \in 0..tip /\ c \in OrderCell \cup MatchCell
      /\ o[2] = version[o[1]] /\ Live(cells[o[1]]) => cells[o[1]] = c /\ block[o[1]] = b
  BY DEF Ref
<1>5. MaxVersion \in Nat /\ Onward(o[1])
  BY <1>1, <1>4, MarketAssumption
<1>6. b \in 0..tip'
  BY <1>1, <1>3, <1>4
<1>7. /\ o[2] <= version'[o[1]]
      /\ o[2] = version'[o[1]] /\ Live(cells'[o[1]]) => cells'[o[1]] = c /\ block'[o[1]] = b
  BY <1>3, <1>4, <1>5 DEF Onward
<1> QED BY <1>4, <1>6, <1>7 DEF Ref

LEMMA TxCarried ==
    ASSUME MInv, [MarketNext]_marketVars
    PROVE  \A tx : TxRight(tx) => TxRight(tx)'
<1>1. tip \in Nat /\ tip' \in Nat /\ tip' >= tip
  BY MarketMoves, StepInv, EscrowAssumption DEF MInv, Inv, TypeOK
<1>2. \A o, c, b : Ref(o, c, b) => Ref(o, c, b)'
  BY Carried
<1> SUFFICES ASSUME NEW tx, TxRight(tx)
             PROVE  TxRight(tx)'
  OBVIOUS
<1>3. Ref(tx.outpoint, tx.input, tx.inputBlock)'
  BY <1>2 DEF TxRight
<1>4. tx.headers \subseteq 0..tip' /\ tx.header0 \in 0..tip'
  BY <1>1 DEF TxRight
<1> QED BY <1>3, <1>4 DEF TxRight

LEMMA RunCarried ==
    ASSUME MInv, [MarketNext]_marketVars, NEW r \in Terminal, run'[r] = run[r]
    PROVE  RunRight(r)'
<1>1. tip \in Nat /\ tip' \in Nat /\ tip' >= tip
  BY MarketMoves, StepInv, EscrowAssumption DEF MInv, Inv, TypeOK
<1>2. \A o, c, b : Ref(o, c, b) => Ref(o, c, b)'
  BY Carried
<1>3. RunRight(r)
  BY DEF MInv, RunsRight
<1>4. CASE run[r].pc = "scanned"
  <2> DEFINE info == run[r].info
  <2>1. ScannedRight(r) /\ Ref(info.outpoint, info.cell, info.currentBlock)
    BY <1>3, <1>4 DEF RunRight, ScannedRight
  <2>2. Ref(info.outpoint, info.cell, info.currentBlock)'
    <3>1. PICK o, c, b : o = info.outpoint /\ c = info.cell /\ b = info.currentBlock
      OBVIOUS
    <3>2. Ref(o, c, b)
      BY <2>1, <3>1
    <3>3. Ref(o, c, b)'
      BY <1>2, <3>2
    <3> QED BY <3>1, <3>3 DEF Ref
  <2>3. run[r].tipBlock \in 0..tip'
    BY <1>1, <2>1 DEF ScannedRight
  <2>4. ScannedRight(r)'
    BY <2>1, <2>2, <2>3 DEF ScannedRight
  <2> QED BY <1>4, <2>4 DEF RunRight
<1>5. CASE run[r].pc # "scanned"
  BY <1>1, <1>3, <1>5 DEF RunRight
<1> QED BY <1>4, <1>5

(* What an included transaction does to its escrow.                         *)
LEMMA IncludeEffect ==
    ASSUME MInv, NEW tx \in pool, Include(tx)
    PROVE  LET e == tx.outpoint[1]
           IN  /\ e \in Slot /\ Live(cells[e]) /\ version[e] = tx.outpoint[2]
               /\ tx \in PendingTx /\ tx.output \in MatchCell \cup {NoCell}
               /\ tx.output # NoCell => tx.outpoint[2] < MaxVersion
               /\ cells'[e] = IF tx.output = NoCell THEN Spent ELSE tx.output
               /\ \A d \in Slot : d # e => cells'[d] = cells[d]
               /\ tip' = tip
               /\ tx.input = cells[e]
<1> DEFINE e == tx.outpoint[1]
<1>1. Inv /\ MarketTypeOK /\ PoolRight /\ TypeOK /\ tx \in PendingTx /\ TxRight(tx)
  BY DEF MInv, Inv, MarketTypeOK, PoolRight
<1>2. PICK more : /\ Submitted(e, tx.output, more)
                  /\ Commit(e, more)
                  /\ MoreDeps(tx, more)
  BY <1>1, PoolCommits
<1>3. Spend(e, more) /\ e \in Slot /\ Live(cells[e])
  BY <1>1, <1>2, CommitEffect DEF Submitted
<1>4. /\ cells'[e] = IF more.output = NoCell THEN Spent ELSE more.output
      /\ \A d \in Slot : d # e => cells'[d] = cells[d]
      /\ tip' = tip
  BY <1>1, <1>3, SpendEffect
<1>5. more.output = tx.output /\ more.input = tx.input /\ more.input = cells[e]
  BY <1>1, <1>2, InputTyped DEF MoreDeps
<1>6. version[e] = tx.outpoint[2]
  BY DEF Include, Fresh
<1>7. tx.output \in MatchCell \cup {NoCell}
  BY <1>1 DEF PendingTx
<1>8. tx.output # NoCell => tx.outpoint[2] < MaxVersion
  BY <1>1 DEF TxRight
<1> QED BY <1>1, <1>3, <1>4, <1>5, <1>6, <1>7, <1>8

LEMMA VersionsKept ==
    ASSUME MInv, [MarketNext]_marketVars
    PROVE  version' \in [Slot -> 0..(MaxVersion + 1)] /\ Versioned'
<1> USE DEF MInv
<1>0. /\ TypeOK /\ version \in [Slot -> 0..(MaxVersion + 1)] /\ Versioned
      /\ MaxVersion \in Nat \ {0}
  BY MarketAssumption DEF Inv, MarketTypeOK
<1>1. CASE UNCHANGED <<cells, version>>
  BY <1>0, <1>1 DEF Versioned
<1>2. CASE \E e \in Slot : \E order \in OrderOffers : PlaceOrder(e, order)
  <2>1. PICK e \in Slot : \E order \in OrderOffers : PlaceOrder(e, order)
    BY <1>2
  <2>2. PICK order \in OrderOffers : PlaceOrder(e, order)
    BY <2>1
  <2>3. /\ cells' = [cells EXCEPT ![e] = order]
        /\ version' = [version EXCEPT ![e] = 1]
    BY <2>2 DEF PlaceOrder, CreateOrder
  <2>4. order # NoCell
    BY EscrowAssumption, CellKinds
  <2>5. version' \in [Slot -> 0..(MaxVersion + 1)]
    BY <1>0, <2>3
  <2>6. ASSUME NEW d \in Slot
        PROVE  /\ Live(cells'[d]) => version'[d] \in 1..MaxVersion
               /\ cells'[d] = NoCell => version'[d] = 0
    <3>1. CASE d = e
      BY <1>0, <2>3, <2>4, <3>1 DEF TypeOK
    <3>2. CASE d # e
      BY <1>0, <2>3, <3>2 DEF TypeOK, Versioned
    <3> QED BY <3>1, <3>2
  <2> QED BY <2>5, <2>6 DEF Versioned
<1>3. CASE \E tx \in pool : Include(tx)
  <2>1. PICK tx \in pool : Include(tx)
    BY <1>3
  <2> DEFINE e == tx.outpoint[1]
  <2>2. /\ e \in Slot /\ Live(cells[e]) /\ version[e] = tx.outpoint[2]
        /\ tx.output \in MatchCell \cup {NoCell}
        /\ tx.output # NoCell => tx.outpoint[2] < MaxVersion
        /\ cells'[e] = IF tx.output = NoCell THEN Spent ELSE tx.output
        /\ \A d \in Slot : d # e => cells'[d] = cells[d]
    BY <2>1, IncludeEffect
  <2>3. version' = [version EXCEPT ![e] = @ + 1]
    BY <2>1 DEF Include
  <2>4. version[e] \in 1..MaxVersion
    BY <1>0, <2>2 DEF Versioned
  <2>5. version' \in [Slot -> 0..(MaxVersion + 1)]
    BY <1>0, <2>2, <2>3, <2>4
  <2>6. ASSUME NEW d \in Slot
        PROVE  /\ Live(cells'[d]) => version'[d] \in 1..MaxVersion
               /\ cells'[d] = NoCell => version'[d] = 0
    <3>1. CASE d = e
      <4>1. cells'[e] # NoCell
        BY <2>2, CellKinds DEF Spent, NoCell
      <4>2. Live(cells'[e]) => tx.output # NoCell
        BY <2>2, CellKinds DEF Live
      <4> QED BY <1>0, <2>2, <2>3, <2>4, <3>1, <4>1, <4>2
    <3>2. CASE d # e
      BY <1>0, <2>2, <2>3, <3>2 DEF Versioned
    <3> QED BY <3>1, <3>2
  <2> QED BY <2>5, <2>6 DEF Versioned
<1>4. \/ UNCHANGED <<cells, version>>
      \/ \E e \in Slot : \E order \in OrderOffers : PlaceOrder(e, order)
      \/ \E tx \in pool : Include(tx)
  BY DEF MarketNext, Outside, Mine, OpenChannel, CloseChannel, PoolStep, Settle, Reject,
         ToolStep, ReadTip, ScanFails, Send, BuildFails, Finish, Kill, Step, ScanToExtract,
         ScanToMatch, ScanToUpdate, ScanToCancel, Pick, marketVars, vars
<1> QED BY <1>1, <1>2, <1>3, <1>4

(* The history variables stay typed.                                        *)
LEMMA HistoryKept ==
    ASSUME MInv, [MarketNext]_marketVars
    PROVE  matchBlock' \in [Slot -> 0..(MaxTip + 1)] /\ paid' \in [Slot -> Nat]
<1>0. /\ matchBlock \in [Slot -> 0..(MaxTip + 1)] /\ paid \in [Slot -> Nat]
      /\ tip \in 0..MaxTip /\ MaxTip \in Nat
  BY EscrowAssumption DEF MInv, Inv, TypeOK, MarketTypeOK
<1>1. CASE UNCHANGED history
  BY <1>0, <1>1 DEF history
<1>2. CASE \E tx \in pool : Include(tx)
  <2>1. PICK tx \in pool : Include(tx)
    BY <1>2
  <2>2. /\ tx.outpoint[1] \in Slot
        /\ tx.output \in MatchCell \cup {NoCell}
    BY <2>1, IncludeEffect
  <2>3. tx.input \in OrderCell \cup MatchCell
    BY DEF MInv, PoolRight, TxRight, Ref
  <2>4. matchBlock' \in [Slot -> 0..(MaxTip + 1)]
    BY <1>0, <2>1, <2>2 DEF Include
  <2>5. paid' \in [Slot -> Nat]
    <3>1. CASE paid' = paid
      BY <1>0, <3>1
    <3>2. CASE paid' # paid
      <4>1. /\ IsMatch(tx.output)
            /\ paid' = [paid EXCEPT ![tx.outpoint[1]] =
                           @ + Monus(Value(tx.input), Value(tx.output))]
        BY <2>1, <3>2 DEF Include
      <4>2. tx.output \in MatchCell
        BY <2>2, <4>1, CellKinds
      <4>3. Value(tx.input) \in Nat /\ Value(tx.output) \in Nat
        BY <2>3, <4>2, ValueNat
      <4>4. Monus(Value(tx.input), Value(tx.output)) \in Nat
        BY <4>3 DEF Monus
      <4> QED BY <1>0, <2>2, <4>1, <4>4
    <3> QED BY <3>1, <3>2
  <2> QED BY <2>4, <2>5
<1>3. UNCHANGED history \/ \E tx \in pool : Include(tx)
  BY DEF MarketNext, Outside, PlaceOrder, PoolStep, Settle, Reject,
         ToolStep, ReadTip, ScanFails, Send, BuildFails, Finish, Kill, Step, ScanToExtract,
         ScanToMatch, ScanToUpdate, ScanToCancel, Pick, marketVars, history
<1> QED BY <1>1, <1>2, <1>3

(* A run that scans an escrow knows the live cell the index holds.          *)
LEMMA PickRight ==
    ASSUME MInv, NEW r \in Terminal, NEW e \in Slot, NEW command \in Command,
           NEW tipBlock \in 0..tip, Indexed(e), Pick(r, command, e, tipBlock),
           command \in {"match", "extract"} => r \in SellerTerminal,
           command \in {"match", "cancel"} => IsOrder(cells[e]),
           command \in {"extract", "update"} => IsMatch(cells[e]),
           command \in {"update", "cancel"} => cells[e].orderArgs.buyer = Owner[r]
    PROVE  run'[r] \in RunState /\ RunRight(r)'
<1> DEFINE info == CellInfo(e, version[e])
           s == [pc |-> "scanned", command |-> command, tipBlock |-> tipBlock,
                 info |-> info]
<1>1. /\ run' = [run EXCEPT ![r] = s]
      /\ UNCHANGED <<tip, cells, block, version>>
  BY DEF Pick, Step, vars
<1>2. run'[r] = s
  BY <1>1 DEF MInv, MarketTypeOK
<1>3. /\ tip \in 0..MaxTip /\ MaxTip \in Nat /\ block[e] \in 0..tip
      /\ cells[e] \in OrderCell \cup MatchCell
  <2>1. TypeOK /\ Live(cells[e]) /\ block[e] <= tip
    BY DEF MInv, Inv, Indexed
  <2> QED BY <2>1, EscrowAssumption, CellKinds DEF TypeOK, Live
<1>4. version[e] \in 1..MaxVersion
  BY DEF MInv, Versioned, Indexed
<1>5. Unoccupied(cells[e]) \in U64
  <2>1. cells[e].capacity \in U64 /\ Occupied(cells[e]) \in Nat
    BY <1>3, OccupiedNat DEF OrderCell, MatchCell
  <2> QED BY <2>1, VerifierAssumption DEF Unoccupied, Monus, U64
<1>6. /\ info.outpoint = <<e, version[e]>> /\ info.cell = cells[e]
      /\ info.currentBlock = block[e] /\ info.ckbCapacity = Unoccupied(cells[e])
      /\ info \in [outpoint: Slot \X (1..MaxVersion), cell: OrderCell \cup MatchCell,
                   currentBlock: 0..MaxTip, ckbCapacity: U64]
  BY <1>3, <1>4, <1>5 DEF CellInfo
<1>7. run'[r] \in RunState
  <2>1. tipBlock \in 0..MaxTip
    BY <1>3
  <2> HIDE DEF info
  <2> QED BY <1>2, <1>6, <2>1 DEF RunState, Command
<1>8. Ref(info.outpoint, info.cell, info.currentBlock)'
  <2>1. /\ info.outpoint[1] = e /\ info.outpoint[2] = version[e]
    BY <1>6
  <2>2. PICK o, c, b : o = info.outpoint /\ c = info.cell /\ b = info.currentBlock
    OBVIOUS
  <2>3. Ref(o, c, b)'
    <3> HIDE DEF info
    <3> QED BY <1>1, <1>3, <1>4, <1>6, <2>1, <2>2 DEF Ref
  <2>4. info' = info
    BY <1>1 DEF CellInfo
  <2> QED BY <2>2, <2>3, <2>4 DEF Ref
<1>9. RunRight(r)'
  <2>1. info' = info /\ run'[r].info = info /\ run'[r].pc = "scanned"
        /\ run'[r].command = command /\ run'[r].tipBlock = tipBlock
    BY <1>1, <1>2 DEF CellInfo
  <2>2. ScannedRight(r)'
    <3>1. Ref(run[r].info.outpoint, run[r].info.cell, run[r].info.currentBlock)'
      BY <1>8, <2>1 DEF Ref
    <3>2. run'[r].info.ckbCapacity = Unoccupied(run'[r].info.cell)
      BY <1>6, <2>1
    <3>3. run'[r].tipBlock \in 0..tip'
      BY <1>1, <2>1
    <3> HIDE DEF info
    <3> QED BY <1>6, <2>1, <3>1, <3>2, <3>3 DEF ScannedRight
  <2> QED BY <2>1, <2>2 DEF RunRight
<1> QED BY <1>7, <1>9

LEMMA ToolRight ==
    ASSUME MInv, NEW r \in Terminal, ToolStep(r)
    PROVE  /\ run' = [run EXCEPT ![r] = run'[r]]
           /\ run'[r] \in RunState /\ RunRight(r)'
<1>0. /\ run \in [Terminal -> RunState] /\ RunRight(r)
      /\ tip \in 0..MaxTip /\ MaxTip \in Nat
  BY EscrowAssumption DEF MInv, Inv, TypeOK, MarketTypeOK, RunsRight
<1>1. run' = [run EXCEPT ![r] = run'[r]]
  BY <1>0 DEF ToolStep, ReadTip, ScanFails, Send, BuildFails, Finish, Kill, Step,
              ScanToExtract, ScanToMatch, ScanToUpdate, ScanToCancel, Pick
<1>2. CASE run'[r] = Idle
  BY <1>1, <1>2 DEF RunState, RunRight, Idle
<1>3. CASE ReadTip(r)
  <2>1. /\ run'[r] = [pc |-> "tip", command |-> "extract", tipBlock |-> tip]
        /\ tip' = tip /\ r \in SellerTerminal
    BY <1>0, <1>3 DEF ReadTip, Step, vars
  <2> QED BY <1>0, <1>1, <2>1 DEF RunState, RunRight
<1>4. CASE Send(r)
  <2>1. PICK tx \in {t \in MayBuild(r) : Sendable(t)} :
           /\ run' = [run EXCEPT ![r] = [pc |-> "waiting", tx |-> tx,
                                         command |-> run[r].command]]
           /\ run[r].pc = "scanned"
    BY <1>4 DEF Send
  <2>2. tx \in PendingTx
    BY <2>1, SendRight
  <2>3. run[r].command \in Command
    BY <1>0, <2>1, RunKinds
  <2>4. run'[r] = [pc |-> "waiting", tx |-> tx, command |-> run[r].command]
    BY <1>0, <2>1
  <2> QED BY <1>1, <2>2, <2>3, <2>4 DEF RunState, RunRight, Command
<1>5. ASSUME NEW e \in Slot, ScanToExtract(r, e)
      PROVE  run'[r] \in RunState /\ RunRight(r)'
  <2>1. r \in SellerTerminal /\ run[r].tipBlock \in 0..tip
    BY <1>0, <1>5 DEF ScanToExtract, RunRight
  <2>2. /\ Pick(r, "extract", e, run[r].tipBlock)
        /\ Indexed(e) /\ IsMatch(cells[e])
    BY <1>5 DEF ScanToExtract
  <2> QED BY <2>1, <2>2, PickRight DEF Command
<1>6. ASSUME NEW e \in Slot, ScanToMatch(r, e)
      PROVE  run'[r] \in RunState /\ RunRight(r)'
  <2>1. /\ Pick(r, "match", e, 0) /\ r \in SellerTerminal
        /\ Indexed(e) /\ IsOrder(cells[e])
    BY <1>6 DEF ScanToMatch
  <2> QED BY <1>0, <2>1, PickRight DEF Command
<1>7. ASSUME NEW e \in Slot, ScanToUpdate(r, e)
      PROVE  run'[r] \in RunState /\ RunRight(r)'
  <2>1. /\ Pick(r, "update", e, 0)
        /\ Indexed(e) /\ IsMatch(cells[e]) /\ cells[e].orderArgs.buyer = Owner[r]
    BY <1>7 DEF ScanToUpdate
  <2> QED BY <1>0, <2>1, PickRight DEF Command
<1>8. ASSUME NEW e \in Slot, ScanToCancel(r, e)
      PROVE  run'[r] \in RunState /\ RunRight(r)'
  <2>1. /\ Pick(r, "cancel", e, 0)
        /\ Indexed(e) /\ IsOrder(cells[e]) /\ cells[e].orderArgs.buyer = Owner[r]
    BY <1>8 DEF ScanToCancel
  <2> QED BY <1>0, <2>1, PickRight DEF Command
<1>9. ScanFails(r) \/ BuildFails(r) \/ Finish(r) \/ Kill(r) => run'[r] = Idle
  BY <1>0 DEF ScanFails, BuildFails, Finish, Kill, Step
<1> QED BY <1>1, <1>2, <1>3, <1>4, <1>5, <1>6, <1>7, <1>8, <1>9 DEF ToolStep

LEMMA RunsKept ==
    ASSUME MInv, [MarketNext]_marketVars
    PROVE  run' \in [Terminal -> RunState] /\ RunsRight'
<1>0. /\ run \in [Terminal -> RunState]
      /\ tip \in 0..MaxTip /\ MaxTip \in Nat
  BY EscrowAssumption DEF MInv, Inv, TypeOK, MarketTypeOK
<1>1. CASE run' = run
  BY <1>0, <1>1, RunCarried DEF RunsRight
<1>2. CASE \E r \in Terminal : ToolStep(r)
  <2>1. PICK r \in Terminal : ToolStep(r)
    BY <1>2
  <2>2. /\ run' = [run EXCEPT ![r] = run'[r]]
        /\ run'[r] \in RunState /\ RunRight(r)'
    BY <2>1, ToolRight
  <2>3. \A q \in Terminal : q # r => run'[q] = run[q]
    BY <1>0, <2>2
  <2>4. \A q \in Terminal : RunRight(q)'
    BY <2>2, <2>3, RunCarried
  <2> QED BY <1>0, <2>2, <2>4 DEF RunsRight
<1>3. CASE PoolStep
  <2>1. PICK tx \in pool : Include(tx) \/ Reject(tx)
    BY <1>3 DEF PoolStep, Settle
  <2>2. PICK next : /\ run' = [r \in Terminal |->
                          IF run[r].pc = "waiting" /\ run[r].tx = tx THEN next[r] ELSE run[r]]
                    /\ \/ next = [r \in Terminal |-> Idle]
                       \/ next = [r \in Terminal |->
                             [pc |-> "landed", block |-> tip + 1, command |-> run[r].command]]
    BY <2>1 DEF Include, Reject, Waiters
  <2>3. ASSUME NEW r \in Terminal
        PROVE  run'[r] \in RunState /\ RunRight(r)'
    <3>1. CASE run'[r] = run[r]
      BY <1>0, <3>1, RunCarried
    <3>2. CASE run'[r] = Idle
      BY <3>2 DEF RunState, RunRight, Idle
    <3>3. CASE /\ run[r].pc = "waiting"
               /\ run'[r] = [pc |-> "landed", block |-> tip + 1, command |-> run[r].command]
      <4>1. run[r].command \in Command
        BY <1>0, <3>3, RunKinds
      <4>2. tip + 1 \in 1..(MaxTip + 1)
        BY <1>0
      <4> QED BY <3>3, <4>1, <4>2 DEF RunState, RunRight, Command
    <3> QED BY <2>2, <3>1, <3>2, <3>3
  <2>4. run' \in [Terminal -> RunState]
    BY <2>2, <2>3
  <2> QED BY <2>3, <2>4 DEF RunsRight
<1>4. run' = run \/ (\E r \in Terminal : ToolStep(r)) \/ PoolStep
  BY DEF MarketNext, Outside, PlaceOrder, marketVars
<1> QED BY <1>1, <1>2, <1>3, <1>4

LEMMA PoolKept ==
    ASSUME MInv, [MarketNext]_marketVars
    PROVE  pool' \subseteq PendingTx /\ PoolRight'
<1>0. /\ pool \subseteq PendingTx /\ \A tx \in pool : TxRight(tx)
      /\ \A tx : TxRight(tx) => TxRight(tx)'
  BY TxCarried DEF MInv, MarketTypeOK, PoolRight
<1>1. CASE pool' \subseteq pool
  BY <1>0, <1>1 DEF PoolRight
<1>2. CASE \E r \in Terminal : Send(r)
  <2>1. PICK r \in Terminal : Send(r)
    BY <1>2
  <2>2. PICK tx \in {t \in MayBuild(r) : Sendable(t)} : pool' = pool \cup {tx}
    BY <2>1 DEF Send
  <2>3. tx \in PendingTx /\ TxRight(tx)
    BY <2>1, <2>2, SendRight DEF Send
  <2> QED BY <1>0, <2>2, <2>3 DEF PoolRight
<1>3. pool' \subseteq pool \/ \E r \in Terminal : Send(r)
  BY DEF MarketNext, Outside, PlaceOrder, PoolStep, Settle, Include, Reject,
         ToolStep, ReadTip, ScanFails, BuildFails, Finish, Kill, Step, ScanToExtract,
         ScanToMatch, ScanToUpdate, ScanToCancel, Pick, marketVars
<1> QED BY <1>1, <1>2, <1>3

LEMMA MarketInitRight == MarketInit => MInv
<1> SUFFICES ASSUME MarketInit PROVE MInv
  OBVIOUS
<1>1. Inv /\ TypeOK
  BY InitInv DEF MarketInit, Inv
<1>2. MarketTypeOK
  BY <1>1, EscrowAssumption, MarketAssumption DEF MarketInit, MarketTypeOK, RunState
<1>3. Versioned
  BY CellKinds DEF MarketInit, Init, Versioned, Live
<1>4. RunsRight /\ PoolRight
  BY DEF MarketInit, RunsRight, RunRight, PoolRight, Idle
<1> QED BY <1>1, <1>2, <1>3, <1>4 DEF MInv

LEMMA MarketStepRight == MInv /\ [MarketNext]_marketVars => MInv'
<1> SUFFICES ASSUME MInv, [MarketNext]_marketVars PROVE MInv'
  OBVIOUS
<1>1. Inv'
  BY MarketMoves, StepInv DEF MInv
<1>2. TypeOK'
  BY <1>1 DEF Inv
<1> QED BY <1>1, <1>2, VersionsKept, HistoryKept, RunsKept, PoolKept DEF MInv, MarketTypeOK

-----------------------------------------------------------------------------
(* Theorems.                                                                *)

LEMMA MarketInvariance == MarketSpec => []MInv
BY MarketInitRight, MarketStepRight, PTL DEF MarketSpec

(* Every market step is a step of some client of Escrow.                    *)
LEMMA MarketAny == MInv /\ [MarketNext]_marketVars => Inv /\ [AnyStep]_vars
BY MarketMoves DEF MInv

(* Runs, pool and history are typed: in particular every transaction the    *)
(* calculator builds and the node takes has a u64 capacity and names mined  *)
(* headers only, and nobody gets ahead of the lineage of a cell.            *)
THEOREM MarketTypeCorrect == MarketSpec => []MarketTypeOK
BY MarketInvariance, PTL DEF MInv

(* The clock of a Match stays within the chain, whatever was read when.     *)
THEOREM MarketClockSafe == MarketSpec => []ClockWithinChain
BY MarketInvariance, PTL DEF MInv, Inv

(* Stale reads, killed tools and late transactions never change the terms.  *)
THEOREM MarketTermsSafe == MarketSpec => TermsFixed
<1>1. MInv /\ [MarketNext]_marketVars => [AllTermsKept]_vars
  BY MarketAny, TermsStep
<1> QED BY <1>1, MarketInvariance, PTL DEF MarketSpec, TermsFixed

(* Nor do they pay a seller more than what has vested at the real tip.      *)
THEOREM MarketVestedSafe == MarketSpec => OnlyVested
<1>1. MInv /\ [MarketNext]_marketVars => [AllTakeVested]_vars
  BY MarketAny, TakesStep
<1> QED BY <1>1, MarketInvariance, PTL DEF MarketSpec, OnlyVested

(* The tools implement the rent stream, whatever outputs they can build.    *)
THEOREM MarketRefinement == MarketSpec => RefinesRentStream
<1>1. MInv /\ [MarketNext]_marketVars => [Promise!Next]_(Promise!vars)
  BY MarketAny, StepStream
<1>2. MarketInit => Promise!Init
  BY InitStream DEF MarketInit
<1> QED BY <1>1, <1>2, MarketInvariance, PTL DEF MarketSpec, RefinesRentStream, Promise!Spec

=============================================================================
