---------------------------- MODULE SellerProofs ----------------------------
(***************************************************************************)
(* What a seller can rely on: theorems about Market that need a word about *)
(* who works where, which MarketAssumption leaves open.                    *)
(***************************************************************************)
EXTENDS MarketProofs

(* No two seller terminals work for the same party.                         *)
OneTerminal == \A q, r \in SellerTerminal : Owner[q] = Owner[r] => q = r

-----------------------------------------------------------------------------
(* What a run sends, by its command.                                        *)

LEMMA SentForms ==
    ASSUME MInv, NEW r \in Terminal, run[r].pc = "scanned",
           NEW tx \in MayBuild(r)
    PROVE  LET info == run[r].info
           IN  /\ tx.outpoint = info.outpoint /\ tx.input = info.cell
               /\ tx.inputBlock = info.currentBlock /\ tx.auth = {Owner[r]}
               /\ IsMatch(tx.output) =>
                     \/ /\ run[r].command = "match" /\ r \in SellerTerminal
                        /\ IsOrder(tx.input)
                        /\ tx.output.seller = Owner[r] /\ tx.output.last = 0
                     \/ /\ run[r].command = "extract" /\ r \in SellerTerminal
                        /\ IsMatch(tx.input)
                        /\ tx.output.seller = tx.input.seller
                        /\ tx.output.last = run[r].tipBlock
                        /\ tx.header0 = run[r].tipBlock
                     \/ /\ run[r].command = "update" /\ IsMatch(tx.input)
                        /\ tx.output.seller = tx.input.seller
                        /\ tx.output.last = tx.input.last
                        /\ tx.input.orderArgs.buyer \in tx.auth
<1> DEFINE info == run[r].info
           who  == Owner[r]
<1>1. /\ ScannedRight(r) /\ run[r].command \in Command
      /\ info.cell \in OrderCell \cup MatchCell
  BY RunKinds DEF MInv, MarketTypeOK, RunsRight, RunRight, ScannedRight, Ref
<1>2. ~IsMatch(NoCell)
  BY CellKinds
<1>3. CASE run[r].command = "match"
  <2>1. PICK c : tx = MatchOrderTx(info, who, c)
    BY <1>3 DEF MayBuild, MatchTxs
  <2>2. r \in SellerTerminal /\ IsOrder(info.cell)
    BY <1>1, <1>3 DEF ScannedRight
  <2> QED BY <1>3, <2>1, <2>2 DEF MatchOrderTx, Built
<1>4. CASE run[r].command = "extract"
  <2> DEFINE t == run[r].tipBlock
  <2>1. tx = ExtractRentTx(info, who, t)
    BY <1>4 DEF MayBuild, ExtractTxs
  <2>2. r \in SellerTerminal /\ info.cell \in MatchCell
    BY <1>1, <1>4, CellKinds DEF ScannedRight
  <2>3. CASE tx = DestroyMatchTx(info, who, t)
    BY <1>2, <2>3 DEF DestroyMatchTx, Built
  <2>4. CASE tx = ExtractTx(info, who, t)
    <3>1. tx.output.last = t /\ tx.output.seller = info.cell.seller
      BY <2>2, <2>4 DEF ExtractTx, Built, MatchCell
    <3>2. /\ tx.outpoint = info.outpoint /\ tx.input = info.cell
          /\ tx.inputBlock = info.currentBlock /\ tx.auth = {who} /\ tx.header0 = t
      BY <2>4 DEF ExtractTx, Built
    <3> QED BY <1>4, <2>2, <3>1, <3>2, CellKinds
  <2> QED BY <2>1, <2>3, <2>4 DEF ExtractRentTx
<1>5. CASE run[r].command = "update"
  <2>1. PICK a, d : tx = UpdateMatchTx(info, who, a, d)
    BY <1>5 DEF MayBuild, UpdateTxs
  <2>2. info.cell \in MatchCell /\ info.cell.orderArgs.buyer = who
    BY <1>1, <1>5, CellKinds DEF ScannedRight
  <2>3. tx.output.last = info.cell.last /\ tx.output.seller = info.cell.seller
    BY <2>1, <2>2 DEF UpdateMatchTx, Built, MatchCell
  <2>4. /\ tx.outpoint = info.outpoint /\ tx.input = info.cell
        /\ tx.inputBlock = info.currentBlock /\ tx.auth = {who}
    BY <2>1 DEF UpdateMatchTx, Built
  <2> QED BY <1>5, <2>2, <2>3, <2>4, CellKinds
<1>6. CASE run[r].command = "cancel"
  BY <1>2, <1>6 DEF MayBuild, CancelOrderTx, Built
<1> QED BY <1>1, <1>3, <1>4, <1>5, <1>6 DEF Command

(* A run changes by its own step or when its transaction is settled.        *)
LEMMA RunChange ==
    ASSUME MInv, [MarketNext]_marketVars, NEW q \in Terminal
    PROVE  \/ run'[q] = run[q]
           \/ ToolStep(q)
           \/ /\ run[q].pc = "waiting" /\ run[q].tx \in pool
              /\ \/ Reject(run[q].tx) /\ run'[q] = Idle
                 \/ /\ Include(run[q].tx)
                    /\ run'[q] = [pc |-> "landed", block |-> tip + 1,
                                  command |-> run[q].command]
<1>0. run \in [Terminal -> RunState]
  BY DEF MInv, MarketTypeOK
<1>1. CASE run' = run
  BY <1>1
<1>2. CASE \E r \in Terminal : ToolStep(r)
  <2>1. PICK r \in Terminal : ToolStep(r)
    BY <1>2
  <2>2. CASE q # r
    BY <1>0, <2>1, <2>2, ToolRight
  <2> QED BY <2>1, <2>2
<1>3. CASE PoolStep
  <2>1. PICK tx \in pool : Include(tx) \/ Reject(tx)
    BY <1>3 DEF PoolStep, Settle
  <2> QED BY <2>1 DEF Include, Reject, Waiters
<1>4. run' = run \/ (\E r \in Terminal : ToolStep(r)) \/ PoolStep
  BY DEF MarketNext, Outside, PlaceOrder, marketVars
<1> QED BY <1>1, <1>2, <1>3, <1>4

(* So only its own step makes it know more.                                 *)
LEMMA RunLearns ==
    ASSUME MInv, [MarketNext]_marketVars, NEW q \in Terminal,
           run'[q].pc \in {"tip", "scanned"}
    PROVE  run'[q] = run[q] \/ ToolStep(q)
<1>1. CASE run'[q] = Idle
  BY <1>1 DEF Idle
<1>2. CASE run'[q] = [pc |-> "landed", block |-> tip + 1, command |-> run[q].command]
  <2>1. run'[q].pc = "landed"
    BY <1>2
  <2> QED BY <2>1
<1> QED BY <1>1, <1>2, RunChange, Zenon

(* What a run knows about a cell it has learnt from the index; only a run   *)
(* that had read the tip goes on to extract.                                *)
LEMMA ScannedStep ==
    ASSUME MInv, NEW r \in Terminal, ToolStep(r), run'[r].pc = "scanned"
    PROVE  \E e \in Slot :
              /\ Indexed(e)
              /\ run'[r].info = CellInfo(e, version[e])
              /\ run'[r].command = "extract" =>
                    /\ run[r].pc = "tip" /\ run[r].command = "extract"
                    /\ run'[r].tipBlock = run[r].tipBlock
<1>0. run \in [Terminal -> RunState]
  BY DEF MInv, MarketTypeOK
<1>1. CASE ReadTip(r) \/ Send(r)
  BY <1>0, <1>1 DEF ReadTip, Send, Step
<1>2. CASE ScanFails(r) \/ BuildFails(r) \/ Finish(r) \/ Kill(r)
  BY <1>0, <1>2 DEF ScanFails, BuildFails, Finish, Kill, Step, Idle
<1>3. ASSUME NEW e \in Slot, NEW command, NEW tipBlock, Pick(r, command, e, tipBlock)
      PROVE  /\ run'[r].info = CellInfo(e, version[e])
             /\ run'[r].command = command /\ run'[r].tipBlock = tipBlock
  BY <1>0, <1>3 DEF Pick, Step
<1>4. ASSUME NEW e \in Slot, ScanToExtract(r, e)
      PROVE  /\ Indexed(e)
             /\ Pick(r, "extract", e, run[r].tipBlock)
             /\ run[r].pc = "tip" /\ run[r].command = "extract"
  BY <1>0, <1>4, RunKinds DEF ScanToExtract
<1>5. ASSUME NEW e \in Slot, ScanToMatch(r, e) \/ ScanToUpdate(r, e) \/ ScanToCancel(r, e)
      PROVE  Indexed(e) /\ \E command \in {"match", "update", "cancel"} : Pick(r, command, e, 0)
  BY <1>5 DEF ScanToMatch, ScanToUpdate, ScanToCancel
<1>6. CASE \E e \in Slot : ScanToExtract(r, e)
  <2>1. PICK e \in Slot : ScanToExtract(r, e)
    BY <1>6
  <2>2. /\ Indexed(e)
        /\ Pick(r, "extract", e, run[r].tipBlock)
        /\ run[r].pc = "tip" /\ run[r].command = "extract"
    BY <1>4, <2>1
  <2> QED BY <1>3, <2>2
<1>7. CASE \E e \in Slot : ScanToMatch(r, e) \/ ScanToUpdate(r, e) \/ ScanToCancel(r, e)
  <2>1. PICK e \in Slot : ScanToMatch(r, e) \/ ScanToUpdate(r, e) \/ ScanToCancel(r, e)
    BY <1>7
  <2>2. PICK command \in {"match", "update", "cancel"} : Pick(r, command, e, 0)
    BY <1>5, <2>1
  <2> QED BY <1>3, <1>5, <2>1, <2>2
<1> QED BY <1>1, <1>2, <1>6, <1>7 DEF ToolStep

-----------------------------------------------------------------------------
(* The extraction clock.  A seller's terminal reads the tip before it scans *)
(* and it alone writes that seller's clocks, so all that was ever written   *)
(* for the seller is no newer than the tip the terminal works with.         *)

(* The script takes no new clock but from the seller: an extraction that a  *)
(* stranger sent does not count.                                            *)
Effective(tx) ==
    IsMatch(tx.input) /\ IsMatch(tx.output) =>
        tx.output.last = tx.input.last \/ tx.input.seller \in tx.auth

LEMMA OnlyEffective ==
    ASSUME NEW tx \in pool, Include(tx)
    PROVE  Effective(tx)
<1> SUFFICES ASSUME IsMatch(tx.input), IsMatch(tx.output) PROVE Effective(tx)
  BY DEF Effective
<1>1. Compare(tx.input, tx.output) \notin {"order_cancel", "order_match", "match_destroy"}
  BY CellKinds, Routes DEF IsOrder, IsMatch, NoOutput
<1>2. SellerExtracts(tx) \/ BuyerUpdates(tx)
  BY <1>1 DEF Include, Commit, CancelOrder, MatchOrder, DestroyMatch, ExtractRent, UpdateMatch
<1> QED BY <1>2 DEF SellerExtracts, BuyerUpdates, Effective

(* Every copy of a cell that is around: live, in the pool where it may      *)
(* become so, or read by a run.                                             *)
Written(c) ==
    \/ \E e \in Slot : c = cells[e]
    \/ \E tx \in pool : Effective(tx) /\ c = tx.output
    \/ \E q \in Terminal : run[q].pc = "scanned" /\ c = run[q].info.cell

Reading(r) == run[r].pc \in {"tip", "scanned"} /\ run[r].command = "extract"

WrittenByTip == \A c : Written(c) /\ IsMatch(c) => c.last <= tip

WrittenByOwn ==
    \A r \in Terminal : \A c :
        Reading(r) /\ Written(c) /\ IsMatch(c) /\ c.seller = Owner[r] =>
            c.last <= run[r].tipBlock

SentOnward ==
    \A tx \in pool : Effective(tx) /\ IsMatch(tx.input) /\ IsMatch(tx.output) =>
        tx.input.last <= tx.output.last

CInv == MInv /\ WrittenByTip /\ WrittenByOwn /\ SentOnward

(* Where a copy comes from: an earlier copy, or the one terminal that has   *)
(* just sent its extraction.                                                *)
LEMMA WrittenStep ==
    ASSUME MInv, [MarketNext]_marketVars, NEW c, Written(c)', IsMatch(c)
    PROVE  \/ c.last = 0
           \/ \E d : Written(d) /\ IsMatch(d) /\ d.last = c.last /\ d.seller = c.seller
           \/ \E r \in SellerTerminal :
                 /\ Reading(r) /\ ~Reading(r)'
                 /\ c.seller = Owner[r] /\ c.last = run[r].tipBlock
<1> DEFINE Old == \E d : Written(d) /\ IsMatch(d) /\ d.last = c.last /\ d.seller = c.seller
<1>0. run \in [Terminal -> RunState] /\ cells \in [Slot -> Cell]
  BY DEF MInv, Inv, TypeOK, MarketTypeOK
<1>1. CASE Written(c)
  BY <1>1
<1>2. CASE \E e \in Slot : c = cells'[e]
  <2>1. PICK e \in Slot : c = cells'[e]
    BY <1>2
  <2>2. CASE cells' = cells
    BY <2>1, <2>2 DEF Written
  <2>3. CASE \E d \in Slot : \E order \in OrderOffers : PlaceOrder(d, order)
    <3>1. PICK d \in Slot : \E order \in OrderOffers : PlaceOrder(d, order)
      BY <2>3
    <3>2. PICK order \in OrderOffers : PlaceOrder(d, order)
      BY <3>1
    <3>3. cells' = [cells EXCEPT ![d] = order] /\ ~IsMatch(order)
      BY <3>2, EscrowAssumption, CellKinds DEF PlaceOrder, CreateOrder
    <3>4. c = cells[e]
      BY <1>0, <2>1, <3>3
    <3> QED BY <3>4 DEF Written
  <2>4. CASE \E tx \in pool : Include(tx)
    <3>1. PICK tx \in pool : Include(tx)
      BY <2>4
    <3>2. /\ cells'[tx.outpoint[1]] = IF tx.output = NoCell THEN Spent ELSE tx.output
          /\ \A d \in Slot : d # tx.outpoint[1] => cells'[d] = cells[d]
      BY <3>1, IncludeEffect
    <3>3. c = tx.output \/ c = cells[e]
      BY <2>1, <3>2, CellKinds
    <3> QED BY <3>1, <3>3, OnlyEffective DEF Written
  <2>5. \/ cells' = cells
        \/ \E d \in Slot : \E order \in OrderOffers : PlaceOrder(d, order)
        \/ \E tx \in pool : Include(tx)
    BY DEF MarketNext, Outside, Mine, OpenChannel, CloseChannel, PoolStep, Settle, Reject,
           ToolStep, ReadTip, ScanFails, Send, BuildFails, Finish, Kill, Step, ScanToExtract,
           ScanToMatch, ScanToUpdate, ScanToCancel, Pick, marketVars, vars
  <2> QED BY <2>2, <2>3, <2>4, <2>5
<1>3. CASE \E tx \in pool' : Effective(tx) /\ c = tx.output
  <2>1. PICK tx \in pool' : Effective(tx) /\ c = tx.output
    BY <1>3
  <2>2. CASE tx \in pool
    BY <2>1, <2>2 DEF Written
  <2>3. CASE \E r \in Terminal : Send(r)
    <3>1. PICK r \in Terminal : Send(r)
      BY <2>3
    <3>2. PICK new \in MayBuild(r) :
             /\ pool' = pool \cup {new}
             /\ run[r].pc = "scanned"
             /\ run' = [run EXCEPT ![r] = [pc |-> "waiting", tx |-> new,
                                           command |-> run[r].command]]
      BY <3>1 DEF Send
    <3>3. CASE tx = new
      <4>1. \/ tx.output.last = 0
            \/ /\ tx.output.seller = run[r].info.cell.seller
               /\ tx.output.last = run[r].info.cell.last /\ IsMatch(run[r].info.cell)
            \/ /\ run[r].command = "extract" /\ r \in SellerTerminal
               /\ tx.output.seller = Owner[r] /\ tx.output.last = run[r].tipBlock
        BY <2>1, <3>2, <3>3, SentForms DEF Effective
      <4>2. Written(run[r].info.cell)
        BY <3>2 DEF Written
      <4>3. ~Reading(r)'
        BY <1>0, <3>2 DEF Reading
      <4> QED BY <2>1, <3>2, <4>1, <4>2, <4>3 DEF Reading
    <3> QED BY <2>1, <2>2, <3>2, <3>3
  <2>4. pool' \subseteq pool \/ \E r \in Terminal : Send(r)
    BY DEF MarketNext, Outside, PlaceOrder, PoolStep, Settle, Include, Reject,
           ToolStep, ReadTip, ScanFails, BuildFails, Finish, Kill, Step, ScanToExtract,
           ScanToMatch, ScanToUpdate, ScanToCancel, Pick, marketVars
  <2> QED BY <2>1, <2>2, <2>3, <2>4
<1>4. CASE \E q \in Terminal : run'[q].pc = "scanned" /\ c = run'[q].info.cell
  <2>1. PICK q \in Terminal : run'[q].pc = "scanned" /\ c = run'[q].info.cell
    BY <1>4
  <2>2. run'[q] = run[q] \/ \E e \in Slot : run'[q].info = CellInfo(e, version[e])
    <3>1. run'[q] = run[q] \/ ToolStep(q)
      BY <2>1, RunLearns
    <3> QED BY <2>1, <3>1, ScannedStep
  <2>3. CASE run'[q] = run[q]
    BY <2>1, <2>3 DEF Written
  <2>4. CASE \E e \in Slot : run'[q].info = CellInfo(e, version[e])
    <3>1. \E e \in Slot : c = cells[e]
      BY <2>1, <2>4 DEF CellInfo
    <3> QED BY <3>1 DEF Written
  <2> QED BY <2>2, <2>3, <2>4
<1> QED BY <1>1, <1>2, <1>3, <1>4 DEF Written

(* A terminal is reading because it was, or because it has just asked for   *)
(* the tip.                                                                 *)
LEMMA ReadingStep ==
    ASSUME MInv, [MarketNext]_marketVars, NEW r \in Terminal, Reading(r)'
    PROVE  \/ Reading(r) /\ run'[r].tipBlock = run[r].tipBlock
           \/ ReadTip(r) /\ run'[r].tipBlock = tip
<1>0. run \in [Terminal -> RunState]
  BY DEF MInv, MarketTypeOK
<1>1. CASE run'[r] = run[r]
  BY <1>1 DEF Reading
<1>2. CASE ToolStep(r) /\ run'[r].pc = "scanned"
  BY <1>2, ScannedStep DEF Reading
<1>3. CASE ToolStep(r) /\ run'[r].pc = "tip"
  <2>1. ReadTip(r)
    BY <1>0, <1>3 DEF ToolStep, ReadTip, ScanFails, Send, BuildFails, Finish, Kill,
       Step, Idle, ScanToExtract, ScanToMatch, ScanToUpdate, ScanToCancel, Pick
  <2> QED BY <1>0, <2>1 DEF ReadTip, Step
<1>4. run'[r].pc \in {"tip", "scanned"}
  BY DEF Reading
<1>5. run'[r] = run[r] \/ ToolStep(r)
  BY <1>4, RunLearns
<1> QED BY <1>1, <1>2, <1>3, <1>4, <1>5

LEMMA WrittenKept ==
    ASSUME OneTerminal, CInv, [MarketNext]_marketVars
    PROVE  WrittenByTip' /\ WrittenByOwn'
<1>0. /\ tip \in Nat /\ tip' \in Nat /\ tip' >= tip
      /\ run \in [Terminal -> RunState]
      /\ \A r \in Terminal : RunRight(r)
  BY MarketMoves, StepInv, EscrowAssumption
     DEF CInv, MInv, Inv, TypeOK, MarketTypeOK, RunsRight
<1>1. \A c : Written(c) /\ IsMatch(c) => c.last <= tip /\ c.last \in Nat
  <2> SUFFICES ASSUME NEW c, Written(c), IsMatch(c) PROVE c.last <= tip /\ c.last \in Nat
    OBVIOUS
  <2>1. c \in Cell \cup OrderCell \cup MatchCell \cup {NoCell}
    <3>1. ASSUME NEW q \in Terminal, run[q].pc = "scanned"
          PROVE  run[q].info.cell \in OrderCell \cup MatchCell
      BY <1>0, <3>1 DEF RunRight, ScannedRight, Ref
    <3>2. ASSUME NEW tx \in pool PROVE tx.output \in MatchCell \cup {NoCell}
      BY DEF CInv, MInv, MarketTypeOK, PendingTx
    <3> QED BY <3>1, <3>2 DEF Written, CInv, MInv, Inv, TypeOK
  <2>2. c \in MatchCell
    BY <2>1, CellKinds
  <2>3. c.last \in Nat
    BY <2>2, VerifierAssumption DEF MatchCell, U64
  <2> QED BY <2>3 DEF CInv, WrittenByTip
<1>2. \A r \in Terminal : Reading(r) =>
         run[r].tipBlock \in 0..tip /\ r \in SellerTerminal
  BY <1>0 DEF Reading, RunRight, ScannedRight
<1>3. ASSUME NEW c, Written(c)', IsMatch(c)
      PROVE  c.last <= tip
  <2>1. CASE c.last = 0
    BY <1>0, <2>1
  <2>2. CASE \E d : Written(d) /\ IsMatch(d) /\ d.last = c.last /\ d.seller = c.seller
    BY <1>1, <2>2
  <2>3. CASE \E r \in SellerTerminal : Reading(r) /\ c.last = run[r].tipBlock
    BY <1>0, <1>2, <2>3 DEF Terminal
  <2> QED BY <1>3, <2>1, <2>2, <2>3, WrittenStep DEF CInv
<1>4. WrittenByTip'
  <2> SUFFICES ASSUME NEW c, Written(c)', IsMatch(c) PROVE c.last <= tip'
    BY DEF WrittenByTip
  <2>1. c.last <= tip /\ c.last \in Int
    <3>1. c.last \in Int
      <4>1. CASE \E d : Written(d) /\ IsMatch(d) /\ d.last = c.last /\ d.seller = c.seller
        BY <1>1, <4>1
      <4>2. CASE \E r \in SellerTerminal : Reading(r) /\ c.last = run[r].tipBlock
        BY <1>2, <4>2 DEF Terminal
      <4> QED BY <4>1, <4>2, WrittenStep DEF CInv
    <3> QED BY <1>3, <3>1
  <2> QED BY <1>0, <2>1
<1>5. ASSUME NEW r \in Terminal, Reading(r)'
      PROVE  \/ Reading(r) /\ run'[r].tipBlock = run[r].tipBlock
             \/ run'[r].tipBlock = tip /\ r \in SellerTerminal
  BY <1>5, ReadingStep DEF CInv, ReadTip
<1>6. WrittenByOwn'
  <2> SUFFICES ASSUME NEW r \in Terminal, NEW c, Reading(r)', Written(c)', IsMatch(c),
                      c.seller = Owner[r]
               PROVE  c.last <= run'[r].tipBlock
    BY DEF WrittenByOwn
  <2>1. CASE run'[r].tipBlock = tip
    BY <1>3, <2>1
  <2>2. CASE Reading(r) /\ run'[r].tipBlock = run[r].tipBlock
    <3>1. r \in SellerTerminal /\ run[r].tipBlock \in 0..tip
      BY <1>2, <2>2
    <3>2. CASE c.last = 0
      BY <1>0, <2>2, <3>1, <3>2
    <3>3. CASE \E d : Written(d) /\ IsMatch(d) /\ d.last = c.last /\ d.seller = c.seller
      BY <2>2, <3>3 DEF CInv, WrittenByOwn
    <3>4. CASE \E q \in SellerTerminal : Reading(q) /\ ~Reading(q)' /\ c.seller = Owner[q]
      BY <3>1, <3>4 DEF OneTerminal
    <3> QED BY <3>2, <3>3, <3>4, WrittenStep DEF CInv
  <2> QED BY <1>5, <2>1, <2>2
<1> QED BY <1>4, <1>6

LEMMA SentKept ==
    ASSUME CInv, [MarketNext]_marketVars
    PROVE  SentOnward'
<1> SUFFICES ASSUME NEW tx \in pool', Effective(tx), IsMatch(tx.input), IsMatch(tx.output)
             PROVE  tx.input.last <= tx.output.last
  BY DEF SentOnward, Effective
<1>1. CASE tx \in pool
  BY <1>1 DEF CInv, SentOnward
<1>2. CASE \E r \in Terminal : Send(r) /\ tx \in MayBuild(r)
  <2>1. PICK r \in Terminal : Send(r) /\ tx \in MayBuild(r)
    BY <1>2
  <2>2. run[r].pc = "scanned" /\ ScannedRight(r)
    BY <2>1 DEF Send, CInv, MInv, RunsRight, RunRight
  <2>3. tx.input = run[r].info.cell /\ Written(run[r].info.cell)
    BY <2>1, <2>2, SentForms DEF CInv, Written
  <2>4. CASE tx.output.last = tx.input.last
    <3>1. tx.input.last \in Nat
      BY <2>2, <2>3, CellKinds, VerifierAssumption DEF ScannedRight, Ref, MatchCell, U64
    <3> QED BY <2>4, <3>1
  <2>5. CASE run[r].command = "extract" /\ tx.input.seller \in tx.auth
    <3>1. tx.output.last = run[r].tipBlock /\ tx.input.seller = Owner[r]
      BY <2>1, <2>2, <2>5, SentForms DEF CInv
    <3>2. Reading(r)
      BY <2>2, <2>5 DEF Reading
    <3> QED BY <2>3, <3>1, <3>2 DEF CInv, WrittenByOwn
  <2>6. ~IsOrder(tx.input)
    BY DEF IsOrder, IsMatch
  <2> QED BY <2>1, <2>2, <2>4, <2>5, <2>6, SentForms DEF CInv, Effective
<1>3. tx \in pool \/ \E r \in Terminal : Send(r) /\ tx \in MayBuild(r)
  BY DEF MarketNext, Outside, PlaceOrder, PoolStep, Settle, Include, Reject, Send,
         ToolStep, ReadTip, ScanFails, BuildFails, Finish, Kill, Step, ScanToExtract,
         ScanToMatch, ScanToUpdate, ScanToCancel, Pick, marketVars
<1> QED BY <1>1, <1>2, <1>3

LEMMA ClockStep ==
    CInv /\ [MarketNext]_marketVars => [ClockKept]_marketVars
<1> SUFFICES ASSUME CInv, [MarketNext]_marketVars, NEW e \in Slot,
                    IsMatch(cells[e]), IsMatch(cells'[e])
             PROVE  cells'[e].last >= cells[e].last
  BY DEF ClockKept
<1>0. cells[e] \in MatchCell /\ cells[e].last \in Nat
  BY CellKinds, VerifierAssumption DEF CInv, MInv, Inv, TypeOK, MatchCell, U64
<1>1. CASE cells'[e] = cells[e]
  BY <1>0, <1>1
<1>2. CASE \E tx \in pool : Include(tx) /\ tx.outpoint[1] = e
  <2>1. PICK tx \in pool : Include(tx) /\ tx.outpoint[1] = e
    BY <1>2
  <2>2. /\ tx.input = cells[e]
        /\ cells'[e] = IF tx.output = NoCell THEN Spent ELSE tx.output
        /\ tx.output \in MatchCell \cup {NoCell}
    BY <2>1, IncludeEffect DEF CInv
  <2>3. tx.output \in MatchCell /\ cells'[e] = tx.output
    BY <2>2, CellKinds
  <2>4. tx.input.last <= tx.output.last
    BY <2>1, <2>2, <2>3, OnlyEffective DEF CInv, SentOnward
  <2>5. tx.output.last \in Nat
    BY <2>3, VerifierAssumption DEF MatchCell, U64
  <2> QED BY <1>0, <2>2, <2>3, <2>4, <2>5
<1>3. cells'[e] = cells[e] \/ \E tx \in pool : Include(tx) /\ tx.outpoint[1] = e
  <2>1. CASE \E tx \in pool : Include(tx)
    BY <2>1, IncludeEffect DEF CInv
  <2>2. CASE \E d \in Slot : \E order \in OrderOffers : PlaceOrder(d, order)
    BY <1>0, <2>2, CellKinds DEF PlaceOrder, CreateOrder
  <2> QED BY <2>1, <2>2
     DEF MarketNext, Outside, Mine, OpenChannel, CloseChannel, PoolStep, Settle, Reject,
         ToolStep, ReadTip, ScanFails, Send, BuildFails, Finish, Kill, Step, ScanToExtract,
         ScanToMatch, ScanToUpdate, ScanToCancel, Pick, marketVars, vars
<1> QED BY <1>1, <1>2, <1>3

LEMMA ClockInit == MarketInit => CInv
<1> SUFFICES ASSUME MarketInit PROVE CInv
  OBVIOUS
<1>1. MInv
  BY MarketInitRight
<1>2. \A c : Written(c) => ~IsMatch(c)
  BY CellKinds DEF MarketInit, Init, Idle, Written
<1>3. \A r \in Terminal : ~Reading(r)
  BY DEF MarketInit, Idle, Reading
<1>4. SentOnward
  BY DEF MarketInit, SentOnward
<1> QED BY <1>1, <1>2, <1>3, <1>4 DEF CInv, WrittenByTip, WrittenByOwn

(* A seller who works at one terminal never turns the clock of a Match back, *)
(* whatever runs are killed and however late their transactions land.       *)
THEOREM ClockForward ==
    ASSUME OneTerminal
    PROVE  MarketSpec => ClockNeverBack
<1>1. CInv /\ [MarketNext]_marketVars => CInv'
  <2> SUFFICES ASSUME CInv, [MarketNext]_marketVars PROVE CInv'
    OBVIOUS
  <2>1. MInv'
    BY MarketStepRight DEF CInv
  <2> QED BY <2>1, WrittenKept, SentKept DEF CInv
<1> QED BY <1>1, ClockInit, ClockStep, PTL DEF MarketSpec, ClockNeverBack

-----------------------------------------------------------------------------
(* Whose matches an extraction can end or change.                           *)

Waiting(r) ==
    run[r].pc = "waiting" =>
        /\ run[r].tx.auth = {Owner[r]}
        /\ run[r].command = "extract" => IsMatch(run[r].tx.input)

WaitersRight == \A r \in Terminal : Waiting(r)

LEMMA WaitersKept ==
    ASSUME MInv, WaitersRight, [MarketNext]_marketVars
    PROVE  WaitersRight'
<1> SUFFICES ASSUME NEW r \in Terminal, run'[r].pc = "waiting"
             PROVE  Waiting(r)'
  BY DEF WaitersRight, Waiting
<1>0. run \in [Terminal -> RunState]
  BY DEF MInv, MarketTypeOK
<1>1. CASE run'[r] = run[r]
  BY <1>1 DEF WaitersRight, Waiting
<1>2. CASE Send(r)
  <2>1. PICK tx \in MayBuild(r) :
           /\ run[r].pc = "scanned"
           /\ run' = [run EXCEPT ![r] = [pc |-> "waiting", tx |-> tx,
                                         command |-> run[r].command]]
    BY <1>2 DEF Send
  <2>2. /\ run'[r].tx = tx /\ run'[r].command = run[r].command
    BY <1>0, <2>1
  <2>3. tx.auth = {Owner[r]} /\ tx.input = run[r].info.cell
    BY <2>1, SentForms
  <2>4. run[r].command = "extract" => IsMatch(run[r].info.cell)
    BY <2>1 DEF MInv, RunsRight, RunRight, ScannedRight
  <2> QED BY <2>2, <2>3, <2>4 DEF Waiting
<1>3. ToolStep(r) => Send(r)
  BY <1>0 DEF ToolStep, ReadTip, ScanFails, BuildFails, Finish, Kill, Step, Idle,
              ScanToExtract, ScanToMatch, ScanToUpdate, ScanToCancel, Pick
<1>4. run'[r] # Idle
  BY DEF Idle
<1>5. run'[r] # [pc |-> "landed", block |-> tip + 1, command |-> run[r].command]
  OBVIOUS
<1> QED BY <1>1, <1>2, <1>3, <1>4, <1>5, RunChange

LEMMA OnlyOwnLand ==
    ASSUME MInv, WaitersRight, [MarketNext]_marketVars
    PROVE  LandsOwn
<1> SUFFICES ASSUME NEW r \in Terminal, run[r].pc = "waiting",
                    run[r].command = "extract", run'[r].pc = "landed"
             PROVE  Owner[r] \in {run[r].tx.input.seller, run[r].tx.input.orderArgs.buyer}
  BY DEF LandsOwn
<1> DEFINE tx == run[r].tx
<1>0. run \in [Terminal -> RunState]
  BY DEF MInv, MarketTypeOK
<1>1. ~ToolStep(r)
  BY <1>0 DEF ToolStep, ReadTip, ScanFails, Send, BuildFails, Finish, Kill, Step, Idle,
              ScanToExtract, ScanToMatch, ScanToUpdate, ScanToCancel, Pick
<1>2. run'[r] # Idle
  BY DEF Idle
<1>3. tx \in pool /\ Include(tx)
  BY <1>1, <1>2, RunChange
<1>4. IsMatch(tx.input) /\ tx.auth = {Owner[r]}
  BY DEF WaitersRight, Waiting
<1>5. Compare(tx.input, tx.output) \notin {"order_cancel", "order_match"}
  BY <1>4, Routes DEF IsOrder, IsMatch
<1>6. SellerExtracts(tx) \/ BuyerUpdates(tx) \/ MatchDestroy(tx)
  BY <1>3, <1>5
     DEF Include, Commit, CancelOrder, MatchOrder, DestroyMatch, ExtractRent, UpdateMatch
<1> QED BY <1>4, <1>6 DEF SellerExtracts, BuyerUpdates, MatchDestroy

(* An extraction that lands was sent by a party of the match it spends, for *)
(* any index a tool is given.                                               *)
THEOREM OwnExtractions == MarketSpec => ExtractionIsOwn
<1>1. MarketInit => MInv /\ WaitersRight
  BY MarketInitRight DEF MarketInit, Idle, WaitersRight, Waiting
<1>2. MInv /\ WaitersRight /\ [MarketNext]_marketVars => (MInv /\ WaitersRight)'
  BY MarketStepRight, WaitersKept
<1>3. MInv /\ WaitersRight /\ [MarketNext]_marketVars => [LandsOwn]_marketVars
  BY OnlyOwnLand
<1> QED BY <1>1, <1>2, <1>3, PTL DEF MarketSpec, ExtractionIsOwn

=============================================================================
