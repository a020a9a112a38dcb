------------------------------- MODULE Market -------------------------------
(***************************************************************************)
(* Buyers and sellers at work.  A terminal runs one command-line tool at a *)
(* time; a tool reads the chain, builds a transaction with the calculator, *)
(* sends it to the pool and waits for it.  Between any two of these steps  *)
(* blocks are mined and other transactions commit, so what a tool read may *)
(* be out of date when it is used.  A tool may be killed; a transaction it *)
(* sent stays in the pool.                                                 *)
(***************************************************************************)
EXTENDS Calculator, FiniteSets

CONSTANTS
    SellerTerminal, BuyerTerminal,  \* terminals
    Owner,          \* the party that works at a terminal
    Deltas,         \* capacity changes buyers ask for (topup, decline)
    Killable,       \* commands that may be killed
    MaxVersion,     \* bound on the cells in the lineage of an escrow
    MaxPool         \* bound on the transactions in the pool

Terminal == SellerTerminal \cup BuyerTerminal

ASSUME MarketAssumption ==
    /\ Owner \in [Terminal -> Party]
    /\ Deltas \subseteq Int
    /\ Killable \subseteq {"match", "extract", "update", "cancel"}
    /\ MaxVersion \in Nat \ {0} /\ MaxPool \in Nat \ {0}

VARIABLES
    version,    \* how many cells the lineage of an escrow has had
    pool,       \* transactions sent and not yet included or rejected
    run,        \* what each terminal is doing
    matchBlock, \* history: the block that included the first Match cell
    paid        \* history: rent the seller extracted

marketVars == <<vars, version, pool, run, matchBlock, paid>>

Idle == [pc |-> "idle"]

MarketInit ==
    /\ Init
    /\ version = [e \in Slot |-> 0]
    /\ pool = {}
    /\ run = [r \in Terminal |-> Idle]
    /\ matchBlock = [e \in Slot |-> 0]
    /\ paid = [e \in Slot |-> 0]

history == <<matchBlock, paid>>

(* The live cell of e is known to the indexer once its block is mined.      *)
(* Variant: the tools also see cells of the open block.                     *)
Visible(e) == Live(cells[e])
Indexed(e) == Live(cells[e]) /\ block[e] <= tip

Fresh(outpoint) == version[outpoint[1]] = outpoint[2] /\ Live(cells[outpoint[1]])

-----------------------------------------------------------------------------
(* The tools.  A run goes idle -> (tip) -> scanned -> waiting -> landed.    *)

Step(r, next) ==
    /\ run' = [run EXCEPT ![r] = next]
    /\ UNCHANGED <<vars, version, pool, history>>

(* Variant: the node that answers lags behind.                              *)
ReadLaggingTip(r) ==
    /\ r \in SellerTerminal
    /\ run[r].pc = "idle"
    /\ \E t \in 0..tip : Step(r, [pc |-> "tip", command |-> "extract", tipBlock |-> t])

(* extract_liquidity_rent asks for the tip before it scans.                 *)
ReadTip(r) ==
    /\ r \in SellerTerminal
    /\ run[r].pc = "idle"
    /\ Step(r, [pc |-> "tip", command |-> "extract", tipBlock |-> tip])

Pick(r, command, e, tipBlock) ==
    Step(r, [pc |-> "scanned", command |-> command, tipBlock |-> tipBlock,
             info |-> CellInfo(e, version[e])])

(* The match at the index in the tool, whosever it is: the scan is that of  *)
(* all matches, and the tool does not look at the seller.                   *)
ScanToExtract(r, e) ==
    /\ run[r].pc = "tip"
    /\ Indexed(e) /\ IsMatch(cells[e])
    /\ Pick(r, "extract", e, run[r].tipBlock)

ScanToMatch(r, e) ==
    /\ r \in SellerTerminal
    /\ run[r].pc = "idle"
    /\ Indexed(e) /\ IsOrder(cells[e])
    /\ Pick(r, "match", e, 0)

(* topup_rent and decline_rent check that the match is the buyer's own.     *)
ScanToUpdate(r, e) ==
    /\ r \in BuyerTerminal
    /\ run[r].pc = "idle"
    /\ Indexed(e) /\ IsMatch(cells[e]) /\ cells[e].orderArgs.buyer = Owner[r]
    /\ Pick(r, "update", e, 0)

(* No tool of src/bin cancels; a client of the calculator does it like this. *)
ScanToCancel(r, e) ==
    /\ r \in BuyerTerminal
    /\ run[r].pc = "idle"
    /\ Indexed(e) /\ IsOrder(cells[e]) /\ cells[e].orderArgs.buyer = Owner[r]
    /\ Pick(r, "cancel", e, 0)

(* A tool that finds no match at its index exits: the index may lie beyond  *)
(* the end of any listing.                                                  *)
ScanFails(r) == run[r].pc = "tip" /\ Step(r, Idle)

(* What a scanned run may build.  The channel a seller names and the change *)
(* a buyer asks for are free.  A rent that does not fit u64 panics.         *)
MatchTxs(info, who) ==
    {MatchOrderTx(info, who, c) : c \in {d \in LiveChannels : channels[d].block <= tip}}

ExtractTxs(info, who, tipBlock) ==
    {tx \in {ExtractRentTx(info, who, tipBlock)} :
        ExtractionAmount(info, tipBlock) <= U64Max}

UpdateTxs(info, who) ==
    LET currentXudt == IF HasXudt(info.cell) THEN info.cell.amount ELSE 0
    IN  {UpdateMatchTx(info, who, currentXudt, d) : d \in Deltas}

MayBuild(r) ==
    LET info == run[r].info
        who  == Owner[r]
    IN  CASE run[r].command = "match"   -> MatchTxs(info, who)
          [] run[r].command = "extract" -> ExtractTxs(info, who, run[r].tipBlock)
          [] run[r].command = "update"  -> UpdateTxs(info, who)
          [] run[r].command = "cancel"  -> {CancelOrderTx(info, who)}

(* What the RPC needs to resolve and the node to take the transaction: the  *)
(* input is live, an output covers what it occupies and fits u64.           *)
Sendable(tx) ==
    /\ Fresh(tx.outpoint)
    /\ tx.output # NoCell =>
          /\ tx.outpoint[2] < MaxVersion
          /\ tx.output.capacity \in Occupied(tx.output)..U64Max

Send(r) ==
    /\ run[r].pc = "scanned"
    /\ Cardinality(pool) < MaxPool
    /\ \E tx \in {t \in MayBuild(r) : Sendable(t)} :
          /\ pool' = pool \cup {tx}
          /\ run' = [run EXCEPT ![r] = [pc |-> "waiting", tx |-> tx,
                                        command |-> run[r].command]]
    /\ UNCHANGED <<vars, version, history>>

BuildFails(r) ==
    /\ run[r].pc = "scanned"
    /\ \A tx \in MayBuild(r) : ~Sendable(tx)
    /\ Step(r, Idle)

(* send_and_wait returns when the transaction is in a mined block.          *)

(* Variant: it returns as soon as the transaction is taken.                 *)
FinishEarly(r) == run[r].pc = "landed" /\ Step(r, Idle)

Finish(r) ==
    /\ run[r].pc = "landed"
    /\ run[r].block <= tip
    /\ Step(r, Idle)

Kill(r) ==
    /\ run[r].pc # "idle"
    /\ run[r].command \in Killable
    /\ Step(r, Idle)

-----------------------------------------------------------------------------
(* The pool and the chain.                                                  *)

Waiters(tx, next) ==
    run' = [r \in Terminal |->
              IF run[r].pc = "waiting" /\ run[r].tx = tx THEN next[r] ELSE run[r]]

Acceptable(tx) ==
    /\ Fresh(tx.outpoint)
    /\ Resolves(tx.outpoint[1], tx)
    /\ Accepts(tx, channels)

Include(tx) ==
    LET e == tx.outpoint[1]
    IN  /\ Fresh(tx.outpoint)
        /\ Commit(e, tx)
        /\ version' = [version EXCEPT ![e] = @ + 1]
        /\ pool' = pool \ {tx}
        /\ Waiters(tx, [r \in Terminal |-> [pc |-> "landed", block |-> tip + 1,
                                            command |-> run[r].command]])
        /\ matchBlock' = IF IsOrder(tx.input) /\ IsMatch(tx.output)
                         THEN [matchBlock EXCEPT ![e] = tip + 1] ELSE matchBlock
        /\ paid' = IF IsMatch(tx.output) /\ tx.output.last # 0
                      /\ tx.input.orderArgs.buyer \notin tx.auth
                   THEN [paid EXCEPT ![e] = @ + Monus(Value(tx.input), Value(tx.output))]
                   ELSE paid

(* Variant: a tool is not told that its transaction was rejected.           *)
RejectSilently(tx) ==
    /\ ~Acceptable(tx)
    /\ pool' = pool \ {tx}
    /\ UNCHANGED <<vars, version, run, history>>

Reject(tx) ==
    /\ ~Acceptable(tx)
    /\ pool' = pool \ {tx}
    /\ Waiters(tx, [r \in Terminal |-> Idle])
    /\ UNCHANGED <<vars, version, history>>

(* create_order spends no Opticrum cell, so nothing can make it stale.      *)
PlaceOrder(e, order) ==
    /\ CreateOrder(e, order)
    /\ version' = [version EXCEPT ![e] = 1]
    /\ UNCHANGED <<pool, run, history>>

Outside ==
    /\ \/ Mine
       \/ \E c \in Channel : CloseChannel(c) \/ \E ch \in ChannelOffers : OpenChannel(c, ch)
    /\ UNCHANGED <<version, pool, run, history>>

ToolStep(r) ==
    \/ ReadTip(r) \/ ScanFails(r) \/ Send(r) \/ BuildFails(r) \/ Finish(r) \/ Kill(r)
    \/ \E e \in Slot : \/ ScanToExtract(r, e) \/ ScanToMatch(r, e)
                       \/ ScanToUpdate(r, e) \/ ScanToCancel(r, e)

Settle(tx) == Include(tx) \/ Reject(tx)
PoolStep == \E tx \in pool : Settle(tx)

MarketNext ==
    \/ Outside
    \/ \E e \in Slot : \E order \in OrderOffers : PlaceOrder(e, order)
    \/ \E r \in Terminal : ToolStep(r)
    \/ PoolStep

MarketSpec == MarketInit /\ [][MarketNext]_marketVars

-----------------------------------------------------------------------------
(* Safety.                                                                  *)

PendingTx == [outpoint: Slot \X (1..MaxVersion), input: OrderCell \cup MatchCell,
              inputBlock: 0..MaxTip, output: MatchCell \cup {NoCell},
              auth: SUBSET Party, deps: SUBSET Channel,
              headers: SUBSET (0..MaxTip), header0: 0..MaxTip]

RunState ==
    LET Info == [outpoint: Slot \X (1..MaxVersion), cell: OrderCell \cup MatchCell,
                 currentBlock: 0..MaxTip, ckbCapacity: U64]
        Command == {"match", "extract", "update", "cancel"}
    IN  {Idle}
        \cup [pc: {"tip"}, command: {"extract"}, tipBlock: 0..MaxTip]
        \cup [pc: {"scanned"}, command: Command, tipBlock: 0..MaxTip, info: Info]
        \cup [pc: {"waiting"}, command: Command, tx: PendingTx]
        \cup [pc: {"landed"}, command: Command, block: 1..(MaxTip + 1)]

MarketTypeOK ==
    /\ TypeOK
    /\ version \in [Slot -> 0..(MaxVersion + 1)]
    /\ pool \subseteq PendingTx
    /\ run \in [Terminal -> RunState]
    /\ matchBlock \in [Slot -> 0..(MaxTip + 1)]
    /\ paid \in [Slot -> Nat]

(* What a seller checks before naming a channel: opened for this order,     *)
(* after it, by Fiber, and with the liquidity it asks for.                  *)
ServesOrder(channel, order, orderedAt) ==
    LET ch == channels[channel]
    IN  /\ ch.live /\ ch.fiberLock /\ ch.block > orderedAt
        /\ order.token # NoToken => ch.token = order.token
        /\ ch.capacity >= order.channelCapacity
        /\ ch.amount >= order.amount

(* Only the seller's builders add header deps.  Nothing but the operator    *)
(* sees to it that a tool is pointed at a match of its own seller.          *)
SellersOwn(tx) == IsMatch(tx.input) /\ tx.headers # {} => tx.input.seller \in tx.auth

(* The script takes no update of a match by a buyer who is its seller too,  *)
(* and none that changes an xUDT amount.                                    *)
Updatable(tx) ==
    IsMatch(tx.input) /\ IsMatch(tx.output) =>
        /\ tx.input.seller # tx.input.orderArgs.buyer
        /\ HasXudt(tx.input) => tx.output.amount = tx.input.amount

(* The calculator and the contract agree.  A transaction the calculator     *)
(* built from cells that are still live is accepted whenever it gets to the *)
(* chain, however many blocks and other transactions came between: the two  *)
(* sides compute the same rent, exhaustion, reserve and headers             *)
(* (calculator.rs, types.rs 62-82 against state.rs, verifiers/).  The       *)
(* exceptions are the four in front of the arrow: the channel it references *)
(* was closed or does not serve the order, the match is another seller's,   *)
(* its buyer is its seller, an xUDT amount changes.                         *)
FreshAccepted ==
    \A tx \in pool :
        /\ Fresh(tx.outpoint)
        /\ tx.deps \subseteq LiveChannels
        /\ IsOrder(tx.input) /\ IsMatch(tx.output) =>
              ServesOrder(tx.output.channel, tx.input, tx.inputBlock)
        /\ SellersOwn(tx)
        /\ Updatable(tx)
        => Acceptable(tx)

(* The index in extract_liquidity_rent may be that of another match by the  *)
(* time it is used, or may always have been that of somebody else's         *)
(* (extract_liquidity_rent.rs 21-29 checks nothing; topup_rent.rs 50-57     *)
(* does).  That never ends or extracts from the match of a stranger: a run  *)
(* whose extraction lands works for a party of that very match, so a        *)
(* stranger's is rejected or out of date (match_update.rs 44-53,            *)
(* match_destroy.rs 20-24).                                                 *)
LandsOwn ==
    \A r \in Terminal :
        run[r].pc = "waiting" /\ run[r].command = "extract" /\ run'[r].pc = "landed" =>
            Owner[r] \in {run[r].tx.input.seller, run[r].tx.input.orderArgs.buyer}
ExtractionIsOwn == [][LandsOwn]_marketVars

(* As long as a seller works at one terminal, which reads the tip, scans,   *)
(* sends and waits in that order, a recorded extraction block is never      *)
(* replaced by an earlier one, not even when runs are killed and their      *)
(* transactions land later (extract_liquidity_rent.rs 23-61).               *)
ClockKept ==
    \A e \in Slot : IsMatch(cells[e]) /\ IsMatch(cells'[e]) =>
        cells'[e].last >= cells[e].last
ClockNeverBack == [][ClockKept]_marketVars

(* No block is paid for twice: what was ever extracted from a Match and     *)
(* what it owes now are together at most its rate times the blocks since it *)
(* was created, whatever the buyer does to the cell between a scan and an   *)
(* extraction and whichever extractions and updates are killed.  A killed   *)
(* match run breaks it (types.rs 62-72, state.rs 115-131, match_update.rs   *)
(* 83-103).                                                                 *)
PaidOnce ==
    \A e \in Slot : IsMatch(cells[e]) =>
        paid[e] + Vested(e) <= cells[e].rate * Monus(tip, matchBlock[e])

-----------------------------------------------------------------------------
(* Statements of the documentation that the code does not keep: each is the *)
(* property of a run that finds it violated.                                *)

(* "last_extraction_block preserved (extraction clock doesn't reset)",      *)
(* contracts/opticrum/README.md 137: an update that leaves the recorded     *)
(* block alone leaves the block rent is counted from alone.                 *)
UpdateKeepsClock ==
    [][\A e \in Slot : IsMatch(cells[e]) /\ IsMatch(cells'[e])
                       /\ cells'[e].last = cells[e].last =>
          BaseBlock(cells'[e], block'[e]) = BaseBlock(cells[e], block[e])]_marketVars

(* "Order->Match with CapacityAdjustment::Keep succeeds without the seller  *)
(* injecting CKB", config.rs 19-20: the Match cell has the capacity of the  *)
(* Order cell.                                                              *)
MatchKeepsCapacity ==
    [][\A e \in Slot : IsOrder(cells[e]) /\ IsMatch(cells'[e]) =>
          cells'[e].capacity = cells[e].capacity]_marketVars

(* "xUDT: old_xudt_amount - new_xudt_amount must equal the expected rent",  *)
(* contracts/opticrum/README.md 132, and the buyer can "adjust the xUDT     *)
(* amount", calculator README.md 102: while rent is due on an xUDT match    *)
(* and its channel is open, some transaction the calculator builds lowers   *)
(* or raises the amount, the seller's extraction or an update of the buyer. *)
XudtMoves ==
    \A e \in Slot :
        LET c    == cells[e]
            info == CellInfo(e, version[e])
        IN  /\ IsMatch(c) /\ HasXudt(c) /\ block[e] <= tip
            /\ Vested(e) \in 1..(c.amount - 1)
            /\ channels[c.channel].live
            => \/ Acceptable(ExtractTx(info, c.seller, tip))
               \/ \E a \in (0..(2 * c.amount)) \ {c.amount} :
                     Acceptable(UpdateMatchTx(info, c.orderArgs.buyer, a, 0))

-----------------------------------------------------------------------------
(* Liveness.                                                                *)

(* Blocks are mined, no transaction is left in the pool for ever, a started *)
(* tool goes on, and the sellers keep running extract_liquidity_rent and    *)
(* come back to each match at the listing.                                  *)
Fairness ==
    /\ WF_marketVars(Outside /\ Mine)
    /\ \A r \in Terminal :
          /\ WF_marketVars(run[r].pc = "waiting" /\ Settle(run[r].tx))
          /\ WF_marketVars(Send(r) \/ BuildFails(r) \/ Finish(r) \/ ScanFails(r))
          /\ \A e \in Slot : SF_marketVars(ScanToExtract(r, e))
    /\ \A r \in SellerTerminal : SF_marketVars(ReadTip(r))

FairMarketSpec == MarketSpec /\ Fairness

(* Block MaxTip + 1 is open when the bound is reached and is never mined.   *)
CutOff(n) == n = MaxTip + 1

(* A match whose rent has used up its value does not stay: the seller ends  *)
(* it, unless the buyer refills it first (extract_rent falls back to        *)
(* destroy_match, calculator.rs 314-316).                                   *)
ExhaustedEnds ==
    \A e \in Slot :
        (IsMatch(cells[e]) /\ Value(cells[e]) <= Vested(e)) ~>
            (~IsMatch(cells[e]) \/ Value(cells[e]) > Vested(e) \/ CutOff(block[e]))

(* Every run of a tool comes to an end: its transaction lands, or it is     *)
(* rejected because something else spent the cell first (send_and_wait in   *)
(* the tools of src/bin).                                                   *)
RunsEnd ==
    \A r \in Terminal :
        (run[r].pc # "idle") ~>
            (run[r].pc = "idle" \/ (run[r].pc = "landed" /\ CutOff(run[r].block)))

=============================================================================
