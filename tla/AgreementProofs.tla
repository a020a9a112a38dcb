-------------------------- MODULE AgreementProofs --------------------------
(***************************************************************************)
(* The calculator and the contract agree: FreshAccepted for any terminals, *)
(* owners, channels, offers and bounds, CKB and xUDT.                      *)
(*                                                                         *)
(* What the verifier asks of a built transaction depends on the chain only *)
(* through the cells it spends and the channel it references.  So the      *)
(* invariant is that a transaction in the pool satisfied, and goes on      *)
(* satisfying, everything else (Agreed, Dated).                            *)
(***************************************************************************)
EXTENDS SellerProofs

(* A cell without a type script has the amount 0, as create_order writes it. *)
Plain(c) == c.token = NoToken => c.amount = 0
PlainOffers == \A o \in OrderOffers : Plain(o)

(* What OrderMatch asks for apart from the state of the channel.            *)
MatchAgreed(tx) ==
    /\ tx.output.channel \in tx.deps
    /\ tx.output.seller \in tx.auth
    /\ tx.output.rate = tx.input.rate
    /\ tx.output.last = 0
    /\ PoolTransferred(tx)
    /\ tx.input.amount = tx.output.amount
    /\ tx.inputBlock \in tx.headers

Verified(tx) ==
    LET pattern == Compare(tx.input, tx.output)
    IN  \/ pattern = "order_cancel"  /\ OrderCancel(tx)
        \/ pattern = "order_match"   /\ MatchAgreed(tx)
        \/ pattern = "match_update"  /\ MatchUpdate(tx)
        \/ pattern = "match_destroy" /\ MatchDestroy(tx)

Agreed(tx) ==
    /\ tx.output # NoCell => Plain(tx.output) /\ tx.output.capacity >= Occupied(tx.output)
    /\ SellersOwn(tx) /\ Updatable(tx) => Verified(tx)

(* The channel of a match was created, and its block is among the headers.  *)
Dated(tx) ==
    IsOrder(tx.input) /\ IsMatch(tx.output) =>
        /\ tx.output.channel \in Channel
        /\ Created(channels[tx.output.channel])
        /\ channels[tx.output.channel].block \in tx.headers

AInv ==
    /\ MInv
    /\ \A c \in Channel : channels[c].live => Created(channels[c])
    /\ \A e \in Slot : Live(cells[e]) => Plain(cells[e])
    /\ \A r \in Terminal : run[r].pc = "scanned" => Plain(run[r].info.cell)
    /\ \A tx \in pool : Agreed(tx) /\ Dated(tx)

-----------------------------------------------------------------------------
(* The invariant implies the property.                                      *)

LEMMA AgreedAccepted == AInv => FreshAccepted
<1> SUFFICES ASSUME AInv, NEW tx \in pool, Fresh(tx.outpoint),
                    tx.deps \subseteq LiveChannels,
                    IsOrder(tx.input) /\ IsMatch(tx.output) =>
                        ServesOrder(tx.output.channel, tx.input, tx.inputBlock),
                    SellersOwn(tx), Updatable(tx)
             PROVE  Acceptable(tx)
  BY DEF FreshAccepted
<1> DEFINE e == tx.outpoint[1]
<1>1. TxRight(tx) /\ Agreed(tx) /\ Dated(tx)
  BY DEF AInv, MInv, PoolRight
<1>2. /\ tx.input = cells[e] /\ tx.inputBlock = block[e] /\ e \in Slot
      /\ tx.headers \subseteq 0..tip
  BY <1>1 DEF TxRight, Ref, Fresh
<1>4. Resolves(e, tx)
  BY <1>1, <1>2, CellKinds DEF Resolves, Agreed
<1>5. ASSUME Compare(tx.input, tx.output) = "order_match", MatchAgreed(tx)
      PROVE  OrderMatch(tx, channels)
  <2>1. IsOrder(tx.input) /\ IsMatch(tx.output)
    BY <1>5, Routes
  <2>2. ServesOrder(tx.output.channel, tx.input, tx.inputBlock)
    BY <2>1
  <2>3. FindChannel(tx, channels)
    BY <1>5, <2>2 DEF FindChannel, MatchAgreed, ServesOrder, HasXudt
  <2>4. channels[tx.output.channel].block \in tx.headers
    BY <1>1, <2>1 DEF Dated
  <2>5. ChannelNewer(tx, channels)
    BY <2>2 DEF ServesOrder, ChannelNewer
  <2> QED BY <1>5, <2>3, <2>4, <2>5 DEF OrderMatch, MatchAgreed
<1>6. Accepts(tx, channels)
  BY <1>1, <1>5 DEF Agreed, Verified, Accepts
<1> QED BY <1>4, <1>6 DEF Acceptable

-----------------------------------------------------------------------------
(* What the builders make of a plain cell.                                  *)

LEMMA MatchAgrees ==
    ASSUME NEW info, info.cell \in OrderCell, Plain(info.cell), NEW who, NEW c
    PROVE  LET tx == MatchOrderTx(info, who, c)
           IN  Plain(tx.output) /\ Verified(tx)
<1> DEFINE tx == MatchOrderTx(info, who, c)
           new == tx.output
           order == info.cell
<1>1. new = [branch |-> "Match", orderArgs |-> order.orderArgs,
             channel |-> c, seller |-> who, amount |-> order.amount,
             rate |-> order.rate, last |-> 0,
             capacity |-> order.capacity + Reserve, token |-> order.token]
  BY DEF MatchOrderTx, Built, Plain, MatchCapacity
<1>2. /\ tx.input = order /\ tx.inputBlock = info.currentBlock /\ tx.auth = {who}
      /\ tx.deps = {c} /\ info.currentBlock \in tx.headers
  BY DEF MatchOrderTx, Built
<1>3. Plain(new) /\ IsMatch(new) /\ ~IsOrder(new) /\ new # NoCell
  BY <1>1 DEF Plain, IsMatch, IsOrder, NoCell
<1>4. IsOrder(order) /\ ~IsMatch(order) /\ order.capacity \in Nat
  BY CellKinds, VerifierAssumption DEF OrderCell, U64
<1>5. PoolTransferred(tx)
  <2>1. new.capacity = order.capacity + Reserve /\ new.token = order.token
    BY <1>1
  <2>2. Occupied(new) = Occupied(order) + Reserve /\ Occupied(order) \in Nat
    <3> HIDE DEF new, order
    <3> QED BY <1>3, <1>4, <2>1, VerifierAssumption DEF Occupied
  <2>3. Unoccupied(order) = Unoccupied(new)
    <3> HIDE DEF new, order
    <3> QED BY <1>4, <2>1, <2>2, VerifierAssumption DEF Unoccupied, Monus
  <2> QED BY <1>2, <2>3 DEF PoolTransferred
<1>6. Compare(order, new) = "order_match"
  BY <1>1, <1>3, <1>4 DEF Compare, NoOutput, SameXudt
<1>7. MatchAgreed(tx)
  BY <1>1, <1>2, <1>5 DEF MatchAgreed
<1> QED BY <1>2, <1>3, <1>6, <1>7 DEF Verified

(* The seller's side: the tool and the verifier compute the same rent.  An  *)
(* xUDT extraction that takes anything changes the amount, see Updatable.   *)
LEMMA ExtractAgrees ==
    ASSUME NEW info, info.cell \in MatchCell, Plain(info.cell),
           info.currentBlock \in Nat, info.ckbCapacity = Unoccupied(info.cell),
           NEW who, NEW t \in Nat, ExtractionAmount(info, t) <= U64Max
    PROVE  LET tx == ExtractRentTx(info, who, t)
           IN  /\ tx.output # NoCell => Plain(tx.output)
               /\ SellersOwn(tx) /\ Updatable(tx) => Verified(tx)
<1> DEFINE tx == ExtractRentTx(info, who, t)
           old == info.cell
           rent == ExtractionAmount(info, t)
<1>1. /\ IsMatch(old) /\ ~IsOrder(old) /\ old.capacity \in Nat /\ old.rate \in Nat
      /\ old.last \in Nat /\ old.amount \in Nat
  BY CellKinds, VerifierAssumption DEF MatchCell, U64
<1>2. /\ tx.input = old /\ tx.inputBlock = info.currentBlock /\ tx.auth = {who}
      /\ tx.header0 = t /\ tx.headers = ClockHeaders(info, t)
  BY DEF ExtractRentTx, DestroyMatchTx, ExtractTx, Built
<1>3. TxRent(tx) = rent /\ RentIsKnown(tx)
  <2>1. TxRent(tx) = rent
    BY <1>2 DEF TxRent, Rent, BaseBlock, ExtractionAmount
  <2> QED BY <1>2, <2>1 DEF RentIsKnown, ClockHeaders
<1>4. SellersOwn(tx) => old.seller \in tx.auth
  BY <1>1, <1>2 DEF SellersOwn, ClockHeaders
<1>5. IsExhausted(tx) <=> InfoIsExhausted(info, t)
  BY <1>2, <1>3 DEF IsExhausted, InfoIsExhausted, Value, HasXudt
<1>6. CASE InfoIsExhausted(info, t)
  <2>1. tx.output = NoCell
    BY <1>6 DEF ExtractRentTx, DestroyMatchTx, Built
  <2>2. SellersOwn(tx) => MatchDestroy(tx)
    BY <1>2, <1>3, <1>4, <1>5, <1>6 DEF MatchDestroy
  <2>3. Compare(old, NoCell) = "match_destroy"
    BY <1>1 DEF Compare, NoOutput
  <2> QED BY <1>2, <2>1, <2>2, <2>3 DEF Verified
<1>7. CASE ~InfoIsExhausted(info, t)
  <2> DEFINE new == tx.output
  <2>1. /\ tx = ExtractTx(info, who, t)
        /\ new = [old EXCEPT
                    !.last = t,
                    !.amount = IF old.token = NoToken THEN 0 ELSE Monus(@, rent),
                    !.capacity = IF old.token = NoToken THEN @ - rent ELSE @]
        /\ tx.deps = {old.channel}
    BY <1>7 DEF ExtractRentTx, ExtractTx, Built
  <2>2. /\ IsMatch(new) /\ ~IsOrder(new) /\ new # NoCell
        /\ new.orderArgs = old.orderArgs /\ new.channel = old.channel
        /\ new.seller = old.seller /\ new.rate = old.rate
        /\ new.token = old.token /\ new.last = t
        /\ new.amount = IF old.token = NoToken THEN 0 ELSE Monus(old.amount, rent)
        /\ new.capacity = IF old.token = NoToken THEN old.capacity - rent ELSE old.capacity
    BY <1>1, <2>1 DEF MatchCell, IsMatch, IsOrder, NoCell
  <2>3. Plain(new)
    BY <2>2 DEF Plain
  <2>4. rent \in Nat
    BY <1>1 DEF ExtractionAmount, Monus
  <2>5. ASSUME SellersOwn(tx), Updatable(tx) PROVE Verified(tx)
    <3>1. /\ old.seller \in tx.auth /\ old.seller # old.orderArgs.buyer
          /\ HasXudt(old) => new.amount = old.amount
      BY <1>1, <1>2, <1>4, <2>2, <2>5 DEF Updatable
    <3>2. Compare(old, new) = "match_update"
      BY <1>1, <2>2, <3>1 DEF Compare, NoOutput, SameMatchArgs, SameXudt, HasXudt
    <3>3. RentTaken(tx)
      <4>1. CASE HasXudt(old)
        <5>1. ~(old.amount <= rent) /\ new.amount = Monus(old.amount, rent)
          BY <1>7, <2>2, <4>1 DEF InfoIsExhausted, HasXudt
        <5>2. rent = Monus(old.amount, new.amount)
          <6> HIDE DEF rent, old, new
          <6> QED BY <1>1, <2>4, <3>1, <4>1, <5>1 DEF Monus
        <5> QED BY <1>2, <1>3, <4>1, <5>2 DEF RentTaken
      <4>2. CASE ~HasXudt(old)
        <5>1. /\ ~(Unoccupied(old) <= rent) /\ new.capacity = old.capacity - rent
              /\ Occupied(new) = Occupied(old) /\ Occupied(old) \in Nat
          BY <1>1, <1>7, <2>2, <4>2, VerifierAssumption DEF InfoIsExhausted, HasXudt, Occupied
        <5>2. rent = Monus(Unoccupied(old), Unoccupied(new))
          <6> HIDE DEF rent, old, new
          <6> QED BY <1>1, <2>4, <5>1 DEF Unoccupied, Monus
        <5> QED BY <1>2, <1>3, <4>2, <5>2 DEF RentTaken
      <4> QED BY <4>1, <4>2
    <3>4. SellerExtracts(tx)
      <4>1. old.orderArgs.buyer \notin tx.auth
        BY <1>2, <3>1
      <4> QED BY <1>2, <1>3, <1>5, <1>7, <2>1, <2>2, <3>1, <3>3, <4>1
          DEF SellerExtracts, SameRate, ClockAtTip
    <3> QED BY <1>2, <3>2, <3>4 DEF Verified, MatchUpdate
  <2> QED BY <2>3, <2>5
<1> QED BY <1>6, <1>7

(* The amount the tools keep in an update.                                  *)
Kept(c) == IF HasXudt(c) THEN c.amount ELSE 0

LEMMA UpdateAgrees ==
    ASSUME NEW info, info.cell \in MatchCell, Plain(info.cell), NEW d,
           NEW buyer, buyer = info.cell.orderArgs.buyer
    PROVE  LET tx == UpdateMatchTx(info, buyer, Kept(info.cell), d)
           IN  Plain(tx.output) /\ (Updatable(tx) => Verified(tx))
<1> DEFINE tx == UpdateMatchTx(info, buyer, Kept(info.cell), d)
           new == tx.output
           old == info.cell
<1>1. IsMatch(old) /\ ~IsOrder(old)
  BY CellKinds
<1>2. /\ new = [old EXCEPT !.amount = Kept(old), !.capacity = @ + d]
      /\ tx.input = old /\ tx.auth = {buyer}
  BY DEF UpdateMatchTx, Built
<1>3. /\ IsMatch(new) /\ ~IsOrder(new) /\ new # NoCell
      /\ new.orderArgs = old.orderArgs /\ new.channel = old.channel
      /\ new.seller = old.seller /\ new.rate = old.rate
      /\ new.token = old.token /\ new.last = old.last /\ new.amount = Kept(old)
  BY <1>1, <1>2 DEF MatchCell, IsMatch, IsOrder, NoCell
<1>4. Plain(new)
  BY <1>3 DEF Plain, Kept, HasXudt
<1>5. Compare(old, new) = "match_update"
  BY <1>1, <1>3 DEF Compare, NoOutput, SameMatchArgs, SameXudt, Kept, HasXudt
<1>6. Updatable(tx) => BuyerUpdates(tx)
  BY <1>1, <1>2, <1>3 DEF BuyerUpdates, SameRate, Updatable
<1> QED BY <1>2, <1>4, <1>5, <1>6 DEF Verified, MatchUpdate

LEMMA SentAgrees ==
    ASSUME AInv, NEW r \in Terminal, run[r].pc = "scanned",
           NEW tx \in MayBuild(r), Sendable(tx)
    PROVE  Agreed(tx) /\ Dated(tx)
<1> DEFINE info == run[r].info
           who  == Owner[r]
<1>1. /\ ScannedRight(r) /\ Plain(info.cell) /\ run[r].command \in Command
      /\ info.cell \in OrderCell \cup MatchCell
      /\ info.currentBlock \in Nat /\ run[r].tipBlock \in Nat
  <2>1. ScannedRight(r) /\ Plain(info.cell) /\ run[r].command \in Command /\ tip \in Nat
    BY RunKinds, EscrowAssumption
       DEF AInv, MInv, Inv, TypeOK, MarketTypeOK, RunsRight, RunRight
  <2> QED BY <2>1 DEF ScannedRight, Ref
<1>2. tx.output # NoCell => tx.output.capacity >= Occupied(tx.output)
  BY OccupiedNat DEF Sendable
<1>3. IsOrder(tx.input) /\ IsMatch(tx.output) => run[r].command = "match"
  BY SentForms DEF AInv, IsOrder, IsMatch
<1>4. CASE run[r].command = "match"
  <2>1. PICK c \in LiveChannels : tx = MatchOrderTx(info, who, c)
    BY <1>4 DEF MayBuild, MatchTxs
  <2>2. info.cell \in OrderCell /\ r \in SellerTerminal
    BY <1>1, <1>4, CellKinds DEF ScannedRight
  <2>3. Plain(tx.output) /\ Verified(tx)
    BY <1>1, <2>1, <2>2, MatchAgrees
  <2>4. Dated(tx)
    <3>1. tx.output.channel = c /\ channels[c].block \in tx.headers
      BY <2>1 DEF MatchOrderTx, Built
    <3>2. c \in Channel /\ Created(channels[c])
      BY DEF LiveChannels, AInv
    <3> QED BY <3>1, <3>2 DEF Dated
  <2> QED BY <1>2, <2>3, <2>4 DEF Agreed
<1>5. CASE run[r].command = "extract"
  <2>1. tx = ExtractRentTx(info, who, run[r].tipBlock)
        /\ ExtractionAmount(info, run[r].tipBlock) <= U64Max
    BY <1>5 DEF MayBuild, ExtractTxs
  <2>2. /\ info.cell \in MatchCell /\ info.ckbCapacity = Unoccupied(info.cell)
    BY <1>1, <1>5, CellKinds DEF ScannedRight
  <2>3. /\ tx.output # NoCell => Plain(tx.output)
        /\ SellersOwn(tx) /\ Updatable(tx) => Verified(tx)
    BY <1>1, <2>1, <2>2, ExtractAgrees
  <2> QED BY <1>2, <1>3, <1>5, <2>3 DEF Agreed, Dated
<1>6. CASE run[r].command = "update"
  <2>1. PICK d : tx = UpdateMatchTx(info, who, Kept(info.cell), d)
    BY <1>1, <1>6 DEF MayBuild, UpdateTxs, Kept
  <2>2. info.cell \in MatchCell /\ who = info.cell.orderArgs.buyer
    BY <1>1, <1>6, CellKinds DEF ScannedRight
  <2>3. Plain(tx.output) /\ (Updatable(tx) => Verified(tx))
    BY <1>1, <2>1, <2>2, UpdateAgrees
  <2> QED BY <1>2, <1>3, <1>6, <2>3 DEF Agreed, Dated
<1>7. CASE run[r].command = "cancel"
  <2>1. tx = CancelOrderTx(info, who)
    BY <1>7 DEF MayBuild
  <2>2. tx.output = NoCell /\ tx.input = info.cell /\ tx.auth = {who}
    BY <2>1 DEF CancelOrderTx, Built
  <2>3. IsOrder(info.cell) /\ who = info.cell.orderArgs.buyer
    BY <1>1, <1>7 DEF ScannedRight
  <2>4. Verified(tx)
    BY <2>2, <2>3 DEF Verified, Compare, NoOutput, OrderCancel
  <2> QED BY <1>3, <1>7, <2>2, <2>4 DEF Agreed, Dated
<1> QED BY <1>1, <1>4, <1>5, <1>6, <1>7 DEF Command

-----------------------------------------------------------------------------
(* The invariant is inductive.                                              *)

(* Once created, a channel outpoint keeps its block.                        *)
LEMMA ChannelsKept ==
    ASSUME MInv, [MarketNext]_marketVars,
           \A c \in Channel : channels[c].live => Created(channels[c])
    PROVE  /\ \A c \in Channel : channels'[c].live => Created(channels'[c])
           /\ \A c \in Channel : Created(channels[c]) =>
                 Created(channels'[c]) /\ channels'[c].block = channels[c].block
<1>0. TypeOK /\ tip \in Nat
  BY EscrowAssumption DEF MInv, Inv, TypeOK
<1>1. CASE channels' = channels
  BY <1>1
<1>2. ASSUME NEW c \in Channel, CloseChannel(c) \/ \E ch \in ChannelOffers : OpenChannel(c, ch)
      PROVE  /\ \A d \in Channel : channels'[d].live => Created(channels'[d])
             /\ \A d \in Channel : Created(channels[d]) =>
                   Created(channels'[d]) /\ channels'[d].block = channels[d].block
  BY <1>0, <1>2 DEF CloseChannel, OpenChannel, Created, TypeOK
<1>3. CASE \E tx \in pool : Include(tx)
  <2>1. PICK tx \in pool : Include(tx)
    BY <1>3
  <2>2. channels' = channels
    BY <2>1 DEF Include, Commit, CancelOrder, MatchOrder, ExtractRent, UpdateMatch,
                DestroyMatch, Spend
  <2> QED BY <1>1, <2>2
<1>4. \/ channels' = channels \/ \E tx \in pool : Include(tx)
      \/ \E c \in Channel : CloseChannel(c) \/ \E ch \in ChannelOffers : OpenChannel(c, ch)
  BY DEF MarketNext, Outside, Mine, PlaceOrder, CreateOrder, PoolStep, Settle, Reject,
         ToolStep, ReadTip, ScanFails, Send, BuildFails, Finish, Kill, Step, ScanToExtract,
         ScanToMatch, ScanToUpdate, ScanToCancel, Pick, marketVars, vars
<1> QED BY <1>1, <1>2, <1>3, <1>4

LEMMA PlainKept ==
    ASSUME PlainOffers, AInv, [MarketNext]_marketVars
    PROVE  /\ \A e \in Slot : Live(cells'[e]) => Plain(cells'[e])
           /\ \A r \in Terminal : run'[r].pc = "scanned" => Plain(run'[r].info.cell)
<1>0. MInv /\ cells \in [Slot -> Cell]
  BY DEF AInv, MInv, Inv, TypeOK
<1>1. ASSUME NEW e \in Slot, Live(cells'[e]) PROVE Plain(cells'[e])
  <2>1. CASE cells' = cells
    BY <1>1, <2>1 DEF AInv
  <2>2. CASE \E d \in Slot : \E order \in OrderOffers : PlaceOrder(d, order)
    <3>1. PICK d \in Slot : \E order \in OrderOffers : PlaceOrder(d, order)
      BY <2>2
    <3>2. PICK order \in OrderOffers : PlaceOrder(d, order)
      BY <3>1
    <3>3. cells' = [cells EXCEPT ![d] = order] /\ ~IsMatch(order)
      BY <3>2, EscrowAssumption, CellKinds DEF PlaceOrder, CreateOrder
    <3>4. Plain(order)
      BY <3>3 DEF PlainOffers
    <3> QED BY <1>0, <1>1, <3>3, <3>4 DEF AInv
  <2>3. CASE \E tx \in pool : Include(tx)
    <3>1. PICK tx \in pool : Include(tx)
      BY <2>3
    <3>2. /\ cells'[tx.outpoint[1]] = IF tx.output = NoCell THEN Spent ELSE tx.output
          /\ \A d \in Slot : d # tx.outpoint[1] => cells'[d] = cells[d]
      BY <1>0, <3>1, IncludeEffect
    <3>3. tx.output # NoCell => Plain(tx.output)
      BY DEF AInv, Agreed
    <3>4. ~Live(Spent)
      BY CellKinds DEF Live
    <3> QED BY <1>1, <3>2, <3>3, <3>4 DEF AInv
  <2>4. \/ cells' = cells
        \/ \E d \in Slot : \E order \in OrderOffers : PlaceOrder(d, order)
        \/ \E tx \in pool : Include(tx)
    BY DEF MarketNext, Outside, Mine, OpenChannel, CloseChannel, PoolStep, Settle, Reject,
           ToolStep, ReadTip, ScanFails, Send, BuildFails, Finish, Kill, Step, ScanToExtract,
           ScanToMatch, ScanToUpdate, ScanToCancel, Pick, marketVars, vars
  <2> QED BY <2>1, <2>2, <2>3, <2>4
<1>2. ASSUME NEW r \in Terminal, run'[r].pc = "scanned" PROVE Plain(run'[r].info.cell)
  <2>1. CASE run'[r] = run[r]
    BY <1>2, <2>1 DEF AInv
  <2>2. CASE ToolStep(r)
    <3>1. PICK e \in Slot : Indexed(e) /\ run'[r].info = CellInfo(e, version[e])
      BY <1>0, <1>2, <2>2, ScannedStep
    <3>2. run'[r].info.cell = cells[e]
      BY <3>1 DEF CellInfo
    <3> QED BY <3>1, <3>2 DEF AInv, Indexed
  <2> QED BY <1>0, <1>2, <2>1, <2>2, RunLearns
<1> QED BY <1>1, <1>2

LEMMA AgreedKept ==
    ASSUME AInv, [MarketNext]_marketVars
    PROVE  \A tx \in pool' : Agreed(tx) /\ Dated(tx)'
<1> SUFFICES ASSUME NEW tx \in pool' PROVE Agreed(tx) /\ Dated(tx)'
  OBVIOUS
<1>1. Agreed(tx) /\ Dated(tx)
  <2>1. CASE tx \in pool
    BY <2>1 DEF AInv
  <2>2. CASE \E r \in Terminal : Send(r)
    <3>1. PICK r \in Terminal : Send(r)
      BY <2>2
    <3>2. PICK new \in {t \in MayBuild(r) : Sendable(t)} : pool' = pool \cup {new}
      BY <3>1 DEF Send
    <3>3. Agreed(new) /\ Dated(new)
      BY <3>1, <3>2, SentAgrees DEF Send
    <3> QED BY <2>1, <3>2, <3>3
  <2>3. pool' \subseteq pool \/ \E r \in Terminal : Send(r)
    BY DEF MarketNext, Outside, PlaceOrder, PoolStep, Settle, Include, Reject,
           ToolStep, ReadTip, ScanFails, BuildFails, Finish, Kill, Step, ScanToExtract,
           ScanToMatch, ScanToUpdate, ScanToCancel, Pick, marketVars
  <2> QED BY <2>1, <2>2, <2>3
<1>2. Dated(tx)'
  BY <1>1, ChannelsKept DEF AInv, Dated
<1> QED BY <1>1, <1>2

LEMMA AgreementInit == MarketInit => AInv
<1> SUFFICES ASSUME MarketInit PROVE AInv
  OBVIOUS
<1>1. MInv
  BY MarketInitRight
<1>2. \A e \in Slot : ~Live(cells[e])
  BY CellKinds DEF MarketInit, Init, Live
<1>3. \A c \in Channel : ~channels[c].live
  BY DEF MarketInit, Init, NoChannelCell
<1>4. pool = {} /\ \A r \in Terminal : run[r].pc # "scanned"
  BY DEF MarketInit, Idle
<1> QED BY <1>1, <1>2, <1>3, <1>4 DEF AInv

(* A transaction the calculator built from cells that are still live, and   *)
(* whose channel is open and serves the order, is accepted however many     *)
(* blocks and transactions came between, unless a tool was pointed at the   *)
(* match of another seller or of a buyer who is its seller, or an xUDT      *)
(* amount would change.                                                     *)
THEOREM Agreement ==
    ASSUME PlainOffers
    PROVE  MarketSpec => []FreshAccepted
<1>1. AInv /\ [MarketNext]_marketVars => AInv'
  <2> SUFFICES ASSUME AInv, [MarketNext]_marketVars PROVE AInv'
    OBVIOUS
  <2>1. MInv'
    BY MarketStepRight DEF AInv
  <2>2. \A c \in Channel : channels'[c].live => Created(channels'[c])
    BY ChannelsKept DEF AInv
  <2>3. \A e \in Slot : Live(cells'[e]) => Plain(cells'[e])
    BY PlainKept
  <2>4. \A r \in Terminal : run'[r].pc = "scanned" => Plain(run'[r].info.cell)
    BY PlainKept
  <2>5. \A tx \in pool' : Agreed(tx) /\ Dated(tx)'
    BY AgreedKept
  <2> QED BY <2>1, <2>2, <2>3, <2>4, <2>5 DEF AInv
<1> QED BY <1>1, AgreementInit, AgreedAccepted, PTL DEF MarketSpec

=============================================================================
