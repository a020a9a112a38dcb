------------------------------ MODULE Assembly ------------------------------
(***************************************************************************)
(* The records of Calculator against the transactions that are assembled.  *)
(* Calculator writes down at once what the verifier reads of a transaction *)
(* a builder makes; here the tool stacks its instructions, the operations  *)
(* run in their order, and the verifier picks what it reads by position.   *)
(***************************************************************************)
EXTENDS Calculator, Skeleton

CONSTANTS
    AssemblyDeltas,     \* capacity changes a buyer may ask for
    MaxExtra            \* bound on the wallet cells a balance adds

ASSUME AssemblyAssumption ==
    /\ AssemblyDeltas \subseteq Int /\ MaxExtra \in Nat
    /\ \A dep \in {Contract, Sighash, XudtCode} : dep.name \notin Channel

(* An Opticrum cell on the chain: lock args, data, type script, capacity.   *)
OrderLock(c) == [branch |-> "Order", orderArgs |-> c.orderArgs]
OrderData(c) == [amount |-> c.amount, channelCapacity |-> c.channelCapacity, rate |-> c.rate]
MatchLock(c) == [branch |-> "Match", orderArgs |-> c.orderArgs,
                 channel |-> c.channel, seller |-> c.seller]
MatchData(c) == [amount |-> c.amount, rate |-> c.rate, last |-> c.last]

OnChain(c) ==
    [lock |-> IF IsOrder(c) THEN OrderLock(c) ELSE MatchLock(c),
     data |-> IF IsOrder(c) THEN OrderData(c) ELSE MatchData(c),
     type |-> c.token, capacity |-> c.capacity]

CellInput(info) == [outpoint |-> info.outpoint, block |-> info.currentBlock,
                    cell |-> OnChain(info.cell)]
ChannelDep(c) == [name |-> c, block |-> channels[c].block]

-----------------------------------------------------------------------------
(* What Root and the branch verifiers read, by position.                    *)

IsOpticrum(cell) == cell.lock.branch \in {"Order", "Match"}

Parsed(cell) ==
    LET lock == cell.lock
        data == cell.data
    IN  IF lock.branch = "Order"
        THEN [branch |-> "Order", orderArgs |-> lock.orderArgs, amount |-> data.amount,
              channelCapacity |-> data.channelCapacity, rate |-> data.rate,
              capacity |-> cell.capacity, token |-> cell.type]
        ELSE [branch |-> "Match", orderArgs |-> lock.orderArgs, channel |-> lock.channel,
              seller |-> lock.seller, amount |-> data.amount, rate |-> data.rate,
              last |-> data.last, capacity |-> cell.capacity, token |-> cell.type]

(* GroupInput[0]: the first input under the Opticrum lock.                  *)
GroupInput(sk) == sk.inputs[Min({i \in DOMAIN sk.inputs : IsOpticrum(sk.inputs[i].cell)})]

(* find_opticrum_script: the first output under the Opticrum lock.          *)
FindOpticrum(sk) ==
    LET places == {i \in DOMAIN sk.outputs : IsOpticrum(sk.outputs[i])}
    IN  IF places = {} THEN NoCell ELSE Parsed(sk.outputs[Min(places)])

(* has_input_lock, for locks of parties.                                    *)
InputOwners(sk) ==
    {i.cell.lock.owner : i \in {j \in ToSet(sk.inputs) : ~IsOpticrum(j.cell)}}

(* check_channel_existence.                                                 *)
DepChannels(sk) == {d.name : d \in ToSet(sk.deps)} \cap Channel

(* load_header_block_number(0).                                             *)
FirstHeader(sk) == IF sk.headers = <<>> THEN 0 ELSE sk.headers[1]

ReadBy(sk) ==
    LET own == GroupInput(sk)
    IN  [outpoint |-> own.outpoint, input |-> Parsed(own.cell), inputBlock |-> own.block,
         output |-> FindOpticrum(sk), auth |-> InputOwners(sk),
         deps |-> DepChannels(sk), headers |-> ToSet(sk.headers),
         header0 |-> FirstHeader(sk)]

-----------------------------------------------------------------------------
(* The tools' stacks: match_order completes the transaction after its       *)
(* instruction, the other tools prepare it before.                          *)

CancelStack(info, who, more) ==
    Prepare \o CancelOrderOps(who, CellInput(info), HasXudt(info.cell)) \o Balance(who, more)

MatchStack(info, who, c, more) ==
    LET new == MatchOrderTx(info, who, c).output
    IN  MatchOrderOps(who, CellInput(info), ChannelDep(c), MatchLock(new),
                      MatchData(new), Reserve)
        \o Prepare \o Balance(who, more)

DestroyOps(info, who, t) ==
    DestroyMatchOps(who, CellInput(info), t, info.cell.last = 0, HasXudt(info.cell),
                    IF HasXudt(info.cell) THEN info.cell.amount ELSE <<>>)

ExtractStack(info, who, t, more) ==
    LET old  == info.cell
        rent == ExtractionAmount(info, t)
        data == [amount |-> IF HasXudt(old) THEN Monus(old.amount, rent) ELSE 0,
                 rate |-> old.rate, last |-> t]
        ops  == IF InfoIsExhausted(info, t)
                THEN DestroyOps(info, who, t)
                ELSE ExtractRentOps(who, CellInput(info), ChannelDep(old.channel), t,
                                    old.last = 0, data, IF HasXudt(old) THEN 0 ELSE rent)
    IN  Prepare \o ops \o Balance(who, more)

UpdateStack(info, who, delta, more) ==
    Prepare \o UpdateMatchOps(who, CellInput(info), MatchData(info.cell), delta)
    \o Balance(who, more)

(* Whatever cell an escrow has come to, and however many wallet cells the   *)
(* balance adds, the assembled transaction puts before the verifier the     *)
(* cell, the output, the owner, the channel and above all the headers, tip  *)
(* first, that the builder meant (calculator.rs 233-520, the stacks of      *)
(* src/bin; state.rs 119-128, root.rs, utils.rs).                           *)
AssembledAsBuilt ==
    \A e \in Slot : Live(cells[e]) =>
        LET info == CellInfo(e, 1)
        IN  \A who \in Party, more \in 0..MaxExtra :
              IF IsOrder(cells[e])
              THEN /\ ReadBy(Assemble(CancelStack(info, who, more))) = CancelOrderTx(info, who)
                   /\ \A c \in LiveChannels :
                         ReadBy(Assemble(MatchStack(info, who, c, more)))
                            = MatchOrderTx(info, who, c)
              ELSE /\ \A t \in 0..tip :
                         ReadBy(Assemble(ExtractStack(info, who, t, more)))
                            = ExtractRentTx(info, who, t)
                   /\ \A d \in AssemblyDeltas :
                         ReadBy(Assemble(UpdateStack(info, who, d, more)))
                            = UpdateMatchTx(info, who, info.cell.amount, d)

=============================================================================
