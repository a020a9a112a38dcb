------------------------------ MODULE Skeleton ------------------------------
(***************************************************************************)
(* How a transaction is assembled: every instruction is a list of          *)
(* operations, and each operation changes the transaction skeleton that    *)
(* the ones before it have left.  Many of them mean "the last one so far"  *)
(* or "the number of inputs so far", so what they do depends on the order  *)
(* of operations and of instructions.                                      *)
(*                                                                         *)
(* A cell is [lock, type, data, capacity] with opaque lock and data; an    *)
(* input carries its cell, the block that included it and its outpoint.    *)
(***************************************************************************)
EXTENDS Integers, SequencesExt

CONSTANT NoText     \* the output_type field of a witness that has none

NewSkeleton == [deps |-> <<>>, headers |-> <<>>, inputs |-> <<>>,
                outputs |-> <<>>, witnesses |-> <<>>]

Newest == -1        \* usize::MAX: the element added last
At(s, index) == IF index = Newest THEN Last(s) ELSE s[index + 1]

-----------------------------------------------------------------------------
(* The operations the builders use, as records.                             *)

CellDep(dep)              == [op |-> "CellDep", dep |-> dep]
HeaderOfBlock(number)     == [op |-> "HeaderOfBlock", number |-> number]
HeaderOfInput(index)      == [op |-> "HeaderOfInput", index |-> index]
HeaderOfCellDep(index)    == [op |-> "HeaderOfCellDep", index |-> index]
Input(input)              == [op |-> "Input", input |-> input]
Output(cell)              == [op |-> "Output", cell |-> cell]
OutputOfInput(index, lock, data, adjust) ==
    [op |-> "OutputOfInput", index |-> index, lock |-> lock, data |-> data,
     adjust |-> adjust]
OutputWitness(index, data) == [op |-> "OutputWitness", index |-> index, data |-> data]

Keep == [branch |-> "Keep"]    \* lock_script: None

(* An output with the type script of an input, new data, and the lock of    *)
(* the input unless another one is given.                                   *)
Derived(cell, o) ==
    [lock |-> IF o.lock = Keep THEN cell.lock ELSE o.lock, type |-> cell.type,
     data |-> o.data, capacity |-> cell.capacity + o.adjust]

(* SetOutputWitness: the witness for an output comes after those of the     *)
(* inputs there are when the operation runs, padded with empty ones.        *)
SetOutputWitness(sk, index, data) ==
    LET place == Len(sk.inputs) + index + 1
        wits  == sk.witnesses
    IN  [sk EXCEPT !.witnesses =
            [i \in 1..(IF Len(wits) > place THEN Len(wits) ELSE place) |->
                IF i = place THEN data ELSE IF i <= Len(wits) THEN wits[i] ELSE NoText]]

AddCellDep(sk, dep)   == [sk EXCEPT !.deps = Append(@, dep)]
AddHeader(sk, number) == [sk EXCEPT !.headers = Append(@, number)]
AddInput(sk, input)   == [sk EXCEPT !.inputs = Append(@, input),
                                    !.witnesses = Append(@, NoText)]
AddOutput(sk, cell)   == [sk EXCEPT !.outputs = Append(@, cell)]

Apply(sk, o) ==
    CASE o.op = "CellDep"         -> AddCellDep(sk, o.dep)
      [] o.op = "HeaderOfBlock"   -> AddHeader(sk, o.number)
      [] o.op = "HeaderOfInput"   -> AddHeader(sk, At(sk.inputs, o.index).block)
      [] o.op = "HeaderOfCellDep" -> AddHeader(sk, At(sk.deps, o.index).block)
      [] o.op = "Input"           -> AddInput(sk, o.input)
      [] o.op = "Output"          -> AddOutput(sk, o.cell)
      [] o.op = "OutputOfInput"   -> AddOutput(sk, Derived(At(sk.inputs, o.index).cell, o))
      [] o.op = "OutputWitness"   -> SetOutputWitness(sk, o.index, o.data)

(* TransactionCalculator::new_skeleton: the operations of the instructions, *)
(* one after another.                                                       *)
Perform(sk, ops) == FoldLeft(Apply, sk, ops)
Assemble(ops)    == Perform(NewSkeleton, ops)

-----------------------------------------------------------------------------
(* Pieces of instructions.                                                  *)

Contract == [name |-> "opticrum", block |-> 0]
Sighash  == [name |-> "sighash", block |-> 0]
XudtCode == [name |-> "xudt", block |-> 0]
NoType   == "no type script"

WalletLock(owner) == [branch |-> "Wallet", owner |-> owner]
WalletCell(owner) == [lock |-> WalletLock(owner), type |-> NoType, data |-> <<>>, capacity |-> 0]
WalletInput(owner) == Input([outpoint |-> <<0, 0>>, block |-> 0, cell |-> WalletCell(owner)])

Prepare == <<CellDep(Sighash)>>

(* balance_and_sign: as many wallet cells as the outputs need, and change.  *)
Balance(owner, more) ==
    [i \in 1..more |-> WalletInput(owner)] \o <<Output(WalletCell(owner))>>

XudtDep(hasXudt) == IF hasXudt THEN <<CellDep(XudtCode)>> ELSE <<>>

-----------------------------------------------------------------------------
(* The builders.                                                            *)

CreateOrderOps(buyer, cell, hasXudt, address) ==
    <<CellDep(Contract), WalletInput(buyer)>> \o XudtDep(hasXudt) \o <<Output(cell)>>
    \o IF address = NoText THEN <<>> ELSE <<OutputWitness(0, address)>>

CancelOrderOps(buyer, order, hasXudt) ==
    <<CellDep(Contract), Input(order), WalletInput(buyer)>> \o XudtDep(hasXudt)
    \o IF hasXudt THEN <<Output([WalletCell(buyer) EXCEPT !.type = order.cell.type])>> ELSE <<>>

MatchOrderOps(seller, order, channelCell, lock, data, reserve) ==
    <<CellDep(Contract), CellDep(channelCell), HeaderOfCellDep(Newest),
      Input(order), HeaderOfInput(Newest), WalletInput(seller),
      OutputOfInput(0, lock, data, reserve)>>

(* The seller's cell comes before the match, so the match is the newest.    *)
(* Variant: the output is derived from input 0, as in the other builders.   *)
ExtractFromFirst(seller, match, channelCell, tipBlock, first, data, rent) ==
    <<CellDep(Contract), CellDep(channelCell), HeaderOfBlock(tipBlock),
      WalletInput(seller), Input(match)>>
    \o (IF first THEN <<HeaderOfInput(Newest)>> ELSE <<>>)
    \o <<OutputOfInput(0, Keep, data, -rent)>>

ExtractRentOps(seller, match, channelCell, tipBlock, first, data, rent) ==
    <<CellDep(Contract), CellDep(channelCell), HeaderOfBlock(tipBlock),
      WalletInput(seller), Input(match)>>
    \o (IF first THEN <<HeaderOfInput(Newest)>> ELSE <<>>)
    \o <<OutputOfInput(Newest, Keep, data, -rent)>>

UpdateMatchOps(buyer, match, data, capacityDelta) ==
    <<CellDep(Contract), Input(match), WalletInput(buyer),
      OutputOfInput(0, Keep, data, capacityDelta)>>

DestroyMatchOps(seller, match, tipBlock, first, hasXudt, data) ==
    <<CellDep(Contract), HeaderOfBlock(tipBlock), Input(match), WalletInput(seller)>>
    \o (IF first THEN <<HeaderOfBlock(match.block)>> ELSE <<>>)
    \o XudtDep(hasXudt)
    \o <<OutputOfInput(0, WalletLock(seller), data, 0)>>

=============================================================================
