------------------------------ MODULE Protocol ------------------------------
(***************************************************************************)
(* The byte layout of lock args and cell data, which scripts, calculator   *)
(* and readers share (opticrum-protocol), and the yield arithmetic around  *)
(* it.  A byte string is a sequence over 0..Base-1; the lengths of the     *)
(* fields are constants, so that small ones can be checked.                *)
(***************************************************************************)
EXTENDS Integers, SequencesExt

CONSTANTS
    Base,                       \* number of values of a byte
    FIBER_PUBKEY_LEN, LOCK_HASH_LEN, TX_HASH_LEN, INDEX_LEN,
    XUDT_AMOUNT_LEN, CHANNEL_CAPACITY_LEN, SHANNONS_PER_BLOCK_LEN, BLOCKNUMBER_LEN,
    BLOCKS_PER_YEAR,
    SIGNIFICANDS,               \* 2^53: a significand of f64 is below it
    Ulps                        \* the units a float may be a multiple of

ASSUME ProtocolAssumption ==
    /\ Base \in Nat /\ Base > 1
    /\ {FIBER_PUBKEY_LEN, LOCK_HASH_LEN, TX_HASH_LEN, INDEX_LEN, XUDT_AMOUNT_LEN,
        CHANNEL_CAPACITY_LEN, SHANNONS_PER_BLOCK_LEN, BLOCKNUMBER_LEN,
        BLOCKS_PER_YEAR} \subseteq Nat \ {0}
    /\ SIGNIFICANDS \in Nat /\ SIGNIFICANDS >= 16
    /\ Ulps \subseteq [num: Nat \ {0}, den: Nat \ {0}]

ORDER_ARGS_LEN       == FIBER_PUBKEY_LEN + LOCK_HASH_LEN
CHANNEL_OUTPOINT_LEN == TX_HASH_LEN + INDEX_LEN
MATCH_ARGS_LEN       == ORDER_ARGS_LEN + CHANNEL_OUTPOINT_LEN + LOCK_HASH_LEN
ORDER_DATA_LEN == XUDT_AMOUNT_LEN + CHANNEL_CAPACITY_LEN + SHANNONS_PER_BLOCK_LEN
MATCH_DATA_LEN == XUDT_AMOUNT_LEN + SHANNONS_PER_BLOCK_LEN + BLOCKNUMBER_LEN

-----------------------------------------------------------------------------
(* to_le_bytes, from_le_bytes, and the slice of length n after the first k. *)

Byte == 0..(Base - 1)
Bytes(width) == [1..width -> Byte]

(* What is left of n after its first i bytes.                               *)
Rest(n, width) ==
    LET rest[i \in 0..width] == IF i = 0 THEN n ELSE rest[i - 1] \div Base
    IN  rest

(* Variant: the digits are not cut to a byte.                               *)
LittleEndianUncut(n, width) == [i \in 1..width |-> Rest(n, width)[i - 1]]
LittleEndian(n, width) == [i \in 1..width |-> Rest(n, width)[i - 1] % Base]
Horner(digit, rest) == digit + Base * rest
Number(bytes) == FoldRight(Horner, bytes, 0)

(* The largest number of so many bytes.                                     *)
Largest(width) == Number([i \in 1..width |-> Base - 1])

Slice(bytes, k, n) == SubSeq(bytes, k + 1, k + n)

-----------------------------------------------------------------------------
(* OutPoint, OrderArgs, MatchArgs.  A parser is defined on the lengths its  *)
(* from_slice takes.                                                        *)

OutPointBytes(o) == o.txHash \o LittleEndian(o.index, INDEX_LEN)
OutPointFrom(bytes) ==
    [txHash |-> Slice(bytes, 0, TX_HASH_LEN),
     index |-> Number(Slice(bytes, TX_HASH_LEN, INDEX_LEN))]

OrderArgsBytes(a) == a.fiberPubkey \o a.buyerLockHash
OrderArgsFrom(bytes) ==
    [fiberPubkey |-> Slice(bytes, 0, FIBER_PUBKEY_LEN),
     buyerLockHash |-> Slice(bytes, FIBER_PUBKEY_LEN, LOCK_HASH_LEN)]

MatchArgsBytes(a) ==
    OrderArgsBytes(a.orderArgs) \o OutPointBytes(a.channelOutpoint) \o a.sellerLockHash
MatchArgsFrom(bytes) ==
    [orderArgs |-> OrderArgsFrom(Slice(bytes, 0, ORDER_ARGS_LEN)),
     channelOutpoint |-> OutPointFrom(Slice(bytes, ORDER_ARGS_LEN, CHANNEL_OUTPOINT_LEN)),
     sellerLockHash |->
        Slice(bytes, ORDER_ARGS_LEN + CHANNEL_OUTPOINT_LEN, LOCK_HASH_LEN)]

-----------------------------------------------------------------------------
(* OrderData, MatchData.  Order data have one length; match data may be     *)
(* longer than what is read of them.                                        *)

OrderDataBytes(d) ==
    LittleEndian(d.xudtAmount, XUDT_AMOUNT_LEN)
    \o LittleEndian(d.channelCapacity, CHANNEL_CAPACITY_LEN)
    \o LittleEndian(d.shannonsPerBlock, SHANNONS_PER_BLOCK_LEN)
OrderDataFrom(bytes) ==
    [xudtAmount |-> Number(Slice(bytes, 0, XUDT_AMOUNT_LEN)),
     channelCapacity |-> Number(Slice(bytes, XUDT_AMOUNT_LEN, CHANNEL_CAPACITY_LEN)),
     shannonsPerBlock |->
        Number(Slice(bytes, XUDT_AMOUNT_LEN + CHANNEL_CAPACITY_LEN, SHANNONS_PER_BLOCK_LEN))]

MatchDataBytes(d) ==
    LittleEndian(d.xudtAmount, XUDT_AMOUNT_LEN)
    \o LittleEndian(d.shannonsPerBlock, SHANNONS_PER_BLOCK_LEN)
    \o LittleEndian(d.lastExtractionBlock, BLOCKNUMBER_LEN)
MatchDataFrom(bytes) ==
    [xudtAmount |-> Number(Slice(bytes, 0, XUDT_AMOUNT_LEN)),
     shannonsPerBlock |-> Number(Slice(bytes, XUDT_AMOUNT_LEN, SHANNONS_PER_BLOCK_LEN)),
     lastExtractionBlock |->
        Number(Slice(bytes, XUDT_AMOUNT_LEN + SHANNONS_PER_BLOCK_LEN, BLOCKNUMBER_LEN))]

-----------------------------------------------------------------------------
(* Branch::parse of the contract: the length of the args is the branch.     *)

Unparsable == [branch |-> "Unknown"]
OrderState(args, data) ==
    [branch |-> "Order", args |-> OrderArgsFrom(args), data |-> OrderDataFrom(data)]
MatchState(args, data) ==
    [branch |-> "Match", args |-> MatchArgsFrom(args), data |-> MatchDataFrom(data)]

BranchParse(args, data) ==
    CASE Len(args) = ORDER_ARGS_LEN ->
            IF Len(data) = ORDER_DATA_LEN THEN OrderState(args, data) ELSE Unparsable
      [] Len(args) = MATCH_ARGS_LEN ->
            IF Len(data) >= MATCH_DATA_LEN THEN MatchState(args, data) ELSE Unparsable
      [] OTHER -> Unparsable

-----------------------------------------------------------------------------
(* f64.  A number is a fraction; what f64 computes is rounded to a whole    *)
(* multiple of a unit in the last place, half to even.                      *)

Whole(n)    == [num |-> n, den |-> 1]
Product(x, y) == [num |-> x.num * y.num, den |-> x.den * y.den]
Over(x, y)  == [num |-> x.num * y.den, den |-> x.den * y.num]

HalfEven(x) ==
    LET floor == x.num \div x.den
        rest  == x.num % x.den
    IN  IF 2 * rest < x.den \/ (2 * rest = x.den /\ floor % 2 = 0)
        THEN floor ELSE floor + 1

(* x has so many units that the leading bit of the significand is set.      *)
Fits(x, ulp) ==
    LET units == Over(x, ulp)
    IN  SIGNIFICANDS * units.den <= 2 * units.num /\ units.num < SIGNIFICANDS * units.den

InRange(x) == x.num = 0 \/ \E ulp \in Ulps : Fits(x, ulp)

Float(x) ==
    IF x.num = 0 THEN Whole(0)
    ELSE LET ulp == CHOOSE u \in Ulps : Fits(x, u)
         IN  Product(Whole(HalfEven(Over(x, ulp))), ulp)

-----------------------------------------------------------------------------
(* The yield helpers.  A yield is a fraction; the cast to u64 rounds down   *)
(* and saturates.                                                           *)

RateMax == Largest(SHANNONS_PER_BLOCK_LEN)
YearFloat == Float(Whole(BLOCKS_PER_YEAR))

Revenue(channelCapacity, annualYield) ==
    Product(Float(Whole(channelCapacity)), annualYield)
PerBlock(channelCapacity, annualYield) ==
    Over(Float(Revenue(channelCapacity, annualYield)), YearFloat)

(* Variant: the cast rounds up.                                             *)
RentPerBlockRoundedUp(channelCapacity, annualYield) ==
    LET perBlock == Float(PerBlock(channelCapacity, annualYield))
        rate     == (perBlock.num + perBlock.den - 1) \div perBlock.den
    IN  IF rate <= RateMax THEN rate ELSE RateMax

AnnualYieldToRentPerBlock(channelCapacity, annualYield) ==
    LET perBlock == Float(PerBlock(channelCapacity, annualYield))
        rate     == perBlock.num \div perBlock.den
    IN  IF rate <= RateMax THEN rate ELSE RateMax

PerYear(rate) == Product(Float(Whole(rate)), YearFloat)
YieldOf(rate, capacity) == Over(Float(PerYear(rate)), Float(Whole(capacity)))

RentPerBlockToAnnualYield(rate, capacity) ==
    IF capacity = 0 THEN Whole(0) ELSE Float(YieldOf(rate, capacity))

(* All that is rounded between a yield and the yield shown for it.          *)
Rounded(capacity, annualYield) ==
    LET rate == AnnualYieldToRentPerBlock(capacity, annualYield)
    IN  {Whole(capacity), Whole(BLOCKS_PER_YEAR), Revenue(capacity, annualYield),
         PerBlock(capacity, annualYield), Whole(rate), PerYear(rate)}
        \cup IF capacity = 0 THEN {} ELSE {YieldOf(rate, capacity)}

=============================================================================
