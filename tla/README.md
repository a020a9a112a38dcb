# Opticrum in TLA+

Opticrum is a market for inbound liquidity of Fiber channels on CKB. A buyer
locks rent in an **Order** cell; a seller who has opened a channel for the buyer
turns it into a **Match** cell and extracts rent from it, a fixed number of
shannons per block, until it is used up. The rules are enforced by one lock
script; everything else (a transaction calculator, command-line tools) works
around it over a chain that moves on between any two calls.

This directory holds a TLA+ model of that system, the TLC configurations that
check it on small instances, and proofs that TLAPS checks for every instance.

## 1. Inventory

| Component | State | Operations | Hard behaviour | What makes it correct |
|---|---|---|---|---|
| Lock script (`contracts/opticrum`) | none: a predicate over a resolved transaction | Root routing; order_cancel, order_match, match_update (two paths), match_destroy | routing by shape, the header that plays the tip, boundary between exhausted and not, u64 arithmetic | a seller gets exactly the vested rent, terms never change, nothing ends early |
| Order/Match life cycle (chain) | live cell of an escrow, its block, channel cells, tip | the transactions the script accepts | any client, any order, any header as tip, channels that close | the invariants and action properties of `Escrow` |
| Calculator (`calculator.rs`, `types.rs`) | none | create, cancel, match, extract, update, destroy | works on scanned cells that may be stale; must agree with the script on rent, headers, capacity | what it builds from live cells is accepted |
| Reader (`reader.rs`) | none | query, page, parse, look up fiber addresses | sees mined blocks only; cells come and go between pages; skips what it cannot parse; requests fail one by one | everything that stayed is listed once, as what the script takes it for |
| Tools (`src/bin`) | the step they are in | read tip, scan, build, send, wait | each step may be followed by foreign transactions and blocks; a tool may be interrupted | every run ends; no block is paid twice |
| Cell layout (`opticrum-protocol`) | none | to/from bytes | lengths decide the branch, and three parsers decide by them | all parsers agree; terms survive both codecs |
| Operations (`operation.rs`) and instructions | the transaction skeleton so far | contract dep, inputs, headers, outputs, witnesses, balance | "the last input", "the number of inputs", header 0 by position | the verifier reads what the builder meant; the reader finds the address that was attached |
| Listing tools (`scan_orders`, `scan_matches`) | a listing and the index an operator takes from it | list, then use the index in another tool | the second scan is another scan, later and without the filter | an unchanged index names the same cell |
| Yield helpers (`calculator.rs`) | none | yield to shannons per block and back | rounding of f64 and to whole shannons | the yield shown is the one offered but for a few last places and a shannon per block |
| CKB node, pool, Fiber | outside the repository | mine, include, reject; open and close channels | no order among pool transactions | assumed, see 7 |
| Tests, build files | none | | | not modelled |

They interact by data only: tools call the reader and the calculator over one
RPC node, the calculator's transactions go to the pool, the node runs the lock
script of the spent cell, and what it commits is what the next scan reads.
The hazards this exposes the code to are listed in `PROJECT.json`, each with
its line and the properties that watch it.

## 2. Modules

| Module | Models | Notes |
|---|---|---|
| `Verifier` | `state.rs`, `utils.rs`, `verifiers/*` | operators only: which resolved transactions the script accepts |
| `RentStream` | nothing in the code: the abstract promise | offered, streaming, closed; paid only what is due |
| `Escrow` | the chain as the script sees it | one action per verifier path, plus blocks, channels, order creation |
| `Calculator` | `calculator.rs`, `types.rs`, parsing in `reader.rs` | the transaction record each builder assembles |
| `Market` | `src/bin`, scanning in `reader.rs`, the pool | tools as processes over `Escrow` and `Calculator` |
| `Skeleton` | `operation.rs`, the operation lists in `calculator.rs` | what each operation does to the transaction assembled so far |
| `Assembly` | the instruction stacks of `src/bin` | what the verifier reads of an assembled transaction, by position, against the records of `Calculator` |
| `Protocol` | `opticrum-protocol`, yield helpers, branch parser of `state.rs` | bytes as sequences of digits, with the lengths of the fields as constants |
| `Discovery` | `reader.rs`, `scan_orders`, `scan_matches`, the index the other tools are given | an indexer that changes between pages and scans; extends `Protocol` and `Skeleton` |
| `EscrowProofs` | theorems about `Escrow`, and that it implements `RentStream` | checked by TLAPS |
| `MarketProofs` | what `Market` inherits: the safety of `Escrow` and the refinement | checked by TLAPS |
| `SellerProofs` | the extraction clock in `Market`, and whose extractions land | checked by TLAPS |
| `AgreementProofs` | calculator and script agree in `Market` | checked by TLAPS |
| `PaidProofs` | payments in `Market` | checked by TLAPS |
| `SkeletonProofs` | what a list of operations makes of a skeleton | lemmas, checked by TLAPS |
| `AssemblyProofs` | the stacks of the tools assemble what the builders' records say | checked by TLAPS |
| `DiscoveryProofs` | codecs, f64 yields, scans, listings, addresses, indices | checked by TLAPS |
| `MCEscrow`, `MCMarket`, `MCDiscovery` | instances for TLC | values of the constants |

What extends what:

    Verifier <- Escrow <- Calculator <- Market <- MarketProofs <- SellerProofs
    Calculator, Skeleton <- Assembly         SellerProofs <- AgreementProofs, PaidProofs
    Protocol, Skeleton <- Discovery          Escrow <- EscrowProofs
    RentStream is instantiated by Escrow     Market, EscrowProofs <- MarketProofs
    Skeleton <- SkeletonProofs               Discovery, SkeletonProofs <- DiscoveryProofs
                                             Assembly, EscrowProofs, SkeletonProofs <- AssemblyProofs

**Transactions.** A resolved transaction is a record: the spent Opticrum cell
and its block, the first Opticrum output or `NoCell`, the parties whose lock is
among the inputs, the channel cells among the cell deps, the block numbers of
the header deps, and the first of them, which the script takes for the tip. This
is all that the script reads. An escrow `e` is the lineage of cells that starts
with an Order; `cells[e]` is its live cell, `block[e]` the block that included
it (`load_header(0, GroupInput)`).

**Cells.** Records with the fields of lock args and data. A lock whose args have
the length of neither branch, or whose data do not parse, is `Malformed`.
`amount` is the first field of the data; it counts as xUDT only if the cell has
a type script, as in `parse_xudt`. Lock hashes, pubkeys, outpoints and type
scripts are model values. Occupied capacity is a constant per branch and per
presence of a type script; the difference between the branches is
`ORDER_TO_MATCH_CAPACITY_RESERVE`.

**Blocks.** `tip` is the last mined block. Transactions commit into the open
block `tip + 1`, headers name mined blocks. So a transaction can be built on a
header that is arbitrarily old, and never on one from the future. Block 0 is a
legal header and is also how the code writes "never extracted".

**Tools.** A run is `idle -> (tip) -> scanned -> waiting -> landed -> idle`. What
a run has read stays in its record while the chain moves on. `Send` builds the
transaction from that record and needs, like the RPC, that the input is still
live; `Include` commits a pool transaction exactly when `Escrow` lets it commit;
`Reject` drops one that cannot commit and its sender exits. `Kill` interrupts a
run: what it sent stays in the pool. The index in a tool is whatever the operator
left there: `extract_liquidity_rent` takes the match it finds, whosever it is, and
only the tools of the buyer look at the owner, so `ScanToExtract` has no condition on
the seller and `ScanToUpdate` has one on the buyer.

**Assembled transactions.** `Calculator` writes down at once what the script reads
of a transaction. The code gets there differently: a tool stacks instructions, an
instruction is a list of operations, and an operation looks at what the ones
before it left ("the newest input", "the number of inputs so far"). `Skeleton`
runs those lists. `Assembly` reads the result the way the script does, first
Opticrum output, first header, locks of the inputs, and compares
(`AssembledAsBuilt`). The `Market` and `Escrow` models can then use the records.

**Bytes.** In `Escrow` a cell that does not parse is `Malformed`; in `Discovery`
lock args and data are byte strings, and the parsers of the contract and of the
reader decide from their lengths. The lengths are constants, so that a short
layout can be checked. Every order is created by the tool's own stack of
operations, so its witnesses are where the operations put them.

**Yields.** A yield and everything computed from it is a fraction. `Float` rounds a
fraction to the nearest multiple of a unit in the last place, half to even, with
`SIGNIFICANDS` (2^53 for f64) and the units (`Ulps`, one per exponent) as constants,
and the two helpers apply it where the code computes in f64: to the casts of capacity,
rate and blocks per year, the products and the quotients. So the model has the drift
of f64 across an integer, which decides the rate, with four bits as with 53.

**Scans.** A run of a listing or of a tool that is given an index is
`idle -> paging -> scanned -> listed or using -> idle`. The indexer orders cells
by lock args; a place of the index is filled at most once, by an order, a match,
a match with longer data or a cell that parses as neither, at any moment, also
behind the cursor. `through` (what was live from the first page on) and `changed`
are history.

**Variants.** Some definitions are preceded by a *variant* (`IsOverdrawn` before
`IsExhausted`, `FinishEarly` before `Finish`, ...). Variants are used by no
specification. Each is the definition after a plausible slip (a `<` for `<=`, a
dropped check, a swapped order) and is named under `mutants` in `PROJECT.json`
with the property that is violated when it takes the definition's place. They
show that each property depends on the code it is about.

## 3. Properties

Of `Escrow`, where any client may submit any transaction:

- `TypeOK`: among others, no accepted transaction leaves a malformed or an Order
  cell in the place of a spent one.
- `ClockWithinChain`: `last_extraction_block` is never ahead of the chain, where
  `saturating_sub` would silence the rent.
- `ChannelBetween`: order < channel < match, for every Match of the lineage.
- `TermsFixed`: rate, token, buyer, pubkey, and for a Match channel and seller,
  never change.
- `OnlyVested`: whichever header plays the tip, an extraction pays no more than
  what has vested at the real tip and leaves value in the cell, and a Match ends
  only when that rent has used it up.
- `RefinesRentStream`: all of it implements `RentStream`: a match starts with
  the pool and the rate of the offer, a payment is exactly what is due at some
  block of the chain and never empties the pool, the end needs the pool used up.
  The abstraction states two things about the code plainly. A payment that is
  nothing may leave the pool fuller (the saturating difference is 0 as well). And
  an update of a Match never paid restarts its clock.
- `EndOpen`: the end of a used-up Match is never lost. At the tip the rent may no
  longer fit in a u64, on which the script aborts, and the channel may be closed;
  some mined header still ends the Match.

Of `Assembly`:

- `AssembledAsBuilt`: for every cell an escrow comes to, every builder that
  applies to it, every tip it may have read and with or without wallet cells from
  the balance, the script reads the output, owner, channel and headers that the
  builder meant, with the tip first.

Of `Discovery`:

- `ScanExact`: a finished scan lists each cell of its kind that stayed live, once,
  and nothing else, where "of its kind" is what the script takes for an Order or a
  Match.
- `TermsAsOffered`: what a listing says of an order is what its buyer offered; the
  yield shown is at most six last places of f64 above what was asked for, which is
  what five roundings can come to, and at most five last places and one shannon per
  block below it, unless the rate has reached the greatest value its field holds,
  where the cast saturates.
- `AddressGenuine`: no address is shown but the one that was attached, and it is
  missing only for a failed request or after the balance added inputs.
- `IndexStable`: an index keeps its meaning as long as nothing changes and both
  scans ask for the same cells, whichever address requests fail.

Of `Market`:

- `FreshAccepted`: the calculator and the script agree. A transaction built from
  cells that are still live is accepted, however many blocks and transactions
  came between. The exceptions are named in the property: the channel dep was closed,
  the seller named a channel that does not serve the order, the extraction is of
  another seller's match, or the update is of a buyer who is the seller too or changes
  an xUDT amount (`Updatable`).
- `ExtractionIsOwn`: an extraction that lands is of a match its owner is a party of,
  although the tool does not look whose match its index names.
- `PaidOnce`: rent extracted so far plus rent owed now is at most the rate times
  the blocks since the match, with any updates of the buyer in between and any
  extractions and updates killed. Matching runs must not be killed, see 5.
- `ClockNeverBack`: as long as a seller works at one terminal.
- `ExhaustedEnds`, `RunsEnd`: liveness.

## 4. Runs

| Run | Instance | Shows |
|---|---|---|
| `Escrow` | one escrow, CKB or xUDT, two parties, one channel outpoint (a large or a too small channel, with or without xUDT, of Fiber or not), 5 blocks, rates 1-2, amounts 0-2, capacities from an empty pool to one above the offer, malformed and Order outputs | the script's safety, that a used-up match can be ended, the refinement, and that transactions are assembled as built |
| `MarketSafety` | one CKB escrow, two sellers with a terminal each, a buyer terminal, 5 blocks, 4 cells of the lineage, pool of 2, extraction and update runs may be killed | agreement of calculator and script, payments, clock, whose extractions land |
| `MarketLiveness` | one escrow, CKB or xUDT, a seller and a buyer terminal, 6 blocks, no kills, fairness | agreement, also for xUDT; runs end, exhausted matches end |
| `Discovery` | three places of two pubkeys, pages of one cell, up to one wallet cell from the balance, bytes 0-7 and fields of one or two bytes, floats of four bits | scans, listings, terms, addresses, indices |
| `WitnessPlace`, `FilteredIndex`, `YieldPrecision` | as `Discovery` | statements of the documentation that the code does not keep, see 5 |
| `ClockReset`, `ReserveKept`, `XudtExtraction`, `TwoTerminals`, `KilledMatch` | a seller and a buyer terminal (`TwoTerminals`: two of the seller), one escrow, CKB (`XudtExtraction`: xUDT), 6 blocks | statements of the documentation that the code does not keep, see 5 |

**Bounds.** `MaxTip` bounds the blocks: an order, a channel, a match and two extractions
need five blocks, each at least one apart, and exhaustion comes after one or two blocks
at the rates and pools chosen, so every path of the verifiers is taken with blocks to
spare. `MaxVersion` bounds the transactions of a lineage in `Market` (order, match and
up to three more cells; the transaction that ends it does not count), `MaxPool` the
transactions in the pool: two are enough for one that was killed to land while another
is under way. Two sellers are enough for an index to name a stranger's match; they may
change places with their terminals (`MCSymmetry`), and `MarketSafety` checks no
liveness, so the symmetry is sound. `U64Max` is small in the `Escrow` run, so that rate
times elapsed blocks does overflow there, and out of reach in the `Market` runs.
`Capacities`, `Amounts`, `Rates`, `RentCapacities`, `Deltas`, `AssemblyDeltas` are the
small value sets in the configurations. In `Discovery`, three places (`Places`) are
enough for a cell before, at and behind the cursor, and pages of one cell (`BATCH`) for
a page without anything that parses between two with it; one wallet cell from the
balance (`MaxExtra`) is enough to move the witness. The `Escrow` run assembles with
none, one and two. `Base` 8 with an amount and a capacity of two bytes and other fields
of one makes numbers carry from one byte to the next. `SIGNIFICANDS` 16 makes the
roundings visible in such numbers: among the offers are one without a capacity, one
whose rate is 0, one whose rate f64 rounds up to the next shannon, and one whose rate
saturates and whose capacity is no float. Deadlock is not checked: at `MaxTip` with the
escrow spent nothing is left to do. TLC's runs have one escrow: escrows share only the
tip and the channel cells, which transactions read and never write. The proofs hold for
any number.

**Fairness** (`MarketLiveness`). Weak fairness of mining, of settling each
transaction a run waits for, and of the next step of a run that has started: a
node and a process that are up go on. Strong fairness of `ReadTip` and of
`ScanToExtract` for each match: the seller comes back to run `extract_liquidity_rent`
again and again, and to each match of the listing with its index; nothing in the
repository does it for them, and without it an exhausted match simply stays.
Killed runs are left out there: a seller who is interrupted every time makes no
progress. `CutOff` excuses what commits in the block after `MaxTip`, which is
never mined; it marks the bound and not a behaviour.

## 5. Where documentation and code disagree

1. `ClockReset`: a buyer's update before the first extraction restarts the
   extraction clock, because the baseline is the block of the spent cell. The
   contract's README says it does not reset.
2. `TwoTerminals`: extraction does not have to advance the clock. An extraction
   built on an older tip is accepted after one built on a later tip, pays
   nothing and moves the clock back.
3. `XudtExtraction`: an xUDT extraction, as the README describes it and the
   calculator builds it, is rejected by the root verifier, which wants the xUDT
   amounts of both cells equal. Nor can the buyer adjust the xUDT amount, which the
   calculator's README and the comment of `update_match_buyer` say: every update to
   another amount is rejected at the same place. xUDT leaves a Match only with its end.
4. `ReserveKept`: the seller does add the 68 CKB reserve; order and match
   differ in capacity, although their unoccupied capacity is the same.
5. `KilledMatch`: an extraction run that read the tip before the match was mined
   dates the clock before the match. A seller whose matching run was interrupted
   can meet this without noticing.
6. `WitnessPlace`: the fiber address "must run after all inputs are added", and the
   tools balance after it. When the balance adds wallet cells, the address stays in
   the witness of one of those inputs and the listing shows the order without it.
7. `FilteredIndex`: the index of `match_order` is said to be that of `scan_orders`,
   which lists the orders of one pubkey; `match_order` scans for all of them, and
   the same index names another order.
8. `YieldPrecision`: the rate of an order is said to be the exact quotient, "with u128
   intermediate precision". The code computes it in f64, and the rounded quotient may
   lie on the other side of an integer. At full size: 0.0003 on 26_298_000_000 shannons
   is 3 shannons per block, and the code writes 2.

## 6. Proofs

All theorems hold for all parties, escrows, channels, terminals, offers, outputs
and bounds, from the named assumptions of the modules (`VerifierAssumption`,
`EscrowAssumption`, `MarketAssumption`: naturals for the capacities,
`MaxTip < U64Max`, well-typed offers and outputs, terminals with owners;
`AssemblyAssumption`: no system cell dep bears the name of a channel;
`ProtocolAssumption`, `DiscoveryAssumption`: a base above 1, fields of at least one
byte, pages of at least one cell, offers whose numbers fit their fields, at least 16
significands, and for each offer exponents that reach what is computed from it) and from
nothing else but the hypotheses stated in the table. They also hold for any number
of wallet cells a balance adds, of places of the index, and of bytes in a field.

| Theorem | Statement |
|---|---|
| `TypeCorrect` | `Spec => []TypeOK` |
| `ClockSafe` | `Spec => []ClockWithinChain` |
| `ChannelSafe` | `Spec => []ChannelBetween` |
| `TermsSafe` | `Spec => TermsFixed` |
| `VestedSafe` | `Spec => OnlyVested` |
| `EndReachable` | `Spec => []EndOpen` |
| `MoreDepsAccepted` | what the verifier accepts it accepts with more cell deps and header deps |
| `Refinement` | `Spec => RefinesRentStream` |
| `MarketTypeCorrect` | `MarketSpec => []MarketTypeOK` |
| `MarketClockSafe` | `MarketSpec => []ClockWithinChain` |
| `MarketTermsSafe` | `MarketSpec => TermsFixed` |
| `MarketVestedSafe` | `MarketSpec => OnlyVested` |
| `MarketRefinement` | `MarketSpec => RefinesRentStream` |
| `ClockForward` | `OneTerminal` implies `MarketSpec => ClockNeverBack` |
| `OwnExtractions` | `MarketSpec => ExtractionIsOwn` |
| `Agreement` | `PlainOffers` implies `MarketSpec => []FreshAccepted` |
| `PaidAtMostOnce` | `OneTerminal` and `MatchLasts` imply `MarketSpec => []PaidOnce` |
| `TransactionsAreAssembledAsBuilt` | `Spec => []AssembledAsBuilt` |
| `ListingsAreTyped` | `DiscoverySpec => []DiscoveryTypeOK` |
| `ScansAreExact` | `DiscoverySpec => []ScanExact` |
| `IndexIsStable` | `DiscoverySpec => []IndexStable` |
| `AddressesAreGenuine` | `DiscoverySpec => []AddressGenuine` |
| `TermsAreAsOffered` | `DiscoverySpec => []TermsAsOffered` |
| `BranchesAreRead` | what `to_bytes` writes for an Order or a Match, `BranchParse` reads as that branch with every field as it was |

**The script.** The inductive invariant is `Inv`: the three invariants of `Escrow`
and `OrderDated`. `ChannelBetween` alone is not inductive: order_match compares the
channel with the block of the spent Order cell, and the invariant speaks of the
block the order was first dated with; `OrderDated` says they are the same while the
cell is an Order. `ClockWithinChain` feeds `ChannelBetween` (a new Match cell is
dated `tip + 1`, later than the cell it replaces). The step proof has one lemma per
group of actions; the five transaction actions meet in `CommitEffect`, which says
what any committed transaction leaves behind: nothing, or a Match cell with its
clock and its channel in order.

These lemmas are about `AnyStep`, a step of `Escrow` in which the output and the
transaction are any at all, not only those of `OutputCells` and `Transactions`.
`Next` is a case of it (`NextIsAny`), and so is every commit of `Market`; that is
what lets the results carry over.

The action properties follow from `OnlyCommits` (a live cell changes only by a
transaction that spends it). `TermsFixed` is then a matter of what Root's routing
compares (`Routes`). `OnlyVested` needs arithmetic: `RentMonotone` (rent grows with the
header that plays the tip, and that header is mined) and `ExtractionTakes` (the
saturating difference equals the rent and the rent is below the value, so value
remains).

`EndReachable` needs a header that exhausts the Match without overflow. It is the
first block at which rate times elapsed reaches the value (`FirstReached`): the
product one block earlier is below the value, so here it is at most value + rate - 1,
and that is at most `U64Max`. `EndAccepted` shows that the verifier takes it.

`MoreDepsAccepted` justifies a choice of the model: `Transactions` names every
live channel and every mined header, which by this theorem loses no transaction
that a client could get accepted with fewer.

`Refinement` maps each action to one of `RentStream`: mining to `Tick`, order
creation to `Offer`, cancel to `Withdraw`, match to `Start`, extraction to
`Pay(e, t)` with the header that plays the tip for `t`, update to `Adjust`,
destruction to `Sweep(e, t)`; channels come and go in stuttering steps.
`StreamKinds` says what stream a cell stands for, `OneStream` that a transaction
touches one stream, `DueIsRent` that what the abstract stream owes is the rent
the verifier computes; there is one lemma per action.

**The market.** Runs and pool hold copies of cells that may be gone. `Ref` says
what such a copy is worth: outpoint `<<e, n>>`, cell and block belong together, `n`
is not above the current version of the escrow, and if it is the current version
and the escrow is live then the copy is the live cell. `MInv` is `Inv`,
`MarketTypeOK` and: versions count cells (`Versioned`), runs and pool transactions
hold proper references and mined headers (`RunsRight`, `PoolRight`). A commit
consumes a version, so references to it become ones to the past and stay proper.
Then every `Include` is a step any client could take (`PoolCommits`), and safety
and refinement follow from `Escrow`'s.

**The clock.** `CInv` adds that all copies of cells that are around, live, in the
pool or in a run, were written by the tip, and that those of one seller were
written no later than the tip with which the seller's terminal now works. The
terminal reads the tip before it scans, and nobody else writes this seller's clock:
that is `OneTerminal`. The run `TwoTerminals` shows that it cannot be dropped.

**Whose extractions land.** The tool builds for any index, so what keeps a stranger
out is the script alone. `WaitersRight` says that the transaction a run waits for
carries the owner's lock and no other, and spends a Match if the run extracts; it
needs `MInv`. Each path the script has for a Match asks for the seller's or the
buyer's lock, and a run is told that its transaction landed only when that one was
accepted (`OnlyOwnLand`).

**Agreement.** What the script asks of a built transaction depends on the chain only
through the cell it spends and the channel it references. `AInv` says that every
pool transaction satisfied all the rest when it was built (`Agreed`), and that a
match names the block of its channel among its headers (`Dated`). The steps are the
builders' lemmas: rent, exhaustion, reserve and headers as the calculator computes
them are those of the verifier. `PlainOffers` asks that an order without a type script
has the amount 0, as `create_order` writes it. Nothing is asked of the owners of the
terminals or of the index an extraction is given; what the script then refuses is
excepted in the property itself: a stranger's match (`SellersOwn`), an xUDT amount that
changes, which the run `XudtExtraction` shows, and an update of a buyer who is the
seller too (`Updatable`; with both locks among the inputs the script takes neither path).

**Payments.** `PInv` keeps the books of each Match: what was paid is at most the
rent from the block of the match to the base that rent is counted from (`Books`).
An extraction keeps them only if its tip is not older than the match
(`SentAfter`, `ReadAfter`), and that holds because between the sending of a match
and its block its one terminal waits (`MatchWaits`, `MatchLands`): `OneTerminal` and
`MatchLasts`, no kill of a matching run. The run `KilledMatch` shows that the second
cannot be dropped either.

**Lists of operations.** `Perform` is a fold of the community modules, which
recurses over the set of places that are left. `PerformTrace` gives its value as the
end of a trace, skeletons in which each comes from the one before by the next
operation, and `PerformBy` says that there is no other trace. What the other modules
use follows: `PerformConcat` (a stack is performed instruction by instruction),
`PerformOne` to `PerformSeven` (an instruction is unfolded operation by operation),
and a lemma per operation that says what it appends to which list (`ApplyCellDep`,
`ApplyInput`, ...). The number of wallet cells a balance adds is unbounded, so
`PerformBalance` goes by induction. The library's induction theorems take an operator
as a parameter, which the provers cannot instantiate; `Induction` takes a set instead
and rests on `<` being well-founded on the naturals: the numbers not in the set would
have a least one (`LeastNat`).

**Assembly.** `AssembledAsBuilt` is about a single state, so it follows from `TypeOK`.
The work is in the stacks: `UpdateMakes`, `CancelMakes`, `MatchMakes`, `ExtractMakes`
and `DestroyMakes` compute what each builder leaves of the skeleton it is given, and
`ReadBalanced` what the verifier reads by position after a balance: the first Opticrum
output, the first header, the locks of the inputs, for any number of wallet cells
behind the builder's own inputs. Where it looks for a first or a last element, that
is the least or greatest of a set of places (`MinLeast`, `MaxGreatest`).

**Bytes.** Both codecs of numbers are recursions, over the digits and over the bytes
(`RestIs`, `NumberValues`). That they invert each other goes by induction over the
places of the string (`Upward`, `Downward`; `RoundTrip`): from place `i` on, the bytes
are worth what is left of the number after `i` divisions by `Base`, and nothing is left
at the end if the number is no more than `Largest`. Fields are slices of what was
concatenated (`SliceTwo`, `SliceThree`), so args and data come back field by field for
any lengths, and the branches are told apart by the length of the args alone
(`BranchByLength`): match args are longer than order args whatever the lengths are.

**Discovery.** `ScanExact` speaks of finished scans and says nothing of one that is
under way, so it is not inductive. `DiscoveryInv` adds what a scan knows at its
cursor: what it has found is filled, of the kind and prefix sought, in order, each
once and not beyond the cursor, and it has everything up to the cursor that was live
from the first page on and is sought (`FoundOK`); when its paging ends, no such place
is left beyond the cursor (`PassedAll`). A page is the least of what is left and is
empty only if nothing is (`PageFirst`, `PageUpTo`). A cell that dies or a place that
is filled disturbs none of this, because `through` loses what dies and gains nothing,
and a place keeps what was there. For `IndexStable` the invariant remembers that,
while nothing has changed, `through` is all that is live (`Unchanged`), so that a scan
has found all there is in its order (`Undisturbed`), and that the index the operator
chose means the cell the operator saw (`TargetOK`). For `AddressGenuine` it keeps for
each listed place what a fetch returns there (`AddressOK`), and of each order created
by the tool that its transaction has the witnesses its stack assembles (`Goods`),
which is a matter of lists of operations again. `TermsAsOffered` needs only `Goods`, the
codecs and the arithmetic of the roundings.

**Yields.** A number and what f64 makes of it differ by a last place at the most, since
the significand is at least half of `SIGNIFICANDS` and is off by a half at the most
(`HalfEvenNear`, `FloatNear`). Bounds between fractions are multiplied through (`Scale`,
`Shares`, `Sums`) and put one after another (`Chained`); the roundings of the capacity
and of the blocks per year occur once as a factor and once as a divisor and cancel
(`Undone`), so five are left, and (s + 1)^5 is at most s^4 (s + 6), (s - 1)^5 at least
s^4 (s - 5) (`FivePlaces`). `YieldShown` puts this together with the cast, which loses
less than one (`RateFits`).

Only model-checked: the liveness properties, `ExhaustedEnds` and `RunsEnd`. They
hold under fairness, which is outside what the prover supports.

## 7. Not modelled

- Reorganisations: blocks are final. Fees and what the balancing inputs are worth:
  they touch no Opticrum cell.
- Transactions that spend several Opticrum cells or create several: Root looks at
  the first of each, and a script group of several inputs reads the first. A Match
  cell that a client creates without an order, beyond its being listed: the script
  does not run at creation.
- What of `f64` has no normal significand: infinities, NaN, subnormal and negative
  numbers. An offer is one whose intermediate results are in the range of `Ulps`.
- The framework behind `send_and_wait(&rpc, 0, None)`, which is not in the repository.
  The model takes it to return when the transaction is committed and to report a
  rejection. `PaidOnce` and `ClockNeverBack` rest on the first, since a terminal starts
  its next run only then, and `RunsEnd` on both.
- Eviction from the pool; the node drops only what can no longer commit.
- Type scripts. `create_order` and `destroy_match` add the cell dep of the xUDT code,
  `match_order`, `extract_rent` and `update_match_buyer` do not, and the tools do not
  add it for them. `Resolves` knows no cell deps but channels, so what is said of xUDT
  escrows is said for a caller who adds the dep.
- What the operator had in mind with an index. `IndexStable` and `ListedIndex` are about
  a chain on which nothing changed; if it did, an index may name any cell, and what then
  holds is `ExtractionIsOwn` and, for the tools of the buyer, their own check.
- What the tools print, and with it the channel lookup of `scan_matches` for the
  yield it prints; networks other than the testnet, which panic.
- A Match whose value is within one rate of `U64Max`, or whose xUDT amount is more
  than a u64 rent can reach, has no header that exhausts it; `EndOpen` leaves such
  values out. And `extract_liquidity_rent` always uses the newest header, so the
  older header of `EndOpen` is open to a seller and not reached by this tool.
- The test harness, build files and deployment records, which are no part of the
  system's behaviour.

## 8. What could follow

1. Several Opticrum cells in one transaction, and the script run once per group.
   `Verifier` takes the first of each as its argument; it would take sequences.
2. Two escrows that name one channel: the model allows it (the theorems hold for
   any number of escrows); there is no statement yet about what a buyer can expect
   of it.
3. Reorganisations: a tool's tip may then be on no chain, and `ClockWithinChain` is
   where this would show.
