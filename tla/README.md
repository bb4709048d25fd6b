# Formal models of the DMS store purchase server

This directory holds TLA+ models of `dms-save-purchase`, the TLC configurations
that check them on small instances, and proofs of their main properties that
TLAPS checks for every value of the constants. Every definition is translated
from the sources under `src/`; `PROJECT.json` ("map") names the lines.

    tlc -config MCRollup.cfg MCRollup        # one run
    tlapm SchedulerProofs.tla                # one module of proofs

## 1. The system and its parts

A shop's kiosk posts a purchase (or its cancellation) to the server. The server
stores it as a transaction in a PostgreSQL table, a scheduler seals the stored
transactions into blocks on IPFS and in a second table, and another scheduler
sends the block headers to a contract, one after the other.

| Component | State it keeps | Operations | Talks to |
|---|---|---|---|
| `StorePurchase.sol` | headers (`blockArray`), height by hash (`blockMap`), `lastHeight`, owner | `initialize`, `add`, ownership, views | - |
| `StorePurchaseStorage.ts` and `mapper/*.xml` | tables `blocks` and `txs`, sequence `txs_sequence` | one SQL statement each | - |
| `TransactionPool.ts` | none of its own | `add`, `get`, `remove` | storage |
| `Node.ts`, `LastBlockInfo.ts` | `prev_hash`, `prev_height`, last period | `onStart`, `work` | pool, storage, IPFS, contract |
| `SendBlock.ts` | last period | `work` | storage, contract |
| `Scheduler.ts` | `state`, `is_working`, cron task | `start`, `stop`, `waitForStop`, `workTask` | Node and SendBlock derive from it |
| `StorePurchaseServer.ts`, `main.ts` | the list of schedulers, the HTTP server | `start`, `stop`, SIGINT | schedulers, router |
| `StorePurchaseRouter.ts` | access keys, cached system info | `/v1/tx/purchase/new`, `/cancel`, `/tx/sequence`, `/metrics` | pool, storage, relay |
| `RelayClient.ts`, `IPFSManager.ts`, `GasPriceManager.ts` | none | one remote call each | external services |
| SDK (`Block`, `Transaction`, `Hash`, `JSONValidator`) | values | signing, hashes, Merkle tree, JSON, schemas, revivers | - |
| `Amount.ts`, `ContractUtils.ts` | values | decimal arithmetic, messages to sign | router |
| `Config.ts` | the values of `config.yaml` | reading the file | `main.ts`, everything |

They share the two tables and the contract: requests write `txs`, Node reads and
deletes there and writes `blocks`, SendBlock reads and deletes `blocks` and
writes the contract, and Node reads both when it starts. Nothing runs in
parallel inside the process, but every `await` is a point where the others run,
where a remote call may fail (with or without its effect), and where the process
may die; what the tables and the chain hold survives.

What is hard in this system, and what makes each part correct:

- **Contract**: the stored headers are sequential, linked and append-only
  whoever calls; lookups by hash, height and page agree with what is stored,
  also at the page limit, for a hash stored twice, and at the largest uint64.
- **Node**: three stores are written one after the other (IPFS, `blocks`,
  `txs`) and any of the writes may be the last one. What Node remembers must be
  the newest block of rows and chain after every restart. No accepted
  transaction may be dropped; sealing one twice is possible after a crash.
- **SendBlock**: a submitted call may be executed late, twice or never; the rows
  it deletes must be those the contract holds.
- **Router**: the handlers of concurrent requests interleave at each `await`. They
  take a sequence first and store the transaction later; storing, the relay
  server and notifications fail one by one, and `RelayClient` hides its failures.
  What a client was told must hold for the table, and order must survive.
- **Amounts**: texts of requests become integers, percentages pass through
  doubles, and the loyalty is cut at three divisions. What is promised must be the
  exact quotient rounded down, and never more than was paid.
- **SDK**: a transaction is signed, written as JSON, stored by hash, read back,
  hashed into a tree and published; nobody compares the two ends. A reader of the
  document must find what was signed, under a root and signatures that bind it.
- **Config and start**: values that are blank or no numbers change the pace of the
  schedulers, and two gates that count periods decide how far SendBlock may lag.
- **Scheduler**: cron ticks do not wait for a work, `stop` races with ticks,
  works, and a `start` that is still awaiting `onStart`.

`PROJECT.json` ("hazards") lists these at the lines where they bite.

## 2. The modules

| Module | Models | Built on |
|---|---|---|
| `StorePurchase` | the contract | - |
| `MCStorePurchase` | its instance for TLC, with symmetry | `StorePurchase` |
| `StorePurchaseStorage` | the tables and the SQL statements as operators | - |
| `RollupState` | what the schedulers share: tables, contract (`Contract == INSTANCE StorePurchase`), submitted calls, IPFS; the ledger as seen across rows and chain | `StorePurchaseStorage`, `StorePurchase` |
| `Node` | `onStart` and `work`, one action per awaited call | `RollupState` |
| `SendBlock` | `work`, one action per awaited call | `RollupState` |
| `Rollup` | the composition with requests, the chain, crashes and restarts; the properties | `Node`, `SendBlock`, `Ledger`, `Intake` |
| `Circumstances`, `MCRollup`, `MCRollupOrder` | the environments in which TLC runs the pipeline | `Rollup`, `RollupOrder` |
| `Intake` | the abstract promise of the requests: a sequence of its own for each stored transaction | - |
| `Router` | the HTTP handlers with the relay server, failing calls and crashes | `Intake` |
| `MCRouter` | its instance for TLC | `Router` |
| `Ledger` | the abstract promise: a pool, a growing log of blocks, an anchored prefix | - |
| `RollupOrder` | `Rollup` with a history variable about the order of requests | `Rollup` |
| `Scheduler` | all schedulers of a server, its `start` and `stop`, SIGINT | - |
| `Amount` | decimal arithmetic as functions: `make`, `convert`, `toDisplayString`, `zeroGWEI` | - |
| `Pricing`, `MCPricing` | how a purchase becomes amounts, a loyalty and a message | `Amount` |
| `Serialization` | what `hashPart` and `hashVarInt` write, byte by byte | - |
| `Merkle` | `buildMerkleTree` | - |
| `Transaction` | transactions: hash, signature, JSON, schemas, revivers | `Serialization` |
| `Content`, `MCContent` | the way of a transaction from the request to the document on IPFS and to its reader | `Transaction`, `Merkle` |
| `Startup`, `MCStartup` | `config.yaml`, `main`, and the gates of the two schedulers over time | - |
| `StorePurchaseProofs`, `SchedulerProofs`, `RouterProofs`, `PricingProofs`, `StartupProofs`, `RollupProofs` | theorems | `StorePurchase`, `Scheduler`, `Router`, `Pricing`, `Startup`, `Rollup` |
| `LedgerProofs` | the proof that the pipeline implements `Ledger`, and what its blocks have been through: content, sealing once, no replay, order | `RollupOrder`, `RollupProofs` |
| `ContentProofs` | what hashes, signatures, trees and documents promise | `Content` |

Definitions named `Definition_Variant` are mutated forms of `Definition`: small
bugs that each checked property must detect (`PROJECT.json`, "mutants"). The
specifications do not use them.

### State and code

- A transaction is its sequence number (its hash covers the sequence). A row of
  `blocks` and a header in the contract are records
  `[height, curBlock, prevBlock, body]`; `body` stands for what Merkle root and
  CID commit to, the transactions of the block. A block hash is the number of
  the block's creation: equal headers are impossible, because they hold the time
  and Node makes at most one block per period.
- `boot` and `work` in `Node`, `sending` in `SendBlock` are program counters:
  they say which `await` comes next. Local variables of the code that live across
  an `await` are variables (`latestHeightContract`, `info_storage`, `batch`,
  `block`, `contractHeight`, `data`). Queries that follow each other without a
  change that could matter in between are one action; the comment at the action
  says why.
- In `Node` and `SendBlock` the gates `old_period !== new_period` are abstracted to
  "a tick on which the period changes may come at any time". The gate's part in
  making hashes different is kept (see above); the gates themselves are in `Startup`.
- The variable `env` of `RollupState` holds the circumstances of a behaviour: in
  production or not, which errors may occur, and the bounds. It is chosen in
  `Init` and never changes, so one run covers several circumstances, and a property
  says under which of them it holds (`Orderly`, `env.production`).
- A call that fails is a disjunct of the action that makes it, limited by
  `env.faults`. Where the code swallows the error it goes on as the code does;
  where it ends a work without having done anything, it is a step that changes
  nothing and is left out. `onStart` failing ends the process, which is `Crash`.
- `pending` holds the calls the provider accepted. `Execute` runs one in any
  order, once or, because SendBlock submits again, several times; `Drop` forgets
  one.
- Outside production, `main` deploys a new contract at every start
  (`Restart` with `env.production = FALSE`).
- `Scheduler`: everything between two awaits on a timer or on input is one step.
  `waitForStop` answers at once for a stopped scheduler, so the loop over all of
  them jumps to the first busy one (`FirstBusy`); a poll is one unit of time.

- `Router`: `stage[r]` says which `await` the handler of request `r` is at; what
  the code does between two awaits is one action. The validations at the start
  are one refusal. An input is reduced to what the handler branches on: whether
  the currency is converted, a user is given, the loyalty is at least 1. An exception
  before the try block rejects the handler's promise (`Rejects`): nobody answers, and
  node ends the process or, when it is told so, goes on. `rows` is
  the table `txs` before Node takes anything from it. `relay` is the order in which
  the relay server and the users have processed the posts; a post that fails here
  may be in `delayed` and reach them later.
- Requests in `Rollup` are the actions of `Intake`. `Router` is shown to implement
  `Intake` (by TLC and by proof), so what is checked of `Rollup` holds for what the
  handlers do to the table.

- `Pricing`: a text is a sign, a whole number and the digits behind the point.
  `ProvidePercent` is the floor of a product of doubles: for the hundredths in
  `Inexact` it is one lower than the exact one (0.29 * 100 is 28.999...). The three
  loops over the details are one, with their sums as variables. An element that lacks a
  field is skipped; null, an amount that is no decimal number and a percentage that is
  none throw.
- `Content`: a string of a transaction is a text with given bytes, the digest of a
  byte sequence is the sequence itself, and a signature is who made it over what.
  A JSON value carries its kind, so that a schema can refuse it. The awaits and the
  failures between the steps are in `Router` and `Node`; here each handler and
  each work is one step. `Reread` and `Quoted` are what taking the backslashes
  out of a text does to it: a backslash goes, a tab becomes `t` and a newline `n`
  (`JSON.stringify` writes them with a backslash), and a text with a quotation mark is
  taken as one whose JSON does not parse any more. A product id is whatever the request
  has there (`OtherIds`), since `String()` is not called for it.
- `Startup`: a second passes whatever the works await. cron calls the two tasks in any
  order within it, or has not come to one of them when the next begins; a task whose
  last work is under way returns (`Skip`). Node's work ends with or without a row. A
  work of SendBlock reads (`ReadBlock`), submits or fails (`EndSend`), and `Chain` executes
  the call after any time, or drops it, also while later works submit the same block.
  `missed` counts SendBlock's lost turns: a tick that was due and at which
  no work began, and a work that began before any block of the one before was executed,
  unless that one found no row. How `stop` ends the works is in `Scheduler`.

## 3. The runs

| Run | Instance | What it shows |
|---|---|---|
| `MCStorePurchase` | 2 accounts, 3 hashes beside null, heights up to 4 = largest uint64, pages of 2 | contract: types, `Sequential`, `HashIndexNewest`, `PagesCoverChain`, `AppendOnly` |
| `MCRollup` | blocks of 2 under three circumstances: production with 3 sequences, one crash and one failing call; a new contract at each of two restarts; 2 sequences with ticks inside `onStart`, swallowed errors and ambiguous inserts | `OneLedger`, `HeadersLinked`, `PreviousIsLast`, `CallsMatchLedger`, `NothingLost`, `ContentAvailable`, `SealedOnce`, `RowsLeaveAnchored`, `NoReplay`, and that the pipeline implements `Ledger` |
| `MCRollupLive` | blocks of one transaction; 2 sequences with a crash and a failing call, or 3 with a crash; fairness | every stored transaction reaches the contract, and what was acknowledged first is sealed first |
| `MCRouter` | two requests of any kind, two failing calls, a crash | what was acknowledged is stored, what others were told is stored, order of sequences and at the relay server, no handler that has got to its first await hangs, `Intake` is implemented |
| `MCPricing` | two places behind the point, up to two details, every sign, texts with more and fewer digits, elements that are null or lack a field, percentages `BigNumber` refuses, GWEI of 5 | no negative cash or loyalty is stored (`NothingNegative`); `LoyaltyRoundsDown`, `LoyaltyWithinCash`, `MessageNamesLoyalty` |
| `MCContent` | bytes of 6 values, numbers of 5 bytes, 4 transactions, blocks of up to 3, texts with a backslash, a tab and a quotation mark, product ids that are no texts | `PublishedIsAccepted`, `RootCommits`, `SignatureBinds`, `SealedByHash`; `RootCommits` also compares the flat tree with the level-by-level one for up to 9 leaves, and an assumption TLC evaluates says that the length in front of a text can be read back |
| `MCStartup` | 26 files, a minute of 27 seconds with SendBlock at every fourth of them, 36 seconds, one turn that sends nothing | `BacklogBounded`: at most five blocks wait beside those found at the start, and one for each lost turn |
| `MCScheduler` | 2 schedulers, timeout of 2 units, SIGINT at any time | exclusion of works, quiet after stop, exit |

Four runs end in a violation. Each states what a text of the repository says
and shows a behaviour of the code that contradicts it:

- `MCRollupUnreadable`: `selectTxByLength` removes every backslash from the
  stored JSON. A text with an escaped quote does not parse any more, `work`
  throws at it in each period, and no transaction gets into a block from then on.
- `MCRollupEarlyTick`: the cron task is registered before `onStart` is awaited.
  A period boundary inside `onStart` has `work` start from height 0 and overwrite
  a row that was not sent yet.
- `MCRouterSequence`: `/tx/sequence` reports the sequence handed out last. It may
  belong to a transaction that is not stored yet, or never will be, because its
  request failed in between.
- `MCSchedulerTimeout`: a timeout documented in milliseconds is compared with
  seconds.

### Bounds

Three transactions and blocks of two give a full block, a partial one, and a
block that mixes what a failing `remove` left over with a new transaction. The
chain can be two and more blocks behind the rows. One crash combined with one
fault reaches every pair of awaits; a second crash is allowed where a restart
has to repair what another restart left (`Redeploying`). `MaxUint64` is far
away in the pipeline and close in the contract's own run. `txs_sequence` and
`created` are bounded by the circumstances' `sequences`, `crashes` and `faults`,
since a transaction is sealed again only after one of these. Scheduler runs need no
bound: the poll's counter stops at the timeout. Two requests suffice in `MCRouter`,
because its properties relate two requests at most; the theorems are for any number.

In `MCPricing` two decimals and a GWEI of 5 keep every division inexact somewhere;
the theorems are for any of them. In `MCContent` a byte of 6 values makes texts of
four bytes long enough for a length of two bytes, and amounts of more than one byte
occur; a block of three has an odd level in its tree. In `MCStartup` the minute is no
multiple of the step, as with `*/14` in `config.yaml`, so that SendBlock's ticks move
against the periods; 36 seconds (`MaxTime`) are enough for five blocks to come to wait with
periods of 5 and 4 seconds, and `MaxMissed` allows one lost turn beside it. The other
files have intervals outside the premise, blank ones among them, or end the start.

### Fairness

`FairSpec` of `Rollup` asks for weak fairness of Node's and SendBlock's steps
(cron ticks both for as long as the process lives, and an awaited call returns),
of `Restart` (a supervisor starts the process again), and of executing some
submitted call (a chain that does not forget a call mines it). Faults and crashes
are finitely many. Requests are not fair: a client may never come back. In
`Scheduler` only the polling of `waitForStop` and the callback of `server.close`
are fair; nothing says that a work returns. In `Router` each handler is fair: an
awaited call answers or fails. (The HTTP client sets no timeout, so a relay server
that keeps a connection open without answering is outside this assumption.)

## 4. Theorems

`StorePurchaseProofs` (any accounts, hashes, bodies, largest height):
`TypeCorrect` is inductive by itself. `Sequential` is inductive with it:
`add` pushes at index `lastHeight + 1` exactly when the array has that many
entries, which is why heights and links are proved together. `AppendOnlyAlways`
follows from the pushed array having the old one as a prefix. `HashIndexNewest`
needs the invariant `Indexed`: an entry of `blockMap` points at a block with its hash,
and no block lies behind what its hash points at. `PagesCoverChain` is a
consequence of `Sequential` and the types.

`RollupProofs` (any block size, any set of circumstances, so any number of requests,
crashes and failing calls) is about the pipeline as a whole. Its assumption is the
premise of the properties: `Orderly`, no tick inside `onStart` and no error that the
code hides from itself; the runs and `MCRollupEarlyTick` show what happens without.
The inductive invariant is `Orderly => Inv`, with these parts:

- `Types`, `Chain` (the contract's own `Sequential`) and `RowsLinked`: the rows
  have no gap and each names the one below. This holds also while rows of an older
  contract are still there.
- `Joined`: rows and chain agree where they overlap, the highest row is not below the
  chain, the lowest leaves no gap above it, and every call in `pending` is for
  a block of the ledger. It is what makes deleting a row safe (what is
  deleted lies below a block the chain has, and that block's own row stays) and executing a call safe in any order and
  any number of times. Outside production it can only be asked for once `onStart` has
  looked at the rows, or while a call is on its way (`Whole`).
- `Starting`: what the queries of `onStart` have answered still describes the
  tables and the chain when it is used. The case that needs it most is `info_storage`,
  read before the contract is asked: SendBlock is not running then, but calls from
  before the crash may still be executed.
- `Previous`, `Working`, `Submitting`: the same for what `work` of Node and of SendBlock
  keep across their awaits.
- `Kept`: in production everything accepted is in the pool or sealed, at every await.

`LedgerProofs` maps every action to `Accept`, `Seal`, `Retire`, `Anchor` or a
stutter of `Ledger`: `insertBlock` is `Seal`, a deletion in `remove` is `Retire`
(legal since the batch is sealed by then), the first execution of a call is `Anchor`, and
deleting anchored rows leaves the log as it is (`DeleteKeepsLog`). Beside `Inv` it needs
that a batch was taken from the pool, is not empty and has at most `max_txs`
transactions (`Taken`); that `selectTxByLength` takes no more is `FewTaken`, by the
injection that sends a row to its rank.

The second half of `LedgerProofs` (the same constants) proves what cannot be read off
one state of the ledger. Its invariants are about every block in the making (`Made`): in a row,
in the contract, in `pending`, in SendBlock's or in Node's hands. `MadeFrom` says
that a step adds at most the block Node has just created, and `LedgerMade` that the
ledger consists of such blocks, provided that its rows go on above the contract
without a gap. That proviso has two proofs: `Shape` of `RollupProofs` in an orderly
environment, and `GapInvAlways`, which covers early ticks and hidden errors as long as
the contract is not exchanged (production, or no crash so far). `Gapless` bounds
every height that is remembered or on its way (`Below`), since one that was too high
would open a gap, and says that `onStart` cannot come to `clear` then (`Begun`).

- `RowsLeaveAnchoredAlways`: in production a row leaves only when the contract has a block
  of its height. The height `deleteBlockByHeight` is given was read from the contract earlier and the
  contract only grows (`Below`), and `clear` is never come to (`Begun`); both hold with early
  ticks and hidden errors. In order, `Joined` adds that it is the same block, and
  `Working` that an inserted block stands above all rows, so none is replaced.
- `ContentAvailableAlways`: the content of whatever is in the making is on IPFS
  (`Uploaded`). The premise is weaker than `Orderly`: in production it holds with
  early ticks and hidden errors too. Elsewhere these can leave a height
  without any block, for which the property would have nothing to say.
- `SealedOnceAlways`: without a crash and a failing call two blocks in the making are
  equal or have no transaction in common, what of them is still in the pool is the batch
  that is being inserted or removed, and a batch that waits for its block
  is in none (`Separate`). Since overwritten rows count as little as
  any, early ticks do no harm here.
- `NoReplayAlways`: a step lengthens the ledger only by inserting Node's block
  (`OrderlyGrowth`, `ProductionGrowth`), and that block's transactions are in the pool
  until it is inserted (`Held`). Outside production an early tick breaks this: `clear`
  can empty the pool under a work.
- `AcknowledgedFirstAlways`, about `OrderSpec`: `selectTxByLength` hands out an older
  row with every younger one (`OldestTaken`), what was accepted before a transaction is older than
  it (`Noted`) and in the pool or sealed (`Kept`), so each batch brings all that
  precedes it and is not in the ledger yet (`Brings`); and the ledger keeps what it has
  (`ProductionKeeps`). In a redeployment `clear` may drop the earlier one, hence `env.production`.

`SchedulerProofs` (any number of schedulers, any timeout): `OneWorkAtATime` and
types are not enough for what happens around `stop`. The inductive invariant
`IInv` adds three facts: a scheduler that has not been started has no task and is
marked stopped once `stop` has passed (`NotStartedIsIdle`); a stopped scheduler
does not work, and one that got its answer has no task (`StoppedIsIdle`); and
`stop` waits only for a scheduler that has been started, with no answers given
behind it (`WaitsInOrder`). The last one is what excludes that a `start` that is
still under way revives a scheduler whose answer was given. The lemma
`FirstBusyIsFirst` says what the loop over the schedulers finds, from the
well-foundedness of the naturals.

`RouterProofs` (any set of requests, any number of failures and crashes):
`AcknowledgedIsStored` needs to know which handler owns which sequence. The
inductive invariant adds that two handlers never have the same sequence
(`SequencesDiffer`), that a row belongs to the handler its sequence was handed out
to (`RowsOwned`), and what each stage has already done to the table
(`StageTellsTable`: a handler before `pool.add` has no row, one after it has).
`LaterIsHigherAlways` follows with it, since an acknowledged request's sequence is at
most `txs_sequence`. `IntakeImplemented` maps every action to a step of `Intake` or
a stutter, the sequences in flight being those of the handlers at `pool.add`.
`ToldIsStoredAlways` adds that rows stay (`StoredStays`) and that every call in `relay` or
`delayed` was made by a handler that has its row. For the order at the relay server
(`RelaySeesOrderAlways`) the invariant `Endings` says that whatever precedes a request
has been answered and takes no step any more, and that nothing is delayed
while no call has failed.

`PricingProofs` (any requests, with null and incomplete details, number of details,
decimals, GWEI, and any percentages the doubles get wrong or `BigNumber` refuses): the inductive invariant says what the loop keeps of its two
sums without naming the details behind them (`Sums`: neither is negative, and
`weighted <= 10000 * sum`), and what `Price` fixes (`Kept`: the total is the sum, the
loyalty is `Loyalty` of the amounts). `NothingNegativeAlways` is the part about what is
stored. `LoyaltyRoundsDownAlways` rests on the lemma
`ThreeCuts`: dividing three times and cutting each time is one division cut to the
unit. `LoyaltyWithinCashAlways` needs both parts of the invariant: without the
comparison of the total (mutant `Agrees_Within`) it fails.
`MessageNamesLoyaltyAlways` rests on `DisplayCuts`: reading back what
`toDisplayString` spells gives the amount less a remainder below the last digit
shown, so no zero inside the fraction is lost.

`StartupProofs` (any files, length of a minute and step of cron): the bound of
`BacklogBounded` is five blocks and one for every turn of SendBlock that sent nothing.
Its premise `KeepsUp`: SendBlock has been started, both intervals are positive
numbers, `send_interval` is not longer than `interval`, and the ticks of cron are no
sparser than `send_interval`. Nothing is assumed of how long works and calls take or whether
they succeed; what they cost is in `missed`. Five is the least bound for all such
values (TLC finds four exceeded with periods of 5 and 4): SendBlock may have had a turn
in one of its periods and not yet that of the next, two such periods touch three of
Node, and the block of the turn may still wait for the chain. A lost turn is never made
up for, since SendBlock sends one block per period, however many wait.

The inductive invariant `Backlog` says that there is a second of SendBlock's last turn
(`Turn`): no tick has passed since, it is at most one period of SendBlock behind, and the blocks
made for which there was no turn (`Ahead`, which counts the one in the making, and takes off the one owed
and the turns missed) are at most one more than at the start, or as many as Node's
last period is ahead of the one under way when the period of that turn began (`Begun`).
A tick of SendBlock, taken or lost, moves the turn on (`TurnPasses`); a second without
one leaves it (`NoTick`); and Node can begin one work per period (`NodeBegins`). The
arithmetic is in lemmas of their own: a tick falls into each period (`TickWithin`), and
within one period of SendBlock at most one of Node begins, within two at most two
(`OnePeriod`, `TwoPeriods`).

`ContentProofs` (any texts, bytes, amounts, number of details and transactions, and
blocks of any size) is about data: sequences of bytes, JSON values and trees that are
computed by recursive functions (`Span`, the levels of the tree) and by the library's
`FlattenSeq`. The prover cannot instantiate the library's induction theorems, which take
an operator, but it can use well-foundedness for a *set* of numbers: `Induct` (a set
that holds 0 and each successor is `Nat`), `Recursion` (steps in a set can be chained
to a function) and `Least` are all the induction there is, and each recursive
definition is followed through the set of numbers for which it does what is claimed.

- *Bytes.* `Span` is a power (`SpanFacts`), the bytes of a number determine it
  (`LittleEndianInjective`, `BigEndianInjective`), and what `hashVarInt` writes says
  by its first byte how long it is (`VarIntFacts`), so a text is determined by its
  bytes whatever follows (`TextInjective`).
- *Hashes.* `SequenceHashed`: equal hashes mean equal sequences, for transactions of
  either type. `FieldHashed` and `DetailHashed`: with all else left alone, another
  value of one signed field, of the transaction or of a detail, gives other bytes.
  The values are any number that can be hashed, any amount that is not negative and
  any text (`Alternatives`, whose constants `OtherNumbers` and `OtherAmounts` may be as
  large as that). It is as much as is true: amounts have no length in front, so digits
  moved from one to the next leave the hash as it is, and negative ones are hashed
  as nothing.
- *JSON.* What `toJSON` writes of a signed transaction passes the schemas and is
  revived to the same transaction, or, after `selectTxByLength`, to the one whose
  texts have become what their JSON without backslashes is read as (`Cleaned`); both keep the sequence.
  `PublishedIsAccepted` asks that the two are equal only for texts that are written
  without a backslash (`Plain`): with a backslash, a quotation mark or a control
  character it does not hold. A transaction whose product id is no text is accepted
  and hashed as `Raw` says, and does not pass the schema when it is read back.
- *The invariant.* `IInv` is inductive: `RowsInv` (a row holds the JSON and the
  hash of the accepted transaction with its sequence, and that one is well-formed and
  signed by the publisher), `ListInv` (every document is the JSON of a block whose
  transactions were accepted, apart from such texts), `BlockInv` (its header
  continues the one before and has the root of its transactions), and `SealedInv`
  (each accepted sequence is in the table or in exactly one document). The last one
  needs `SequenceHashed`, because rows are deleted by hash, and it needs that a
  sorted list holds exactly what the table held.
- *The tree.* The levels of `PushLevels` and those of the reference `Root` are
  the same, so the flat array ends with the root (`ReferenceTrees`). That the
  root belongs to no other list is shown from the root down: two lists with one root
  have trees of one height, since a leaf is no inner node, and level by level
  the nodes agree. An odd level and the same level with
  its last node repeated have one parent level (`<<a, b, c>>` and `<<a, b, c, c>>`); that
  is where the nodes of a level being different from each other is used.

The assumptions on the constants are what the code gives: a byte has more than 4
values and a number at least 4 of them (`hashVarInt` writes up to 4 bytes before it
writes a whole number; 256 and 8 in the code); UTF-8 tells well-formed texts apart;
what the handlers build has the fields and types of the classes; the wallet's address
is a text, and none is the address that `verifyMessage` recovers from a hash
that was not signed.

The `TypeCorrect` theorems of `Scheduler` and `Router` say that no answer, state or
task of a scheduler or handler arises outside those the code knows, for any number of them.

Changing the model shows that the proofs depend on it: with an upload whose failure is
ignored (`AfterFailedUpload_GoesOn`), a `remove` that deletes nothing
(`deleteTxByHash_NoRow`) or a pool that hands out the newest first
(`selectTxByLength_Newest`) the step lemmas of `LedgerProofs` fail at the actions
concerned.

In `ContentProofs` they break where the code would: signing the hash before the
signer is set (`sign_HashFirst`), leaving `sequence` or `waiting` out of the hash, and
a tree whose last node has itself for a neighbour everywhere (`RightOf_Shifted`).

Only model-checked:

- all liveness properties (`EventuallyAnchored`, `EventuallyAnswered`,
  `InterruptExits`), which are out of TLAPS's reach;
- what the four runs with a violation show.

## 5. Not modelled

`upgradeTo` of the proxy (it replaces the code), logging, metrics, gas prices (a
call that is priced out is `Drop`), the load generator (a random client) and the
deployment scripts (run once by hand; `store_all` repeats the work of SendBlock).
Of the configuration only what changes the control is told apart. A statement that
the database commits after the client has died is treated as committed before the
crash. Amounts are spelled with digits; hexadecimal texts, which `BigNumber.from`
would take, are not enumerated. Digests are taken to tell all inputs apart.

Some behaviours were seen and are not runs of their own.

- Outside production, a redeployment can make `onStart` truncate `txs` and drop
  accepted transactions.
- An insert that takes effect but is reported as failed can leave a row whose
  successor does not link to it. `LastBlockInfo` takes a failing query for an empty
  database or chain, and Node then continues from a block that is not the last one.
- The pool is sealed in the order of the sequences, though `TransactionPool.get`
  promises the order of entry.
- A purchase answered with its loyalty does not count as a success, and an amount of
  2^53 or more in a notification makes the handler answer a failure for a purchase
  that is stored. The failures' code 6000 has no message, so clients see 9000.
- `Amount.make` adds the fraction to a negative whole ("-1.5" is -0.5). Negative
  details are accepted as long as the total agrees and neither cash nor loyalty is negative.
- Amounts are hashed without their lengths, so digits moved from one to the next
  leave the hash as it is; negative ones are hashed as nothing.
- A negative timestamp passes the validation and throws at the hash, when its
  sequence has been taken.
- A field of the body that `String()` or `Number()` cannot convert throws outside the try
  block of a handler (lines 224 to 254, 509 and 514 of `StorePurchaseRouter.ts`): its promise
  rejects and the client is not answered. `EventuallyAnswered` is about the handlers
  that have got to their first await.
- A tab or newline in a text is published as `t` or `n`, with a signature that is not
  good any more, since the backslash of its JSON is stripped.
- A product id that is no text is signed and stored, then refused by the schema when
  `work` reads it back; from then on no block is made, as in `MCRollupUnreadable`.
- A turn of SendBlock that is lost, because `add` fails, is executed late or the last
  work is still under way, is not made up for: the rows it leaves wait on.
- `send_interval` keeps its default of 14 seconds beside a shorter `interval`, and then
  the table of blocks grows; a blank `interval` stops Node, and a text makes it work at
  every tick.
- SIGINT before the server is assigned is a TypeError in the handler.

## 6. Plan

Done: the core (contract, storage, Node, SendBlock, their composition, the abstract
ledger, the schedulers), the router and the abstract intake, the amounts, the
transactions and blocks, the start; theorems for the contract, the schedulers, the
router, the loyalty, the pace of the schedulers, the pipeline, its refinement of the
ledger and the history of its blocks, and the content of the documents. Every
invariant and action property of a passing run is a theorem.

Left: `createTables` and the upgrade of the proxy.
