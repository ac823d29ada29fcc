# Orbit: a TLA+ verification of the loyalty-points program

Orbit is a loyalty program whose points are Token-2022 tokens on Solana. A
merchant mints points to members; a member redeems a reward by burning points
with a wallet signature and gets a reward code that the counter collects once.
The server keeps a journal of operations in PostgreSQL, and a worker reconciles
it with the finalized chain. This directory holds models of the program, the
configurations that check them with TLC, and the theorems that TLAPS proves.
Paths below are relative to the repository (`src/`).

    cd tla
    tlc -workers 2 -config SettleRace.cfg MCSettlement    # one run
    tlapm SettlementProofs.tla                            # one proof module

`PROJECT.json` lists every component, run, mutant, finding, hazard and theorem,
and maps every definition to the lines it translates.

## 1. The system

### Components

| component | source | state | operations |
|---|---|---|---|
| operation journal | `server/internal/store/store.go`, `schema.sql` | the `operations` table: status, request, prepared message, last valid height, signature, claim code, `updated_at` | FindKey, Create, Submit, Unsettled, Settle, Fulfill; Operation and History read |
| API handlers | `server/internal/api/api.go` | what a request holds between two calls | redeem, submit, issue, fulfill; balance, activity, config, rewards and health read |
| reconciliation worker | `server/internal/api/worker.go` | a batch of row snapshots | Reconcile, Worker (a pass every 3 s) |
| chain gateway | `server/internal/chain/chain.go` | none | Prepare, SignRedemption, Send, State, Balance, Validate, BuildBurn |
| cluster and wallets | external | finalized height, ledger, balances | inclusion, forks, finality, execution, burns elsewhere |
| authentication and sessions | `server/internal/api/auth.go` | Redis: challenges (5 min) and sessions (24 h) | challenge, verify, authenticate, logout |
| middleware, rate limit | `server/internal/api/api.go` | Redis: a counter per address | App's chain of middleware |
| rewards catalog, cache | `api.go`, `store.go` | `rewards` table, a 30 s Redis copy | rewards, Reward |
| server start-up | `server/cmd/api/main.go`, `config.go`, `store.go` | schema, `app_settings` | Migrate, BindMint, worker start, shutdown |
| mint set-up | `server/cmd/setup/main.go` | keypair files, `.env`, the mint | create or confirm the mint |
| client state | `client/src/useOrbit.ts`, `api.ts` | mode, address, balance, operations, a generation, the action lock | loadProgram, refresh, connect, disconnect, redeem, demo switch |
| client retry storage | `client/src/redemptions.ts` | an attempt per wallet and reward in local storage | readAttempt, saveAttempt, clearAttempt, settleAttempts |
| wallet adapter | `client/src/wallet.ts` | the connected account | connectWallet, signBurn, account changes |
| demo mode | `client/src/domain.ts` | points and operations in memory | issue, redeem |
| metadata tool | `tools/metadata.ts`, `metadata-plan.ts` | the mint's metadata account | plan and apply a repair |
| views | `client/src/App.tsx`, `views.tsx`, `ui.tsx` | the page, the dialogs App renders, the dialogs on the screen | navigation, opening and closing dialogs, the buttons |
| build files | `Makefile`, `compose.yaml`, `scripts/` | none | none at run time |

### Interactions

The browser and the server share only HTTP calls and the `orbit_session`
cookie. The handlers and the worker share the journal, and nothing else: there
is no lock around the calls of one request, so between two statements anything
else may happen. Handlers and worker see the cluster through RPC calls; the
worker alone moves a submitted row to a terminal status. Tabs of a browser share local storage
and the cookie. A page's own awaits interleave: a click, the poll, a wallet
event and the answer of a call that was abandoned earlier.

### Hard behaviours, and what makes each component correct

* **Journal and handlers.** The lookup by key and the INSERT are separated by
  RPC calls; the balance is read long before it is spent; an award is signed
  before the row exists. Correct: one effect and one answer per key; nothing
  reaches the cluster that the journal does not hold.
* **Worker.** It acts on snapshots a batch old, on a height and a status read
  by separate calls, beside a second worker while a deployment overlaps, and may
  die between any two calls. Correct: verdicts agree with the finalized ledger,
  an expired transaction never lands, a code is written once, and every row is
  settled some time.
* **Gateway and cluster.** Forks, lost and repeated sends, blockhash expiry, a
  burn outside the program. Correct: no code without a burn; points conserved.
* **Sessions.** Answers late or out of order, expiry at any moment, logouts
  that are not awaited. Correct: the page acts as the member it shows, and shows
  that member's data only; a challenge grants one session.
* **Client redemption.** Requests executed after their timeout, reloads at any
  await, tabs sharing storage. Correct: an open redemption is never forgotten,
  a retry signs the same burn, and an ended attempt does not block the next.
* **Views.** Every button that is shown may be pressed while a sign-in, a
  redemption or a refresh is under way, and the browser closes a dialog without
  asking React. Correct: the claim on the screen is the member's, a redemption
  begins on a fresh balance only, an action's error stays until it is dealt with,
  and a refresh's until a refresh recovers.
* **Metadata tool.** It may stop at any await with a transaction under way that
  still lands, while others change the metadata. Correct: what it verified stays,
  and the rest of the metadata is kept.
* **Mint set-up.** Runs stop, overlap and are repeated over two files and the
  ledger. Correct: one mint, under keys that the files hold.
* **Start-up.** Processes with different mints start on one database. Correct:
  one mint's history per database.
* **Redis.** Counters and the cached catalog expire while requests and edits of
  the table go on, and may be lost. Correct: no address is refused for ever; a
  served catalog is not much older than its time to live.

The hazards, each at its line and with the properties that would catch it, are
in `PROJECT.json`.

## 2. The modules

    LoyaltyPromise            what the program promises, without journal or chain
       ^ refined by
    Settlement                handlers + journal + worker + cluster
       SettlementRefinement   the mapping
       SettlementProofs       IInv is inductive; the safety theorems, the
                                conservation of points, the refinement
       MCSettlement           instances
    FiniteSums                lemmas about sums over finite sets
    WorkerQueue               which rows the worker reaches (Settlement's fairness)
       WorkerQueueProofs
       MCWorker               instances of WorkerQueue and of Settlement, with fairness
    RedemptionClient          the app's redeem flow against the promise of one
       RedemptionProofs         operation per key
       MCRedemption
    MemberSession             sign-in, cookie, restore, poll, sign-out, other tabs
       SessionProofs
       MCSession
    MemberApp                 pages, dialogs, useOrbit as the page shows it, demo
       MemberAppProofs
       MCApp
    MetadataTool              the metadata tool against a changing ledger
    MintSetup                 the mint set-up: files, ledger, repeated runs
       MintSetupProofs
    ServerStart               processes that start, bind a mint, serve and stop
    PublicApi                 the rate counter and the cached catalog in Redis
    MCOperations              instances of the last four, and of Settlement
       OperationsProofs       theorems about them, alone and side by side

The modules split where one side only relies on a promise of the other, and each
promise is checked on its own side: RedemptionClient's server keeps one
operation per key (`OneEffectPerKey`, `OneAnswerPerKey` of Settlement), and
Settlement's worker reaches every row (`RowsAreServed` of WorkerQueue, which
`QueueIsServed` checks).
MemberApp takes from MemberSession that requests are answered for the account
the page shows (nobody disturbs the cookie), and from RedemptionClient that a redemption is one operation.

### Settlement

Handlers and workers are processes with a `pc`; every SQL statement and every
RPC call is one step. An operation id also names the message prepared for it
(its memo carries the id) and the authority's signature over it; a payload
stands for a payload hash and fixes a number of points.

| action | code |
|---|---|
| `Find`, `Replay` | redeem and issue look up the key: the stored answer, 409 for another payload, or go on |
| `CheckBalance` | redeem's Balance call against the cost |
| `Prepare` | the blockhash and the unsigned burn, or the mint the authority signs; the row's last valid height |
| `Insert`, `Reread` | Create: INSERT ... ON CONFLICT DO NOTHING, then FindKey and the comparison of payload hashes; issue's answer |
| `Abandon` | any call fails, or the server stops: what the request held is lost |
| `ReadSubmit`, `Submit` | submit: the status check, SignRedemption of the stored message, the conditional UPDATE |
| `Fulfill` | the conditional UPDATE that collects a code |
| `ReadBatch` | Unsettled: snapshots of unsettled rows, any batch |
| `ReadHeight`, `ReadStatus` | the two RPC calls of State, in the code's order, and the verdict |
| `SkipRow` | State fails: the row is skipped |
| `KeepPending` | Send of a pending row, delivered or not, and the touch |
| `Settle` | the UPDATE that requires the snapshot's status and signature and writes the code |
| `Interrupt` | a pass ends early: timeout, a database error, a stopped process |
| `Land`, `Drop`, `Succeed`, `Fail`, `AdvanceHeight`, `BurnOutside` | the cluster and the wallets (external) |

### LoyaltyPromise and the refinement

`LoyaltyPromise` is the program as a member understands it: an operation is
offered once per key, granted or voided once, moves points exactly when
granted, and a granted redemption gives one code, collected at most once. The
mapping makes an operation *granted* at the step that finalizes its transaction
with success, although the journal learns of it later, and *void* when the
transaction is finalized with an error or the worker expires the row. That
expiry is a promise about the future: the mapping is a refinement only because
nothing can land after it.

### WorkerQueue

`updated_at` is only compared, so the unsettled rows are a sequence in its
order, and `Without` takes a row out of it. `Ask` (State with its three outcomes),
`Serve` (Send and the touch), `Settle`, `SkipRow` (the error path that does *not* touch) and `Interrupt` are
the branches of Reconcile; `Create` and `Submit` are the handlers' writes to
`updated_at`; `Decide` is the cluster.

### RedemptionClient

One reward, one wallet. `flow[p]` is what page `p`'s redeem call holds at its
current await, `stored` the attempt in local storage, `op` the server's
operation under each key, `late` the requests nobody waits for. `ClickNew` and
`ClickRecover` are the two branches at the start of redeem, `Recovered` and
`Continue` what follows the answers, `Sign` the wallet, `Submitted` the end.
`Abandoned` is the generation check after an await, `GiveUp` every catch.
`ReadActivity` and `ShowActivity` are refresh as far as it calls
settleAttempts; `Reload`, `SignOut` and `Connect` change the generation.
`Respond`, `Refuse`, `ExecuteLate` and `Settle` are the server.

### MemberSession

One page, several wallet accounts. `challenges` and `sessions` are the Redis
keys, `cookie` the browser's, `page` what is shown, `connecting`, `me`, `read`
and `logouts` the calls under way, each with the cookie it was sent with.
`Challenge`, `SignMessage`, `Verify` and `Connected` are connect step by step;
`Restored` the answer of the first `/member/me`; `Poll`, `Refreshed` and `Lose`
refresh; `ClickDisconnect`, `AccountChange` and `LoggedOut` the two ways to sign
out; `ServeMe`, `ServeRead`, `ServeLogout` the server; `Expire` Redis and the
cookie. A session is named by the nonce that granted it, which `TypeOK`
justifies: a challenge that granted a session is gone. Another tab
signs in and out in single steps that change the cookie under this page
(`SignInElsewhere`, `SignOutElsewhere`); `disturbed` remembers that it did, until
the page is loaded or signs in.

### MemberApp

What a visitor sees and may press. `page` and `wanted` are App's state, `open`
the stack of native dialogs on the screen: `Rendered` is the effect of ui.tsx
that calls showModal on mounting, and `Escape` the browser that closes a dialog
whatever `onCancel` decided, so `wanted` and `open` may come apart. `orbit` is
useOrbit, `call` the connect or redeem that holds the action lock, `read` the
refresh under way. `Discard` is App's effect on a change of mode or account, and
part of every action that changes them. `Navigate` to `DismissError` are the
pages' buttons, `CloseDialog`, `Escape` and `ConnectForReward` the dialogs',
`ExploreDemo` to `RedeemSample` the demo; `ChooseWallet` to `CallFails` connect
and redeem; `Poll` to `ProgramLoads` what arrives by itself; the rest signs out.
`ledger` is the server's answer, one redemption per account. `orbit` has two errors,
as useOrbit has: that of actions, and `refreshError`, which each read of a refresh
sets anew to what has failed in this refresh so far (`Reported`; `read.failed` is the
list `errors`). An activity read also fails when the attempts cannot be settled in
local storage, after its answer has been shown. `known` is history: of which of the
member's two reads the last one succeeded.

### MetadataTool, MintSetup, ServerStart, PublicApi

* **MetadataTool.** An invocation goes through `ReadMint`, `Plan`, `Simulate`,
  `Record`, `Send`, `Confirm`, `ReadBack` and `CheckMint`, the awaits of main,
  and may `Stop` at any of them. `Land` and `Expire` are its transaction, `Award`
  and `SetFee` what others do at any moment; `newer` is history: whether the owner
  has set a fee since the last plan was made. `ValidateMint` is the tool's check of
  the mint, `ServerValidates` the API's.
* **MintSetup.** `Stat`, `Generate`, `Open` and `Write` are keypair for one of
  the two files, `AskMint`, `SendMint` and `Observe` the rest of run. A file may be
  missing, empty (opened and not yet written) or hold a key.
* **ServerStart.** `Lock` and `Migrate`, `Connect`, `BindInsert` and `BindSelect`
  are the start; `Journal` stands for any handler; `Signal` and `Stop` end a
  process, and `LateInsert` is the INSERT of one that is gone.
* **PublicApi.** `Count` is the script of INCR and EXPIRE; `Get`, `ReadCache`,
  `ReadTable` and `WriteCache` are rewards; `Cut` the request's deadline;
  `LoseRedis`, `Expire` and `Tick` are Redis and the clock.

The four programs share no state while they run, and the journal's second
instance shares none with them: MCOperations checks them in one run, each
behaviour playing one *scene* while the others stay as they began.

## 3. The runs

| run | instance | states | checks |
|---|---|---|---|
| `settle_race` | one redemption, two requests and two workers at once | 151,531 | `TypeOK`, `ExpiredNeverLands`, `OutcomeIsFinalized`, `CodeIsFinal`, `RowsMoveForward` |
| `settle_keys` | one key used for two awards of different payload and for a redemption; two requests, one worker | 406,837 | `SentIsJournaled`, `OneEffectPerKey`, `OneAnswerPerKey`, `PointsConserved`, `PromiseKept` |
| `settle_award_key` | one merchant key, two wallets | violation | `AwardKeyReuseRefused` |
| `worker` | two scenes, with fairness: three rows in batches of one, and an award with the redemption it pays for | 23,391 | `TypeOK`, `NoRowIsOvertaken`, `QueueIsServed`, `EveryRowSettles` |
| `redeem_retry` | one page, two keys, with fairness | 43,479 | `TypeOK`, `OpenIsRemembered`, `OneOpenBurn`, `AttemptsAreReleased` |
| `redeem_two_tabs` | two pages, three keys | violation | `PendingKeepsItsKey` |
| `session` | two accounts, three nonces, a patient visitor, another tab | 84,005 | `TypeOK`, `ActsAsShown`, `DataIsTheMembers` |
| `session_race` | the same, an impatient visitor | violation | `ActsAsShown` |
| `app` | two accounts, one reward, a demo of one point, with fairness | 286,952 | `TypeOK`, `ClaimIsTheMembers`, `ClaimIsVisible`, `DemoAddsUp`, `RedeemsOnAFreshBalance`, `ErrorsAreKeptApart`, `ClaimAppears` |
| `app_retry` | the same | violation | `RetryIsOffered` |
| `operations` | five scenes: two invocations of the metadata tool, three runs of the set-up, two processes with two mints, two requests for the catalog, and two redemptions of 1 and 2 points of a member who holds 2 | 1,023,353 | `TypesOK`, `VerifiedStays`, `KnownFeeStays`, `ServerTakesTheMint`, `OneMint`, `EveryMintHasItsKeys`, `NamesAFinalMint`, `HistoriesAreNotMixed`, `ServersAgree`, `RefusalsEnd`, `CatalogIsRecent`, `PointsConserved` |
| `metadata_fee` | two invocations of the metadata tool, two fees | violation | `KeepsTheFee` |

What they show:

* **`settle_race`** A worker that reads height, then status, then settles from a
  stale snapshot never expires a transaction that lands, never contradicts the
  finalized ledger and never writes a second code, even against another worker
  and repeated submits. Reading the status first, settling on less than
  finality, or dropping the snapshot from the UPDATE's condition breaks it.
* **`settle_keys`** Whatever requests race for a key, the unique index and the
  re-read leave one operation and one answer, and an orphaned signed mint is
  never sent. The same run checks the refinement.
* **`worker`** The touch serves rows in turn although rows whose State call fails
  keep their place at the head: without it, or with the batch taken from the other
  end, a row waits for ever. Given that every row is reached again and again, lost
  sends, dropped forks, interrupted passes and members who never sign leave no row
  open. The two halves share no state; each behaviour plays one, under the
  fairness of that half.
* **`redeem_retry`** Saving the key before the request is what makes every lost
  answer recoverable; checking statuses against all terminal ones is what
  releases an attempt.
* **`session`** With the first `/member/me` answered before the visitor acts,
  the generation checks are enough: no late answer shows another member's data
  or leaves the page naming one member while the cookie is another's.
  What another tab does with the cookie disturbs the page: refresh shows the
  answer without asking whose session gave it (useOrbit.ts:85), so the next poll
  puts the other account's data under the name on show, and both properties say so
  (`~disturbed`). They claim that it can do no more than that: the disturbance ends
  when the page signs in or is loaded, it never mixes up a sign-in under way, and a
  page that is signed out shows nobody's data in any case.
* **`app`** Whatever is pressed while answers are under way: the claim on the
  screen belongs to the account on the page and is really on the screen, a failed
  balance read withdraws the offer to redeem, a refresh that begins or ends leaves
  the errors of actions alone and does not complain of what has recovered, and a
  finalized code comes to be listed although balance reads fail for ever. The one
  answer that may replace an action's error is a 401, which signs the member out.
* **`operations`** A recovery record before each send is what lets an interrupted
  metadata invocation be followed safely; an update that carries the fee of its own
  read keeps it, unless the owner sets another meanwhile (finding 5); O_EXCL and the checked write are what
  keep repeated set-ups to one mint; INSERT ... ON CONFLICT DO NOTHING with the
  SELECT after it keeps one history per database, even when an INSERT is executed
  after its process has gone; setting counter and expiry in one script ends every
  refusal; and a catalog read just before an edit may still be cached after it,
  so a served one is at most a time to live and one deadline old. In the journal's
  scene, checking the balance before preparing is only advisory: two redemptions
  may both pass it. Points are conserved because the cluster refuses the second
  burn and codes follow finalized burns.

Every property has a mutant in `PROJECT.json`: a plausible slip in the mapped
code (the `Bug...` operators) under which the same run finds it violated.

### Findings

1. **A merchant key is unique per wallet only** (`settle_award_key`;
   `api.go:279`, `schema.sql:28`). `README.md:224`: "Reusing it with a different
   payload returns `409`." The key posted again with another wallet in the
   payload journals a second award.
2. **A pending redemption can lose its retry key to another tab**
   (`redeem_two_tabs`; `useOrbit.ts:270`). Two tabs look up one ended attempt;
   the faster renews it and submits; the slower, resuming from its await, saves
   a new key over it without reading storage again. `README.md:137`: "Pending
   redemptions retain their retry key across reloads".
3. **The restored session is applied whenever its answer arrives**
   (`session_race`; `useOrbit.ts:118`). A visitor who starts connecting another
   account before the first `/member/me` is answered can end with a page naming
   the restored account and a cookie of the other. `docs/wallet-acceptance.md:23`
   and `:30` describe the app that displays the approved account and only its
   data.
4. **Escape during a sign-in takes the retry away** (`app_retry`; `ui.tsx:53`).
   The browser closes the native dialog although App keeps it rendered while an
   action runs. When the wallet then rejects the login, App believes the dialog
   open, and Connect wallet mounts nothing. `docs/wallet-acceptance.md:22`: "the
   UI offers a retry."
5. **An update of the metadata undoes what the owner set meanwhile**
   (`metadata_fee`; `metadata-plan.ts:133`). The update carries the fee and the
   creators of the tool's first read and sets every data field when it lands,
   which may be minutes later; a fee the owner has set in between is written back,
   and the read-back looks at name, symbol and URI only. `README.md:218`: "updates
   preserve unrelated metadata fields". `KnownFeeStays`, which does hold, says how
   far the sentence goes.

### Bounds, and why they are enough

* **Ids, handlers, workers.** Interference in the server is between two parties
  over one row or one key: two requests, two workers and two operations give
  every pair. The theorems of section 4 hold for any number.
* **Window, MaxHeight.** A transaction lives for `Window` blocks; `MaxHeight`
  exceeds it by enough that rows expire while another is being prepared. It is
  the bound of the height counter. With `Window` 2 the block in which a
  transaction lands differs from the one that decides it.
* **Rows and batch size.** `BatchSize` is smaller than the number of rows, so
  rows remain outside every batch; with `BatchSize` 1 a row that cannot be
  answered for keeps the whole batch.
* **Keys, nonces.** A fresh key or nonce is never one used before; their
  number bounds the retries. Two keys give an attempt and its renewal; the two
  tabs need a third. Three nonces are a visit before the page load and two
  sign-ins. One `/auth/logout` of each kind may be under way.
* **MemberApp.** One redemption per account and one logout at a time, two of the
  four pages (`Visited`: the one with rewards and activity, and Activity), one
  reward of one point, which one account can pay for and the other cannot.
* **MCOperations.** Interruption needs two of each: an invocation whose
  transaction is under way and the next one; a set-up that left an empty file, one
  that left a full one, and a third that repeats; an old process and a new one.
  Two edits of the catalog let a version be two edits old. The ticks of the clock keep
  the order of the code's limits: deadline 1 (10 s), time to live 2 (30 s), minute
  2, which is enough because only their sums are compared.
* **Symmetry** is used on ids, handlers, workers, wallets and nonces, only in
  runs without liveness properties.

### Deadlock

TLC checks deadlock in every run but `operations` and `metadata_fee`, whose programs end: an
invocation is over, and the bounds on runs and edits are used up. `Rest` in
WorkerQueue is the ticker finding nothing; in the other modules some caller can
always move, since a request that fails, a page that is reloaded or a pass that
is interrupted is a step.

### Fairness

* **Settlement.** Blocks keep being finalized; a transaction that lands again and
  again does not lose its fork for ever, so it is some time decided; the 3 s ticker
  starts passes; State, Send and Settle for a row do not fail for ever. It is
  strong fairness because an interrupted pass starts over. That the worker reaches
  *every* row again and again is not granted by the ticker: WorkerQueue shows it
  from the order of the batch. Nothing is assumed of members, handlers or sends: a
  redemption nobody signs expires.
* **WorkerQueue.** Only that passes start, and that a row which is at the head
  of a batch again and again is some time answered for and then served before
  its pass ends. Nothing is assumed of rows behind the head.
* **RedemptionClient.** Every await ends (`api.ts` aborts after 15 s, a wallet
  prompt is answered), and a member who keeps trying connects, clicks and is
  answered some time, though any single try may be lost.
* **MemberApp.** The timer fires while the page is visible, a balance read ends
  by its answer or after 15 s, and an activity read that is tried for ever
  is answered some time, whether or not local storage takes what it settles. A balance read may fail for ever, and nothing is assumed of
  the visitor.

### Assumptions

* A status call sees the chain at least as finalized as the height call before
  it (one RPC endpoint). Behind a balancer over nodes that lag differently, the
  order of the two calls would not be enough.
* What JavaScript does between two awaits is one step; the browser stores the
  cookie of an answer and runs the code awaiting it in one step.
* A wallet signs what it is shown; a signature verifies only for the message it
  was made for.
* Local storage is available and uncorrupted, and the 100 operations of
  `/activity` include the stored attempt's. RedemptionClient has one reward and
  one wallet, because attempts are stored under both names.
* Redis executes a command within the deadline of its request or not at all.
* The operator runs one invocation of the metadata tool at a time and, as
  `README.md:218` asks, inspects the signature of every recovery record before
  the next. The owner may set the fee at any moment. The set-up's files
  are kept between runs; what a run wrote is on disk. The JSON and image behind a
  metadata address are fit.

## 4. The proofs

All theorems are for every value of the constants that satisfies the module's
`ASSUME`; no fact is assumed without proof. Every invariant and every action
property that a passing run checks is also a theorem, and so is the refinement;
the four liveness properties are only model-checked.

**Settlement** (`SettlementAssumption`: the constants have their types).
None of the safety properties is inductive alone. That an expired row's
transaction never lands needs to know, at the worker's last step, what the
verdict in its hand still means after everything that happened since: the
invariant `IInv` says of every snapshot what no later step can undo
(`SnapshotInv`), and of every verdict that it was final when it was computed
(`VerdictInv`): *expired* means the height was already past the row's last valid
height and the transaction absent, hence (`LedgerInv`) absent for ever.
`UniqueKeys` with `HandlerInv` (a draft's id is its own; a submitter carries the
stored message) gives one effect and one answer per key. `SettlementProofs` proves `Init => IInv` and
`IInv /\ [Next]_vars => IInv'`, an action at a time, and from it:

| theorem | property |
|---|---|
| `TypeCorrect` | `TypeOK` |
| `ExpiredIsSafe` | `ExpiredNeverLands` |
| `OutcomeIsTrue` | `OutcomeIsFinalized` |
| `SendsAreDurable` | `SentIsJournaled` |
| `CodesAreFinal` | `CodeIsFinal` |
| `OneEffect` | `OneEffectPerKey` |
| `OneAnswer` | `OneAnswerPerKey` |
| `JournalIsMonotonic` | `RowsMoveForward` |
| `PointsAreConserved` | `PointsConserved` |
| `ServerKeepsPromise` | `PromiseKept` |

**Points.** `PointsConserved` speaks of codes, which are written long after the
burn, so it is not inductive. `PointsInv` is the books of the cluster: what was
burned and what wallets hold is at most what they began with and what was minted.
Each mint and burn moves the same number of points from one side to the other,
and `IInv` gives the rest: a row with a code is a confirmed redemption, whose burn
is finalized. The sums are the library's, over finite sets of ids and wallets
(`FiniteAssumption`: uuids and addresses are finite), and the library defines
them by recursion over a set in the order of CHOOSE. `FiniteSums` proves what they
return: that the recursive function exists and is unique (by the least element of
the set of counterexamples, under inclusion), hence that any index may be taken
out first (`SumOfAny`), and from it the effect of changing one value
(`SumOfChange`), of one more index (`SumOfOneMore`) and of fewer (`SumOfFewer`).

**Refinement.** `ServerKeepsPromise`: under `IInv` every
step of Settlement maps to the one promise step it should be or to a stutter.
`Insert` is `Offer`, `Succeed` is `Grant`, `Fail` is `Void`, `Settle` is
`GiveCode`, `Void` or nothing according to its verdict, `Fulfill` is `Collect`
and `BurnOutside` is `Spend`.

**RedemptionClient** (`ClientAssumption`; one page, any number of keys).
`IInv` adds that storage, the page's flow and every late request name the same
operation while it is open, and that an activity answer lists only what has
ended for good. It gives `TypesAreKept`, `NoOpenRedemptionIsForgotten` and
`NeverTwoBurnsUnderWay`. One page is a hypothesis: finding 2 shows why.

**MemberSession** (`SessionAssumption`; a patient visitor, any number of accounts
and nonces). `IInv` adds that a nonce under way is no request's cookie
(`ConnectInv`), that a refresh under way is the shown member's (`ReadInv`), and
that nothing else has happened while a session is being restored (`RestoreInv`).
It gives `ChallengesAreSingleUse`, `PageActsAsShown` and `PageShowsOwnData`.
Patience is a hypothesis: finding 3 shows why.

`NobodysDataIsShown` needs no patience: a signed-out page is blank for any visitor,
because a refresh under way implies a member's page. What another tab disturbs is
vacuous in the conditional conjuncts; that its nonce is nobody's else is what keeps a
sign-in under way intact.

**WorkerQueue** (`QueueAssumption`: a batch holds at least one row; any rows).
`NoRowIsOvertaken` speaks of the row in hand only. `IInv` carries it through a
pass: a row served since `q` was last asked about stands behind `q` in the queue
(`OrderInv`), and behind it in what is left of the batch (`BatchInv`), because a
batch is the queue's beginning and the touch appends. `WithoutRow` and
`MoveToBack` do the arithmetic of positions once. It gives `TypesAreKept` and
`TheTouchIsFair`.

**MemberApp** (`AppAssumption`; any accounts, finite catalog, prices and balances).
`IInv` falls into parts that disturb each other little, and each is shown to be
preserved by itself. *The screen* (`UiInv`): the dialogs on the screen are
distinct and among those App mounts, and the claim is one of them. That needs to
know that the claim is on top whenever it is there, so Escape closes it in React's
state too, and lemmas about the stack say what mounting and closing do.
*useOrbit* (`OrbitInv`): a read under way and a redemption of this generation are
the member's (`MemberInv`), and a balance is shown only after a read that
succeeded (`KnownInv`). *Refreshes* (`RefreshInv`): what a refresh reports is what
its reads so far, or those of the last one, have failed of. *The ledger* (`LedgerInv`) covers an open redemption, and
*the demo* adds up, by the lemmas of `FiniteSums`.

| theorem | property |
|---|---|
| `TypeCorrect` | `TypeOK` |
| `ClaimsAreTheMembers` | `ClaimIsTheMembers` |
| `ClaimsAreVisible` | `ClaimIsVisible` |
| `DemoIsConserved` | `DemoAddsUp` |
| `RedemptionsBeginOnAFreshBalance` | `RedeemsOnAFreshBalance` |
| `ErrorsDoNotMix` | `ErrorsAreKeptApart` |

**MetadataTool** (`OperationsProofs`, `ToolAssumption`; any invocations, addresses,
fees and supply). `ToolInv` says that at most one invocation runs or has a
transaction under way, which is what a record for every transaction buys, and that
the plan in hand or under way carries the fee on the ledger as long as the owner has
set none since it was made (`FeeInv`). It gives `TypesAreKept`, `VerifiedIsLasting`,
`KnownFeeIsKept` (an action property) and `PublishedMintIsServed`.

**MintSetup** (hypothesis: `Missing`, which stands for no file, is no number; any
number of runs). A file that is opened and not written has one writer
(`WriterInv`); a key a run holds is its file's (`KeyInv`); whoever talks to the
ledger holds both (`StageInv`); so all send for the same address, and the ledger
has at most the mint under the files' keys (`LedgerInv`). It gives `MintIsUnique`,
`KeysAreKept` and `NamedMintIsFinal`.

**ServerStart** (`OperationsProofs`; any processes and mints). Who works has the
mint that is bound, and the bound mint is never replaced (`ServersInv`); exactly
the process that migrates has the lock, and no process is past Migrate without the
tables (`LockInv`). They give `OneHistory`, `ServersKeepToTheirMint` and
`ServersAreTyped`.

**PublicApi** (`OperationsProofs`; any clients, requests, limits and times). The
age of a counter and the time it has left add up to at most a minute
(`CounterInv`), because only the first request sets the expiry. A version of the
catalog grows older while it is cached and while a request carries it; its age and
the time left to the cache add up to at most a time to live and a deadline
(`CacheInv`), and to a request to a deadline (`RequestInv`). They give
`CountersExpire`, `CatalogsAreRecent` and `PublicIsTyped`.

**Side by side** (`OperationsProofs`, `OperationsAssumption`: the numbers are
numbers, no process or id is `None`, and ids are finite). `EveryProgramIsKept`:
each step of MCOperations is a step of one program and leaves the variables of the
others alone, so every behaviour of the composition is one of each program. What
was proved of the programs, and of Settlement in its proof module (instantiated as
`SetupProofs` and `JournalProofs`), then holds of the composition that is run:

| theorem | property |
|---|---|
| `EverythingIsTyped` | `TypesOK` |
| `VerifiedIsLasting`, `KnownFeeIsKept`, `PublishedMintIsServed` | `VerifiedStays`, `KnownFeeStays`, `ServerTakesTheMint` |
| `SetupMakesOneMint`, `SetupKeepsTheKeys`, `SetupNamesAFinalMint` | `OneMint`, `EveryMintHasItsKeys`, `NamesAFinalMint` |
| `HistoriesStayApart`, `ServersStayWithTheirMint` | `HistoriesAreNotMixed`, `ServersAgree` |
| `RefusalsAreShort`, `ServedCatalogsAreRecent` | `RefusalsEnd`, `CatalogIsRecent` |
| `PointsStayConserved` | `PointsConserved` |

**Only model-checked.** The liveness properties `EveryRowSettles`, `QueueIsServed`,
`AttemptsAreReleased` and `ClaimAppears`: liveness under fairness and ENABLED are
out of TLAPS's reach. The five findings are counterexamples, which TLC shows.

## 5. What is not modelled, and the plan

Left out for good, with the reason:

* wording, layout, the clipboard label, the filters of the lists and the list of
  installed wallets in the views: presentation, no state that anything else reads;
* JSON, `config.Load`, and the set-up of HTTP; the fitness checks of the metadata's
  JSON and image (`verifyAssets`, `validatePublicURI`): pure input and output;
* `balance`, `operation`, `merchantOperation`, `config` and `health`: handlers that only
  read, whose answers Settlement, MemberSession and MemberApp model where somebody
  uses them;
* the bytes of a burn and of a mint's account, and how Balance finds and parses a
  member's one associated token account: conversions whose result the models take;
* the build files: no behaviour at run time.

Four hazards have no property. A status node that lags behind the node that
reported the height is outside what the code can see (section 3, Assumptions). An
award between the metadata tool's first and last look at the mint makes it report
a change; the model has the case, and the report is a false alarm that asks the
operator to look. A logout that is answered after a later sign-in signs that member
out, and a sign-in in another tab changes for whom a page's requests are answered:
MemberSession has both, the code prevents neither, and the properties about sessions
only bound the harm (a signed-out page is blank; the mix-up ends when the page signs
in or is loaded).

The plan that is left:

| module | models | properties worth stating |
|---|---|---|
| `ChainRules` | BuildBurn, SignRedemption's inspection of a signed transaction and Balance's choice of the one associated account, as pure operators | a burn built for a request passes inspection, and for that request only; the account that is burned from is the one whose balance was read |
| `MemberSession`, two full tabs | each tab with its own page, instead of single steps elsewhere | what an account change in one tab does to the session of the other |
| proofs | what `LoyaltyPromise` itself implies | codes for granted redemptions only, as theorems about the promise that the refinement carries to the code |
