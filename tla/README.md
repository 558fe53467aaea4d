# Verification of DEEIX Grok

TLA+ models of the backend in `src/backend`, model-checked with TLC and proved with TLAPS for any number of users,
requests, files and faults, as far as the sections below say. The models are written from the Go source;
`PROJECT.json` names for every definition the lines it stands for.

The backend is a chat server. A request to generate a message reserves money, calls an upstream
model through a channel, streams the answer to the user's browsers and settles the usage. Around
that it processes uploaded files, sells plans and balance, and stores everything in PostgreSQL or
SQLite and in Redis or an in-process cache.

## 1. Inventory

| Component | State it keeps | Operations | Interacts by | What is hard, and what makes it correct |
|---|---|---|---|---|
| **Usage billing** (`repository_reservation.go`, `repository.go`, `service_billing.go`) | account balance, usage reservations with a lease, usage ledger, balance transactions | authorise, renew, release, settle, mark for reconciliation, set balance | database transactions called from request handlers and their renewal tickers; log cleanup deletes ledger rows | concurrent requests of one user, lost answers and retries, crashes, leases that lapse. A reference is charged once; promises never exceed the balance; the balance is explained by its history; no slot leaks |
| **File processing queue** (`memory/file_queue.go`, `redis/conversation_cache.go`) | waiting messages, leases in flight, dead letters | enqueue, read, take over, renew, settle, requeue, bury | called by uploads and by workers | lapsed leases, limit of the queue. One message per file; only the holder disposes of it |
| **File processing** (`processing/service.go`, `repository_processing.go`) | row status and attempt id | initialise, claim, extract, publish, embed, fail, reset, finalise | the queue and the row live in two stores | crashes between two stores, takeover, zombies. No accepted file is abandoned, results are final, everything ends |
| **Payments and redemption codes** (`billing/repository.go`, `billing/service.go`, `payment.go`) | orders, codes, redemptions, balance | create, check out, complete, redeem, administer codes | payment webhooks, log cleanup | duplicate and late webhooks, limits of codes that change. A payment is credited once, a code within its limits |
| Weekly quota | cycles, per-user quota | ensure, reset, reserve, settle | clock, administrators, billing | settlement after a reset. No usage counted in two cycles |
| **Subscription timeline** (`billing/repository.go`) | subscriptions in time | grant, displace, append, replace | payments, redemptions, administrators | order and gaps of entitlements; grants that cross. What was granted is kept, nothing is given twice |
| Generation streams | run owner, active lease, events, text snapshot, cancel mark | register, publish, subscribe, cancel, finish | cache, timers, subscribers in several processes | replaced runs, expiry against finish, replay windows. Subscribers see each event once and in order; finished runs are not active |
| **Channel routing and circuit breaker** (`channel/service_routing.go`, `memory/channel.go`, `redis/channel_cache.go`) | per upstream and per model: open and probe times, failures; the setting | resolve route, record success and failure, release probes, open and reset by hand, switch on and off | every upstream call; the cache is shared by all servers | tokens of two levels, requests that never report, late failures, stale settings. One probe at a time; no token is forgotten; no circuit stays shut out |
| Embedding index | embed status and signature, chunks, reindex flag | claim, publish, complete, mark stale, reindex | runtime configuration, file processing | configuration changes while files are embedded. A ready file has current vectors |
| Conversations: sending, branches, sharing | message trees, runs | send, regenerate, branch, share | all of the above | mostly sequential shaping of data |
| Uploads, extraction, retrieval, knowledge bases | file objects, text, chunks | upload, deduplicate, extract, search | object storage, external engines | I/O and text algorithms |
| **Content moderation** (`contentmoderation/*.go`, `service_moderation.go`) | coordinator of each run, queued checks, pending withdrawals, recorded hits, moderation state of run and messages | begin run, barrier, check, withdraw, retry, recover | the run, a pool of workers, a recovery loop; rows and retained events | late hits, failed withdrawals, ended processes. Nothing unchecked passes; a hit is withdrawn in the end and stays so; no run stays in moderation |
| Context compaction | summaries | queue, summarise | workers, external models | late summaries |
| Authentication, users | sessions, factors, grants | log in, refresh, bind | cache, identity providers | one-time grants |
| Settings and runtime configuration | key-value settings, snapshots | read, update | all | stale snapshots |
| Rate limiter, memory cache maintenance | counters, expiry times | allow, sweep | mutex | window boundaries |
| **Log cleanup** (`logcleanup/service.go`, `logcleanup/repository.go`) | none of its own | delete rows of one type before a moment | deletes usage ledger rows and payment orders under the feet of billing and payments | rows that others still count, point to or are about to lock. Nothing is charged or granted again because a row is gone |
| MCP, memory, skills, presets, announcements, audit, admin, model adapters, lifecycle, frontend | rows, logs, clients | CRUD, reading, translation | HTTP | little protocol of their own |

`PROJECT.json` lists the same components with their status, and under `hazards` every place of
this code that is hard to test, with the properties that watch it or the reason why none does.

## 2. Plan

The order is by how much harm a wrong step does and how little a test would notice.

1. **Usage billing**: `Totals`, `BillingStore`, `UsageBilling`, abstract `UserAccount`. Done and proved.
2. **File processing**: `FileQueue`, `FileProcessing`, abstract `FileWork`. Done and proved, but for
   liveness; left are fallback mode and readers that wait for a result.
3. **Circuit breaker**: `CircuitBreaker`. Done and proved, but for liveness.
4. **Content moderation**: `ContentModeration`. Done and proved, but for liveness.
5. **Funding**: payment orders, webhooks, redemption codes, over `SubscriptionTimeline`, abstract `Entitlements`.
   Done and proved; left are orders without an end and plans without a price.
6. **GenerationStream**: registration, active lease, cancel, finish, expiry; then the replay of
   events to reconnecting subscribers against an abstract sequence of events.
7. **WeeklyQuota**: cycles and settlement across a reset, beside `BillingStore`.
8. **EmbeddingIndex**: embedding against changes of the configuration, composed with `FileProcessing`.

## 3. Usage billing

### Modules

| Module | What it is |
|---|---|
| `Totals` | sums over finite sets, clamping, rounding division: helpers of both Go repositories |
| `BillingStore` | the tables of one user and every database transaction on them |
| `UsageBilling` | the handlers of several requests, step by step, with their failures; the properties |
| `UserAccount` | the abstract specification: a balance that changes by one bill per reference and by credits |
| `MCUsageBilling` | symmetry for TLC |
| `TotalsTheorems`, `UsageBillingProofs` | the proofs |

### State and actions against the code

* `balance` is `billing_accounts.balance_nanousd`; `ledger` the rows of `usage_ledgers`, `txns` those
  of `balance_transactions`, each recording the balance after it as the code does. A balance may go
  below zero, since usage is billed in full.
* `res[r]` is the row of `usage_reservations` with reference `r`. `lease` counts the renewal
  intervals until `expires_at`; 0 is expired. An expired row keeps the status `active`, exactly as
  in the table, but no longer holds budget (`Holding`).
* Log cleanup (`logcleanup/repository.go:34`) deletes ledger rows up to a moment, whatever they bill and without
  the account lock. `ledger` keeps what was ever written, `cleaned` says how many of the oldest rows are gone, and
  `Kept` are those in the table: the sum of the period (`Used`) and the look-up of a settled row see only these.
  The usage of the period drops when rows go, so the plan's credit can be used again, and a retried settlement
  whose row is gone fails and is not retried (`restoreSettledUsageLedger`).
* `exposure` is no state of the program. It adds up what no reservation could have limited: usage
  beyond the budget held for it, a lapsed reservation that comes back as reconciliation, and a
  balance lowered by an administrator. It makes the sharp form of `BudgetCovered` expressible.
* Each transaction is one action. `ReserveUsageBalance` reads balance, sums and count in separate
  statements while it holds the lock on the account row; release, renewal and marking lock only
  the reservation row and can only lower what those statements saw or change it to reconciliation,
  so one atomic step stands for them.
* `req[q]` is the handler: authorise, upstream call, release, or settle, mark and stamp with at most
  `MaxTries` attempts each (`retryUsageBillingOperation`). Every call can fail before or after its
  effect. `ContextEnds` is the end of the context the billing calls run in, `Crash` the end of the
  process, `Interval` one tick of all renewal tickers, each of which may fail.
* Abstracted: prices (the amount of a charge is any of `Charges`), ledger descriptions, time stamps,
  weekly mode, the legacy reservations from balance transactions.

### Properties

`ChargedOnce`, `BalanceExplained`, `BudgetCovered`, `CreditBounded`, `BillIsAuthoritative`,
`ReservationsFinal`, `SlotsFreed` and the refinement `KeepsPromise` are stated
with their meaning at the end of `UsageBilling.tla`. `CreditBounded` counts what the plan paid for the rows that are
still in the table and what it has promised to unexpired reservations; of rows that log cleanup deleted it says
nothing, since the code forgets what the plan paid for them. `ChargedOnce`, `BillIsAuthoritative` and
`KeepsPromise` are about all rows ever written.

### Runs

| Run | Bounds | What it shows |
|---|---|---|
| `billing` | 2 references, 2 requests, 2 slots, lease of 2 intervals, credit 3, balance 4, charges of 2, prepaid amount off or 3, 1 balance change, any deletion of ledger rows, 2 attempts | all safety properties and the refinement, 3.6 million states |
| `billing_live` | 2 requests for 1 slot, lease of 3 intervals, fairness | the slot limit refuses; a lapsed reservation returns as reconciliation while the slot is taken; a slot is always freed |
| `billing_cut` | as above | violated: `FailedSettlementBlocks`, see findings |
| `billing_overage` | as above | violated: `ReservationsKeepCharges`, see findings |

Why the bounds suffice: interference needs two requests, which in `billing_live` are one more than
there are slots; a lease of three intervals can be renewed, missed and lapse; two charges of 2
on a credit of 3 reach the covered, the mixed and, with credit reserved by the other, the overage case, and a budget cut to what is left of
the balance lies below the charge; two rows can be deleted one by one or together, before, between and after settlements; two attempts give one retry after each kind of failure. The proofs remove the bounds for
everything but liveness.

Deadlock is not checked: all requests may have ended.

**Fairness** of `billing_live`: time passes (`WF(Interval)`) and a handler that lives goes on
(`WF(Handle(q))`), which the Go scheduler and the time limits of the contexts give. Nothing is
assumed of calls succeeding; the upstream call ends because it has a timeout.

### Proofs

`Spec => [] TypeOK` (`TypeCorrect`) rests on the inductive invariant `TypeInv`, which is `TypeOK`
with `Authorised`: a request that has left `idle` holds a real reference. Without it a handler
could index the reservations with the "none" of an idle request. `StepIsTransaction` reduces every
step of every handler to one of the transactions of the store or to a stutter, so that each later
proof has a case per transaction and not per handler step.

* `EveryReferenceChargedOnce`: `ChargedOnce` is inductive together with the types, because a
  settlement appends one row and makes its reference settled, and settled references cannot settle.
* `BudgetsCovered`: by cases on the transaction, with lemmas about how the sum of budgets moves
  when one holder comes, goes or stays (`HeldRises`, `HeldDrops`, `HeldShrinks`). They rest on the
  lemmas about sums in `TotalsTheorems`, which are proved from the library's theorems on folds of
  finite sets.
* `BalancesExplained`: the chain of the transactions and the ledger rows behind the charges, transaction by
  transaction.
* `CreditNeverExceeded`: `CreditInv` adds that no row covers more than it bills (`CoveredByBill`), so that what the
  plan paid for the rows kept is at most `Used` (`CoveredWithinUsed`), and that what is promised is at most what the
  holders hold (`PromisedWithinHeld`). A reservation takes at most what both leave of the credit (`CreditReserved`). A
  settlement pays at most what the others' holds leave and gives up its own promise (`CreditSettled`); release,
  lapse and reconciliation only take from the promises (`PromisedShrinks`), deletion only from what was paid (`PaidShrinks`).
* `PromiseKept`: the initial states map to initial states and each transaction to `Charge`,
  `Credit` or a stutter, with `ChargedOnce` to show that the new bill is of a new reference.
* `FinalStaysFinal`: an action property from the type invariant.
* `BillsAuthoritative`: a handler that lost the answer to its settlement gets its bill from a later
  attempt, and the row it gets must be its own charge. `BillInv` follows that: no two requests have the
  same reference (`RefsDistinct`), and once a reference is settled the row its reservation points to bills
  the charge of the request that has the reference (`BillKnown`), though that request may not know it yet.

Assumptions: only `StoreAssumption` and `BillingAssumption` (finite set of references, natural
amounts, at least one slot, one interval and one attempt). TLC evaluates them in the runs.

Only model-checked: `SlotsFreed` (liveness).

## 4. File processing

### Modules

`FileQueue` is the queue, `FileProcessing` the upload, the workers, the row and the properties,
`MCFileProcessing` the symmetry for TLC. `MCFileProcessingLive` instantiates `FileProcessing` once for each
store, with the fairness and the liveness property. `FileProcessingProofs` and `FileProcessingSafety` hold the
proofs.

`FileWork` is what an accepted upload is promised: its file has one item of work, which waits or is held by one
worker; only the holder gives the file its result, hands the item back or drops it, and drops it only
when there is a result. `FileProcessing` implements it (`WorkedOff`). The item is the message of an accepted file,
held by whoever has the lease (`Item`); the result is the status of the row once that is final (`Result`).
Attempts, claims, lapsing leases and lost answers are steps that `FileWork` does not see.

### State and actions against the code

* `queue` holds the waiting messages, `lease[f]` the message in flight of file `f`: its holder, its
  retry count and whether it has been idle for `fileProcessingMinIdle`. The ids of messages are left
  out. That is sound because a file never has two messages, which is itself the property `OneMessage`.
  `dead` is the dead letter queue.
* The same actions stand for both stores. `Remote = TRUE` is Redis: several processes, no limit that
  is reached, answers that can be lost, processes that end while the queue lives on. `FALSE` is the
  memory queue: one process, one worker, a limit.
* `row[f]` is `processing_status` and `processing_attempt_id`. Attempt ids are fresh for each
  handling, so an attempt is named after the worker while it lasts and `"old"` once that worker has
  begun another one (`Begin`).
* `upload[f]` follows `InitializeUploadedFile` for files that need extraction; `accepted` means that
  it returned no error. `job[w]` is the worker: one action per call to the database or the queue,
  so that another worker, a crash or a lapse can fall between any two. `RenewLease` is the ticker
  goroutine that cancels the work when the lease is gone.
* The final update of a file that needs no embedding finds its claim gone, because the update before
  it was final already; the handler then settles through the lost-claim branch. The model does the same.
* `faults` bounds the failures of the environment: calls that fail, answers that get lost, processes
  that end, handlers that stall. `Stalls` says whether a live handler can fail to renew its lease for
  45 seconds although it tries every 15.
* Abstracted: extraction and embedding (they yield or fail), `rag_*` columns, previews, deletion of a
  file while it is processed, the limit of the dead letter queue, fallback mode without a cache.
  A failed read of an empty queue is the same step as its timeout.

### Runs

| Run | Bounds | What it shows |
|---|---|---|
| `files` | Redis, 2 files, 2 workers, 1 retry, 4 faults | one handler for a file, nothing accepted is abandoned, dead letters are finished, results are final, and the whole implements `FileWork` |
| `files_stalls` | the same with stalls, 3 faults | a file keeps one message, and none is left queued without one |
| `files_live` | fairness; Redis, 1 file, 2 workers, 4 faults, or a memory queue of length 1, 2 files, 1 worker, 3 faults | a full queue refuses; every accepted file becomes ready or failed |
| `files_stuck` | 2 stalls, 1 file | violated: `AcceptedInHand`, see findings |

Why the bounds suffice: takeover needs two workers, order two files; with one retry the last
attempt needs two failures, which leaves two faults for a crash and a lost answer or for a stall on
each side. The properties `OneHandler`, `AcceptedNotAbandoned`, `ResultsFinal` and `WorkedOff` are claimed
without stalls only: with stalls they do not hold. `ResultsFinal`, for one, then fails in 25 steps:
the answer to the last update of a file is lost, its lease lapses, a second worker makes the file
ready, and `forceFinalizeFailed`, which looked at the row before that, overwrites it with `failed`.
No comment or test of the repository says what should happen there, so it is recorded as a hazard
and not as a finding.

**Fairness** of `files_live`: workers run and their calls end (contexts have deadlines), the
renewal ticker fires, and a lease nobody renews grows old. Faults are finite in number, which means
that the property is about what happens once the environment behaves. Stalls and crashes are never
forced by the fairness.

Deadlock is not checked in these runs; the workers poll for ever.

### Proofs

Whatever fails, stalls or crashes (`FileProcessingProofs`):

* `FilesTypeCorrect` proves `Spec => []TypeOK`. The inductive `TypeInv` adds that a handler has a
  file and that a message about to be requeued is below the limit of retries. `StepMovesQueue`
  reduces every step to one operation of the queue, `CallMoves` every call of a handler to a move of
  its job and of one row.
* `MessagesUnique` proves `Spec => []OneMessage`. `MessageInv` adds that an upload which has not
  enqueued yet has no message; each operation of the queue then moves a message and never copies it.
  `AppendedMessage` and `TakenMessage` say what happens to the sequence.
* `QueuedFilesHaveMessages` proves `Spec => []QueuedHasMessage`, also when handlers stall and come back.
  Two things could go wrong: the message is settled while the row is queued, or a handler puts the row
  back to queued after the message has gone. `RetryInv` excludes both: whoever will reset the row has the message
  in flight, not waiting; and a handler that has the lease and has resolved the claim (taken it, or seen that
  it is gone) knows that the row is not queued and that nobody else will reset it.

Without stalls (`FileProcessingSafety`, every theorem under `ASSUME Stalls = FALSE`, any number of
other faults):

* `HandlersDoNotMeet` proves `Spec => []OneHandler` from `LeaseInv`: a handler holds the lease of its
  message and it is fresh. A takeover needs a stale lease, and a message that is read was waiting,
  so neither meets another handler.
* `NothingAbandoned`, `DeadLettersAreFinished` and `ResultsStay` rest on `Inv`, which adds `WorkInv`:
  what the handler knows about the row at each step (`StepKnows`; for instance that it is finished
  when the message is about to be settled) and what the messages of a file say about its row
  (`FileKnows`). Since handlers do not meet, a call touches one file only (`CallTouches`), and it is
  enough to look at its own handler and file (`CallLocal`).
* `FilesAreWorkedOff` proves `Spec => WorkedOff` from the same `Inv`. A step changes what is seen of one file at
  most (`OneSeen`, `NoneSeen`): an upload accepts it (`UploadSeen`), a read or a takeover gives it to a worker
  (`PollSeen`), a call finishes it, hands it back or drops it (`CallSeen`), the end of a process leaves all that
  its worker held (`CrashSeen`). That a message is dropped only of a file with a result, and that the result is the
  holder's, is what `StepKnows` and `FileKnows` give. Two points of these two carry it: a handler about to requeue
  or to close an accepted file knows that the file is not finished, and never overwrites its row; and the row of
  an accepted file that is claimed is not finished. TLC checked them first, on the instance of `files`.

Assumptions: `QueueAssumption` and `ProcessingAssumption`. Only model-checked: the liveness property
`AcceptedFinishes`.

## 5. Circuit breaker

### State and actions against the code

`CircuitBreaker` is the routing to one upstream with its models (routes), each with a circuit.

* `circuit[c]` is what the cache keeps of a circuit. The code compares its clock with `openUntil` and
  `probeUntil`; the model has the phase that comparison gives, and the passing of time is an action
  (`OpeningEnds`, `WindowEnds`, `TokenLapses`, `FailureAges`). The comparison is the same in the memory
  cache and in the scripts run by Redis; where they differ (`over`, and what can fail) the model has
  both, and the initial state chooses one.
* `request[r]` is a request: `ResolveRoute` checks the upstream and then the model, in two calls;
  the answer is recorded by `MarkRouteSuccess`, `MarkRouteFailure` or a release, again one call per
  circuit. `Abandon` is a request that is cancelled or whose server ends, so that nobody reports.
* `RecordCircuitFailure` is one critical section (a script in Redis) over both levels, with the
  thresholds and their AND/OR combination. The token of a circuit has no name in the cache; the
  model keeps the holder to state properties with. A failure of any request takes the token away.
* The administrator opens and resets circuits and switches the breaker on and off: resetting and
  storing the setting are two steps, in the order of `UpdateLLMSetting`, and other servers act on the
  setting they have cached (`stale`).
* Abstracted: priorities, weights and API keys of routes, rate-limit back-off, how long an opening
  lasts. `ResetAllCircuitStates` is one step although Redis scans and unlinks in batches.

### Run

`breaker`: one model, two requests, a model and an upstream that open at the second failure, the upstream only
if a model is open too, three failures or manual openings, both caches. One model suffices for two levels to
race, two requests for one to be denied or late; the three faults open, reopen and open by hand. Every
value of the thresholds gives the same paths but for when they trip.

`OneProbe` has an exception: a request that had passed the check before the circuit opened can fail
within the window and takes the probe's token with it, so that another probe is let in. So can a request
that was not checked because its server had the breaker off (`PassedBy`). The code
does this, and `late` marks it. A failure that was under way when an administrator opens a circuit
shortens the manual opening to an automatic one; and a failure recorded between the reset and
the storing of the setting opens a circuit the breaker then starts with. The model has both; the
source promises nothing there and no property is stated.

**Fairness**: clocks advance (`OpeningEnds`, `WindowEnds`). No request needs to report for `Recovers`.

### Proofs

`CircuitBreakerProofs`, for any number of models and requests and any thresholds. `Inv` has three parts:

* `TypeInv` is `TypeOK` with `Shape`, which says what tokens a request can know of at each of its steps.
  `BreakerTypeCorrect` proves `Spec => []TypeOK`.
* `TokensKnown` is `NoOrphanProbe` and that a request about to clear its model's circuit has no token of
  the upstream left. `NoTokenForgotten` proves `Spec => []NoOrphanProbe`.
* `WindowKnown`: in a window that nobody has entered unchecked, a request that is past the check of the circuit
  is the one that holds the token. `WindowProbedByOne` proves `Spec => []OneProbe`. `OneProbe` itself is
  not inductive, since it does not say that the request under way and the holder of the token are the same.

Assumption: `BreakerAssumption`. Only model-checked: `Recovers` (liveness).

## 6. Content moderation

### State and actions against the code

`ContentModeration` is one streamed run with its two checks, of the question and of the answer.

* `pc` is the goroutine of the run, from `BeginRun` to the handler's last event; `coord` the flags of
  its coordinator; `check[c]` the task of a check, from the queue through the worker to
  `onTaskResult`. Calls to the database are actions of their own, and each may fail.
* `by[a]` is a withdrawal under way: by the run at the barrier, by a worker whose hit is late, or by
  the recovery loop. The order is the code's: one transaction over messages and run (`Apply`),
  the pending withdrawal forgotten, retained events dropped (`Reset`), notice published (`Emit`).
* `hits`, `row` and `message` are the database; `pending` is the entry of the run in `pendingBlocks`,
  which only memory knows. `stream` is the set of events a resuming client would be sent.
* `Crash` ends the process; the recovery loop that goes on is the next process's. A run counts as stale when
  its coordinator is gone; the two minutes of age the code asks for may have passed at any time.
* Left out: temporary chats, which have no rows; a reused question of a branch; more than one run
  (a full queue is a refusal at any time); files of a blocked answer; failing calls to the
  stream cache; retention of records; several instances; policy, statistics and isolated images.

### Runs

| Run | Bounds | What it shows |
|---|---|---|
| `moderation` | 2 faults, fairness | all safety and liveness properties, 603 thousand states |
| `moderation_replay` | no faults | violated: `NothingReplayed`, see findings |

One run and its two checks are the whole of what a coordinator sees. Two faults are a failed withdrawal
followed by a failed retry, a failed retry and a crash, or a failed read of the hits after a crash. The proofs remove the
bound for the safety properties.

**Fairness**: the goroutine of the run goes on, a check is answered or given up (its request has a time limit),
a withdrawal under way takes its next step, the recovery loop runs. Faults are finite in number;
crashes and failures are never forced.

Deadlock is not checked: everything may have ended.

### Proofs

`ContentModerationProofs` proves `Spec => []TypeOK` (`ModerationTypeCorrect`). `TypeInv` adds
`VerdictKnown`: only a run that has settled has a verdict, and the run withdraws at the barrier only.

There are three more invariants, each inductive on the ones before:

* `CheckInv` says what is known of checks and hits at each point of the run: a check that failed or is
  awaited when the run settles is noted in `failedOpen`, a recorded hit belongs to a check that found it, and
  a run about to pass has none. It gives `NothingUncheckedPasses`.
* `WithdrawalKnown` says who is responsible for a withdrawal: the row is blocked only if the text is
  withdrawn or the withdrawal is pending, and an actor that forgets the pending withdrawal has applied one.
  It gives `NoWithdrawalLost` and `WithdrawnTextStays`.
* `StreamKnown` follows the retained events from `Reset` to the last event. It gives `WithdrawnIsNotRetained`.

Assumption: `FaultsAssumption` (a natural number of faults). Only model-checked: the three liveness
properties `HitWithdrawn`, `ModerationEnds` and `RecordedHitRecovered`.

## 7. Funding

### Modules

`SubscriptionTimeline` is the algorithm that fits a grant into the rows of a user, as operators;
`Funding` the transactions of orders, codes and subscriptions, and the properties; `MCFunding` the
symmetry for TLC. `SubscriptionTimelineProofs` and `FundingProofs` hold the proofs.

`Entitlements` is what orders and codes promise a user: an order takes effect once, in the step that makes it
paid, a redemption in the step that counts it. Either gives its credit to the balance or all of its time to
the user. Time then runs down unit by unit, without a gap before the last, and only a replacement of the
subscription sets it anew, to the term of the new one or to nothing. `Funding` implements it (`GrantsHonoured`): `Worth` is what a row of an order or a code
is good for, `Remaining` the time of the user under plans from now on, `Unsettled` the users whose
changes crossed, of whose time nothing is said. Calls, locks, what they have read and the layout of the
rows are not seen.

### State and actions against the code

* `sub[u]` holds the rows of `billing_subscriptions` that have an end, in the order of their ids; an expired
  row is `Gone`. A plan is its rank (`subscriptionPlanRank`), time goes in whole units. The free plan's row has
  no end, the timeline ignores it, and the model has none. `Granted` is `grantSubscriptionOnTimeline`:
  `Existing` clips the rows at the start of the grant, `Build` and `Place` put the grant into the first
  time that no plan of its rank or a higher one holds and grant again, behind, what it took from lower ones, and
  `Apply` writes the segments back into rows, keeping a row for one of its segments.
* The code's slices of segments are always sorted when they are read, so that a slice is the set of its segments
  and `InOrder` its order. Of two segments with the same plan and time, which only changes that crossed can leave,
  the code's sort keeps the one first that was read first, the model the row with the lower id; each plan holds at
  the same times either way.
  `normalizeSubscriptionTimeline` joins what `Run` collects: a segment and those that follow it in the order,
  of the same row and without a gap.
* `Build` is the loop over the queue of grants and, within, over the time still to place; `Place` is one round of
  either, a step of the recursive function.
* `order[o]` and `code[c]` are rows, `redeemed` counts the rows of `redemptions`. `late` is an order past
  `expired_at`; `closed` a code that is inactive or past its date.
* Log cleanup (`logcleanup/repository.go:36`) deletes orders by age, whatever their status. `nr` is the age of an
  order, `gone` says that its row was deleted; what became of it before stays in the model, for the properties to
  count. A webhook does not find an order that is gone, and one that had read it refuses under the lock. A customer
  who pays after the deletion gets nothing; no source text promises otherwise.
* `call[k]` is a webhook, a redemption or a change of the plan, from its first read to its commit. The row
  of the order or code is locked by the transaction (`Locked`). Of the subscriptions it locks the rows that
  were there when the statement began and reads them again when it gets the lock: `seen` are their ids, and
  rows committed since are not in it (read committed). A redemption reads once more before that, without
  a lock, to choose where the grant begins (`GrantStart`), and a change to the free plan reads the
  entitlements outside its transaction (`Subscribe`).
* An order that has expired is refused, and the transaction that marks it `expired` is rolled back with the
  refusal, so the row stays `pending`. The model does the same.
* `owed` and `crossed` are no state of the program. `owed` is the time a user should still have; `crossed`
  says that one change of the user's subscriptions committed while another one had read them.
* Left out: prices, currencies, providers and signatures; calendar months; renewal flags, which the
  timeline carries along; the billing mode, which refuses calls; orders without an end, whose webhook the repository
  refuses (`CurrentPeriodEndAt` is nil), and plans without a price.

### Run

`funding`: two users, one order, one code, two calls, two plans, two units of time, one change by an
administrator or to the free plan, the order deleted at any time, 1.7 million states. Three sources of a plan (administrator, order, code) give a user three grants, so
that a grant lands in front of, between and behind others and cuts a row that has begun. Two calls
cross in every order; two users exhaust a code whose limit is lowered meanwhile. An instance
with two orders of one user, where deleting one may or may not take the other with it (one unit of time, no other
change, 0.6 million states), was run apart and holds as well.

`NothingForNothing`, `BalanceIsCredited`, `LimitsKept` and `RedeemedInForce` hold for every interleaving, and so does
what `GrantsHonoured` says of orders, codes and balances.
`EntitlementsKept`, `HighestFirst` and what `GrantsHonoured` says of time except users whose changes crossed, and do not hold for
them: two first grants find no rows to lock, get the same time and one of them is lost; a grant
that commits between the check and the update of `Subscribe` for the free plan is expired by it. No comment or
test of the repository promises more, so this is recorded as a hazard and not as a finding.

Deadlock is not checked: orders, codes and time may be used up. There is no fairness, since the provider
need never call.

### Proofs

Everything is for any number of users, orders, codes, plans and calls.

*Orders and codes.* `LimitsAreKept` (`Spec => []LimitsKept`), `BalancesCredited` (`Spec => []BalanceIsCredited`)
and `RedemptionsInForce` (`Spec => RedeemedInForce`) do not depend on where a grant lands. None of the three is
inductive: a redemption checks the code before it reads the subscriptions and writes both afterwards. `LockInv`
bridges the gap. No two calls hold the same row, and a call that holds one knows it (`CallKnows`): the order is
still pending, or the code still in force for this user and within its limits. Its proof has one case for the
steps that leave the rows alone (`QuietStep`) and one for each that writes an order or a code (`OrdersKept`, `DeletionKept`,
`GrantPaymentKept`, `TopUpPaymentKept`, `CodesKept`, `BalanceRedemptionKept`, `SubscriptionRedemptionKept`). `Kept`
says what each of them keeps. That the count of a code is the sum of its redemptions uses `TotalsTheorems`.

*Time.* `FundingTyped` (`Spec => []TypeOK`) and `NothingIsForNothing` (`Spec => []NothingForNothing`) do depend on
it. `NothingForNothing` counts a moment once that two rows cover, and so does not say what a grant finds when it
has to part such rows. `RowsOwed` is stronger: the time of the rows, each for itself, is at most what is owed. It is
inductive with the types, with that a call never grants time in the past and with that a row to be inserted begins
now (`TimeInv`); `TimeOfRows` goes back from it to the moments. The steps that write subscriptions are
`GrantsTimed`, `ReplaceTimed` and `TickTimed`; the others leave the rows alone (`QuietTimed`, `MoneyTimed`).

`GrantsTimed` needs what the loops of the timeline compute (`SubscriptionTimelineProofs`):

* `NormalKeeps`, `InsertKeeps`: joining segments and putting one into the others make no time, and no more is
  displaced than was taken from lower plans. A joined segment is no longer than the run it replaces (`RunCovers`),
  and no segment is in two runs (`RunsApart`).
* `PlaceKeeps`: after a round, the segments and the grants that wait have no more time than before.
* `BuildKeeps`: the loop ends and its result has no more time than it was given. `BuildLoops` shows that there
  is such a function (`LoopExists`). The rest goes by the least counterexample: were there works for which it fails,
  it would fail for the next round of each, and one of them has the least measure. The measure is the waiting time
  of each plan, highest plan first (`LeastVector`), since displaced time goes to lower plans only; then the number of
  grants that wait (`SizeFalls`); then the number of segments the grant still has to wait for (`AheadFalls`).
* `ApplyKeeps`: writing the segments into rows keeps the time, since a row is kept for one segment only.
  `GrantedKeeps` puts the three together. `GrantStartIs`: the search for the start of a redemption ends.

*Nothing lost.* `EntitlementsAreKept` (`Spec => []EntitlementsKept`) and `HighestIsFirst` (`Spec => []HighestFirst`)
say the other half of the users whose changes did not cross. `RowsOwed` bounds their time from above, `WholeInv`
from below and says how it lies. For a user who is not `crossed`

* no two rows cover the same moment (`RowsApart`), a moment is covered by a plan only if all earlier ones from now on
  are covered by that plan or a higher one (`RowsStacked`), and at least what is owed is covered (`Whole`). These are
  what the next grant needs; `RowsInOrder` takes `HighestFirst` from them;
* what a call of that user has read is still so (`Informed`): the rows it has seen are all there are, and a redemption
  still begins where its plan or a higher one ends. An order grants from now on (`Punctual`). A commit of another call
  of the same user is what breaks `Informed`, and that sets `crossed`.

TLC checked `WholeInv` on the instance of `funding` before it was proved. Its steps are `GrantsWhole`, `ReplaceWhole`,
`TickWhole`; the others leave the rows alone (`QuietWhole`, `MoneyWhole`). `GrantsWhole` needs the exact result of the
timeline, in the second half of `SubscriptionTimelineProofs`:

* `NormalHolds`, `InsertHolds`: joining segments changes no plan at any time, and putting one in gives it its time and
  changes no other. `InsertCounts`: what is displaced is asked for again, to the last unit, which needs that segments
  do not overlap (`MomentsTotal`, `DisplacedDue`).
* `PlaceFits`: a round keeps the work `Fitted`: one plan at a time, the highest first, and up to the time at which a
  grant waits there is its plan or a higher one, so that it leaves no gap wherever it goes. And it loses no time.
* `BuildFits`: so does the loop. The argument is that of `BuildKeeps`, and shares its measure (`RoundsEnd`).
* `ExistingHolds`, `ApplyHolds`: reading rows into segments and writing them back changes no moment. `GrantedHolds`
  puts these together, `GrantStartIs` gives where a redemption begins.

*Promise.* `GrantsAreHonoured` (`Spec => GrantsHonoured`) joins the two halves: every step is one of `Entitlements` or
none. Its invariant `PromiseInv` is all of the above with `Addressed`: a call that completes an order works for the
user who placed it, which needs that an order and a code never change what they were sold for (`RowsStand`,
`StillAddressed`).

* The time a user has left, as `Remaining` counts it from the rows, is what `owed` says as long as nothing crossed
  (`KeptWhole`, which takes `RowsOwed` as the upper and `Whole` as the lower bound), so that each step need only be
  compared on `owed` (`RemainingIsDue`).
* A payment gives what the order is worth to its user (`PaymentSeen`, from `TopUpSeen` and `PaidSeen`), a redemption
  what the code is worth (`RedemptionSeen`), each together with its mark or count; a replacement sets the time of one
  user (`ReplaceSeen`), to what it gave: it has seen all rows of a user whose changes have not crossed and leaves none
  of them (`NothingLeft`, `ReplacedOwed`); placing an order and issuing a code are seen (`PlaceSeen`, `IssueSeen`); reading,
  locking, refusing, failing, deleting orders, and changing or deleting a code are not (`QuietUnseen`, `CodesUnseen`).
* Time takes one unit from every user who has any (`TickSeen`). That is where the layout of the rows matters: a user
  with time left has a plan now, since there is no gap before the last unit (`CoveredWhileLeft`).

Assumption: `FundingAssumption`. No property of this module is only model-checked.

## 8. Findings

* `billing_cut`: `SendMessage` settles and marks under the request's context. When the client has
  gone, usage that was paid for upstream is neither settled nor blocked.
* `billing_overage`: the credit reserved by other requests is subtracted when a settlement is split,
  so a request is charged an overage although the plan's credit was not used up.
* `files_stuck`: after two stalls, the holder of the message settles it because a stalled handler
  has stolen its claim, and the stalled handler gives up because it has lost the message. The file
  stays in `extracting` for ever.
* `moderation_replay`: a hit that is reported after the barrier gave up waiting withdraws the answer
  and drops the retained events, but the handler then publishes its last event with the whole answer,
  so that a client that resumes is sent it.

`PROJECT.json` quotes the comments they contradict.

## 9. Not modelled

* **Generation streams**, **weekly quota** and **embedding index** have a protocol of their own and are next in the plan. Of the streams only the set of
  retained events appears, in `ContentModeration`.
* **Fallback mode** of file processing, waiting readers, the dead letter limit; priorities and
  back-off of routing; several instances of moderation, temporary chats: see the sections above.
* **Log cleanup** of audit, sign-in, conversation and system events: the modelled components do not depend on them. Deleting
  ledger rows and orders is modelled, in usage and period mode; in weekly mode the quota does not depend on the
  ledger (the test "replay after usage log deletion", `repository_sqlite_test.go:1165`), and weekly mode is not modelled.
* **Deletion of users** (`user/repository.go:898`), which deletes the user's rows in all tables: a deleted user's requests
  and payments are not in the models.
* **Conversations**, **sharing**, **uploads**, **knowledge bases**, **users**, **settings**, MCP, memory, skills,
  presets, announcements, audit and admin are rows read, shaped and written in one transaction or
  none; a model would repeat the code. **Extraction**, **retrieval** and **model adapters** translate
  documents and wire formats; **docs** is generated. These make up most of the lines of the repository, which
  is why the modelled share is small although the concurrent core is mostly covered.

## 10. Running it

    tlc -workers 2 -config MCUsageBilling.cfg MCUsageBilling.tla
    tlc -workers 2 -config MCFileProcessing.cfg MCFileProcessing.tla
    tlc -workers 2 -config CircuitBreaker.cfg CircuitBreaker.tla
    tlc -workers 2 -config ContentModeration.cfg ContentModeration.tla
    tlc -workers 2 -config MCFunding.cfg MCFunding.tla
    for m in TotalsTheorems UsageBillingProofs FileProcessingProofs FileProcessingSafety ContentModerationProofs \
             CircuitBreakerProofs SubscriptionTimelineProofs FundingProofs; do tlapm $m.tla; done

Operators named `X_Something` beside an `X` and marked as mutants are plausible bugs in `X`. With
the mutant in the place of `X` the run listed under `mutants` finds its property violated.
