# A verification project for the Insider One notification service

The service (Go, PostgreSQL) accepts notifications over HTTP, keeps them in one
table that doubles as the queue, and delivers them with in-process workers that
poll the table, ask for rate limit slots and call a webhook provider. This
directory holds TLA+ models of that code, TLC configurations that check them on
small instances, and TLAPS proofs of what matters most for every size. Paths
are relative to the repository; `file:line` refers to the modelled commit.

Run `tlc -config X.cfg M` for the runs of `PROJECT.json` and `tlapm M.tla` for
the `*Proofs` modules. `PROJECT.json` maps every definition that models
code to the lines it models, and lists the hazards, findings, runs, mutants
and theorems.

## 1. Inventory

### Components, their state and their operations

| Component | State | Operations | Here |
|---|---|---|---|
| Create API: `service.CreateNotification`, `CreateBatch`, handlers in `app.go` | none of its own; locals between three statements (look up, insert, map) | single create, batch create | `Creation`, its promise in `Intake`, and the rows' later life in `Delivery` |
| Cancel API: `service.Cancel`, `repository.CancelPending` | none | cancel one, cancel many: one UPDATE | one step in `Delivery`, lock by lock in `ClaimQueue` |
| Claim query: `repository.ClaimDue` | none; a snapshot and row locks while it runs | one UPDATE over a locking subquery | one step in `Delivery`, lock by lock in `ClaimQueue` |
| Delivery worker: `worker.Manager.runChannel`, `service.ProcessChannel` | per goroutine: claimed rows, loop position, the job's context | tick, acquire slots, claim, send, write the outcome, record the event | `Delivery` |
| Retry policy: `shouldRetryDelivery`, `backoff`, `addJitter` | pure | retry or not, how long to wait | `RetryPolicy`, `RetrySchedule` |
| Rate limiter: `repository.AcquireRateLimitSlots` | table `rate_limit_windows` | one transaction of three statements | `RateLimiter`, `RateWindow` |
| Query API: `List`, `ListDeadLetters`, `ListEvents` and their handlers | none; the client keeps the offset | limit and offset paging | `Listing` |
| Notification store: `repository/postgres.go`, `migrations/` | `notifications`, `notification_requests`, `notification_events` | inserts, claims, four Mark updates, CancelPending, mapping, events; list queries; schema statements | in the modules of its callers; not the schema statements |
| Provider client: `provider/webhook.go` | none | `Send` | the pairs (status code, error) it returns, in `RetryPolicy` |
| Process life cycle: `main.go`, `App.Close` | the app's context | start, signal, shutdown, close | a kill is `Crash`; what an orderly shutdown does to statements under way is the expired context, the lost write and the crash of `Delivery`; the order of its steps is not modelled |
| Metrics: `observability/metrics.go` | counters, queue depth gauge | increment, set, snapshot | not modelled |
| HTTP middleware, configuration, telemetry, logging, docs, test database | none that others depend on | | not modelled |

### How they interact

Everything meets in the database. Create handlers, cancel handlers and the
workers of all channels (and of all processes) run concurrently and never call
each other; each executes single autocommitted statements, except for two
transactions: `InsertNotifications` and `AcquireRateLimitSlots`. Row locks order
them: claims skip what is locked, cancels, writes and the rate limiter wait for it, the
insert of an event holds a shared lock on the row its foreign key names. A worker's
whole cycle runs under one context of five seconds (`manager.go:69`), a
handler's statements under the request's context. `ProcessChannel` drops the
error of each write that follows a provider call.

### What is hard, and what makes the components correct

* **Delivery.** Two workers and a cancel handler work on one row. The claim is
  an atomic UPDATE, but what follows is a sequence of independent statements
  keyed by id only. Correct means: a row is in one worker's hands at a time,
  the provider is called no more often than `max_attempts`, the attempts
  column and the event history tell the truth, an end is an end, nothing is
  sent early, a message the provider acknowledged is not sent again, and where
  nothing fails every notification ends.
* **Claiming.** A claim sees the table as of its start, locks its candidates in
  their order, skips locked ones and looks again at those that have changed.
  Correct means: no row is given out twice, the condition holds until the commit, a
  row is passed over only because it is locked or better ones took the slots, and
  cancels that lock the same rows in different orders are not stuck.
* **Listing.** Pages are fetched by offset from a table that changes between them,
  and the order of commits is not that of `created_at` or of event ids. Correct
  means that a row is missed or shown twice only when rows have entered or left
  ahead of it or the order leaves its place open, and that walks end.
* **Failure.** The process dies, a job's context expires, a statement fails or
  commits without its answer arriving, each between any two statements.
* **Rate limiting.** Check and increment are two statements of concurrent
  transactions on one row; the window is chosen before the wait for its lock.
  Correct means that no window is overdrawn and no lock is left behind.
* **Creation.** Look up, insert and map are separate; batches insert many keys
  in one transaction and can deadlock. Correct means that keyed single
  creates are idempotent, creation is all or nothing, a batch asked for again after a
  success is not created again, and requests end.
* **Retry policy.** Off-by-ones in the number of tries, growth of the waits
  under the jitter, and which answers are worth another try.

## 2. Modules

| Module | Role |
|---|---|
| `RetryPolicy` | the pure decisions: `ShouldRetryDelivery`, `Outcome`, `Backoff`. No state. |
| `RetrySchedule` | the tries of a single row when no write is lost; extends `RetryPolicy` |
| `Lifecycle` | abstract: statuses, attempts and the rows in hand; what a client may observe |
| `Delivery` | detailed: create, cancel, claim, send, mark, record, with faults; extends `RetryPolicy`, implements `Lifecycle` |
| `RateWindow` | abstract: a budget per second handed out in atomic grants |
| `RateLimiter` | detailed: the transaction statement by statement, the sends; implements `RateWindow` |
| `Intake` | abstract: what the create operations promise, a request at a time |
| `Creation` | detailed: the two create operations with lookups, unique index, transaction, deadlocks, mapping; implements `Intake` |
| `ClaimQueue` | detailed: the claim and cancel statements with snapshot, row locks, order and commit; implements `Lifecycle` too |
| `Listing` | clients that page through a list while rows enter and leave it |
| `MC*` | values of the constants for TLC |
| `Sums` | no model: facts about sums over finite sets that `RateLimiterProofs` needs |
| `DeliveryProofs`, `DeliveryHistoryProofs`, `ClaimQueueProofs`, `CreationProofs`, `ListingProofs`, `RateLimiterProofs`, `RetryScheduleProofs` | theorems and proofs |

`Delivery` and `ClaimQueue` look at one table in two grains. `Delivery` has claims and cancels
as atomic steps and everything around them in detail; `ClaimQueue` takes the two
statements apart and has the rest of a worker's cycle as one step per row. Both
implement `Lifecycle`, with the rows in workers' hands as its hidden variable. That is evidence for
the atomic steps of `Delivery`, not a proof of them: the grain of the one is not shown to
refine that of the other, and what `Lifecycle` leaves out (events, deadlines, the
acknowledgements) has been checked with atomic claims and cancels only.

### Delivery

| Variable | In the code |
|---|---|
| `status`, `attempts` | columns of `notifications`; "absent" before the insert |
| `future` | the rows whose `scheduled_at` is later than now; `BecomeDue` is the passing of time |
| `events` | rows of `notification_events` in the order of their ids (status and attempt) |
| `accepting` | a create handler between its commit and its `recordEvent` |
| `pc`, `claimed`, `seen`, `current`, `outcome` | locals of `ProcessChannel`: the loop position, the rest of `claimed`, the `attempts` RETURNING gave, the loop variable, the status about to be written |
| `ctxDone` | workers whose `jobCtx` has expired |
| `calls`, `acked`, `faults` | history: calls made, readable 2xx received, faults so far |

Actions: `Create` (the commit of either create operation), `RecordAccepted` /
`LoseAccepted`, `Cancel`, `EmptyCycle` / `Claim` / `LoseClaim` (ProcessChannel
up to the loop; slots are any number the rate limiter may give), `Send` (one
turn up to the provider's answer), `Abort` (the `ctx.Err()` return), `Mark` /
`LoseMark` (the four updates), `RecordEvent` / `LoseEvent`, `DeadlineExpires`,
`Crash`. In a turn whose context has expired `Mark` and `RecordEvent` change
nothing in the database, as their statements fail and the errors are dropped.

Abstractions: `max_attempts` is one constant (the service writes 3 into every
row). Time is only the order of "scheduled" and "due": `BecomeDue` may happen at
any moment. Claims return any set of due rows of the channel up to the number
of slots: this covers the priority order and `SKIP LOCKED`. A delivery is a
provider call with any answer of `Response`. Content, recipients, correlation
ids and error texts are left out. `updated_at` and `provider_message_id` decide
nothing.

### RateLimiter

`used` is `used_count` of each second's row, `lock` its row lock, `pc`, `window`
and `acquired` the locals of a call. `Upsert` waits for the row lock and takes
it, `Read` computes the grant, `Update` writes it inside the transaction,
`Commit` makes it visible and releases the lock; `LoseCommit` commits without the
caller learning of it, `Rollback` covers a failed statement, an expired context
and the death of the process. `Send` and `Finish` are the loop of
`ProcessChannel` as far as slots go. `Tick` is the clock; `JobSeconds` is the job
timeout in seconds. Different callers may have different limits, as during a
rolling restart with a new `RATE_LIMIT_PER_SECOND`.

### Creation

`rows` are the committed rows, each with its batch, position and key; `mapping`
is `notification_requests`; `inserted` is what a handler's open transaction has put
into the unique index. `answers` and `repeats` are history: what clients were told, and the batch
requests made after a success with their key whose lookup did not fail. `LookUp`, `Insert` (one statement), `InsertRefused` (the
unique violation), `DeadlockVictim`, `Commit`, `Map` follow the code; each has a
failing variant. A single create validates before its lookup and a batch after
it, as the code does. A key stands for a (tenant, key) pair because both unique
indexes and all lookups name the tenant. Row locks and PostgreSQL's deadlock
detector are external: `WaitsFor` and `Deadlocked` state what they do.

`Intake` is what a client may rely on, with the requests that are neither answered nor dead as
`open`: rows appear all at once, under keys nobody has, while their request is open; a key is given
to one batch for good; an answer shows the request's own rows, the rows its key stands for, or
none. Under the mapping an insert, its refusal and a deadlock are stutters, the commit stores the
rows, and a crash abandons all requests.

`CanProceed(h)` is what ENABLED of a handler's step comes to, written out so that it can be proved
about: it is in a request and waits for nobody, or is in a circle PostgreSQL breaks.

### ClaimQueue

| Variable | In the code |
|---|---|
| `status`, `attempts`, `future` | as in `Delivery`; `future` keeps only waiting rows |
| `lock` | the row lock of FOR UPDATE or of an UPDATE, kept to the end of the statement |
| `noting` | rows share-locked by the foreign key check of an event's INSERT |
| `pc` | a worker between ticks, in its claim, at work on rows; a cancel before, in and after its statement |
| `todo`, `picked` | rows of the statement's snapshot still to come, and those of the rows it has locked that it will update |
| `notYet` | rows put back with a `scheduled_at` later than the `$4` of the claim under way |
| `claimed`, `seen` | as in `Delivery` |
| `free`, `troubles` | history: rows of a claim's snapshot nobody else has locked since; failures and events so far |

`Lock` is what claims and cancels have in common: PostgreSQL locks the newest version of a row that
has changed since the snapshot and only then applies the condition again, so a row
that no longer meets it is not picked and yet stays locked until the statement ends. Writes, cancels and
events wait for such a row, claims skip it, and two cancels can deadlock on rows that have ended.
`BeginClaim` takes `$4` and the snapshot, `Scan` visits the next candidate, `CommitClaim` is
the UPDATE with its commit, `LoseClaim` a commit nobody hears of, `FailClaim` a statement
that fails. `CanProceed` says when an actor's next step is open to it. `Settle` is a Mark update, which waits for the row's lock and names only
its id; `Drop` is a row let go without a write. `BeginCancel`, `LockForCancel`,
`CommitCancel`, `FailCancel` are `CancelPending`, whose UPDATE waits for locks and can
be the victim of a deadlock with another cancel. PostgreSQL's row locks under READ COMMITTED
are external; the module's head says what is assumed of them. A tick that finds nothing
due changes nothing and is left out.

### Listing

`list` is the list the clients look at: all notifications, those with a final status
(the dead letters), those with a passing status, or the events of one. `place` is each row's
place (inserted but not committed, in the list, out of it), `key` its `created_at` or event id,
`latest` the last key drawn. `pc`, `limit`, `offset` and `times` belong to a client. `steady`, `came`
and `left` are the history of its walk. `Draw` takes the time or the id, `Commit` makes the rows
visible later, so keys appear in any order; `Enter` and `Leave` are changes of status. `Page` is
one query with the pagination of its answer. The client adds what was returned to its offset and
goes on while `has_more` is true; its behaviour is an assumption, the code only answers single
requests. `Pages` allows any order among rows that tie. `Asked` has limits below, in and above the
range, where "none given" and "no number" are 0 (the default takes their place all the same), and
50 and 100 are the constants `DefaultLimit` and `MaxLimit`.

## 3. Runs

| Run | Instance | What it shows |
|---|---|---|
| `DeliverySafety` | 2 notifications, 2 workers, 1 channel, 2 tries, 2 faults of any kind; symmetric | type, claims, calls, attempts, history, ends, cancels, acknowledgements (1.0 M states) |
| `DeliveryLive` | 2 notifications on one of 2 channels with a worker each, 1 fault of any kind, fair | every notification ends or is stranded by a fault, workers come back, without help from the other channel; the refinement of `Lifecycle` (0.14 M states) |
| `RetrySchedule` | 8 tries, codes of each class, extreme jitters | verdicts are explained, waits grow up to and past the cap, the total wait is geometric |
| `RateLimiter` | 2 callers with limits 1 and 2, 3 seconds, fair | windows are never overdrawn, long-run rate, refinement of `RateWindow`, calls return |
| `ClaimQueue` | 2 rows, the second scheduled and of lower priority, 2 workers, 1 slot, 2 cancels of both rows, 2 tries, 1 failure or event, fair | exclusive claims, choices that stand, the order, nobody is stuck on locks, refinement of `Lifecycle`, the queue comes to rest (0.64 M states) |
| `Listing` | 3 rows, 1 client, each of the 4 kinds of list, limits 0 to 3 for a range of 1 to 2, fair | what a walk can miss or show twice, and that it ends (0.22 M states) |
| `Creation` | 3 handlers, 3 requests out of 5 kinds, 1 fault, fair | idempotent singles, all or nothing, batches asked for again are recognised, nobody is stuck, refinement of `Intake`, every request ends (0.18 M states) |
| `CancelOverridden`, `RetriesStuck`, `RefusalRetried`, `BatchTwice`, `RaceRefused` | the smallest that shows it | one finding each, see 6 |

**Bounds.** Rows interact only through the workers that hold them and through
requests that name several, so two rows and two workers give every pair of
steps that can conflict; the claims quantify over pairs. Two tries are the
smallest number with a retry and an exhausted retry. Two faults allow one to
meet the state another left behind (a crash after a lost mark, an expired job
after a lost claim). `MaxClock = 2` with `JobSeconds = 1` lets a window's slots be
used in the next second and leaves one second after that in which they must
not be. `DeliveryLive` leaves out the refusals, which end a row as dead letters
do. `ClaimQueue` has two rows so that cancels can lock them in opposite orders, a claim can
skip the first and take the second, and a retry can move one between a snapshot and its
lock. `Verdicts` is empty there because all ends are equal to the queue. More than
one slot would need a third row to leave one behind: the order for any number of slots and
rows is proved, not checked. `Listing` has limits on both sides of the range and walks of
up to four pages; three rows give a tie beside a row of its own. Three handlers give a circle of two and one that waits behind it. The
requests of `Creation` are chosen so that a single create and batches share a key (the
mapping race), two batches cross in their items' keys (the deadlock), one batch has
items without keys, so that nothing but its own key can keep it from being created again, one has
no key, and one is invalid. `RetrySchedule` has enough tries to pass the cap of the shift, although
the three tries the service writes into every row never get there.
`DeliverySafety` uses symmetry of notifications and of workers, which is sound
since it checks no liveness; the liveness runs use none. Safety beyond these
bounds rests on the proofs.

**Deadlock** is checked wherever the system cannot stop. It is switched off for
`RetrySchedule` and its violation run (the row has ended), the runs of
`Creation` (all requests were sent, a bound of the model), `ClaimQueue` (all rows have
ended and all cancels were sent) and `Listing` (all rows were inserted and all walks done).

**Mutants.** Every property of a passing run has a mutant, an operator next to the
definition it replaces, marked "Defect for the mutation runs"; TLC finds each.

### Fairness

* `Delivery`: weak fairness of a worker inside a cycle (goroutines are scheduled
  and a provider call ends within the client's timeout), of `RecordAccepted`, and of
  `BecomeDue` (time passes). Weak fairness of "some worker of the channel claims
  something": each worker ticks every 10 ms and each second opens a fresh window,
  so due rows and an idle worker meet. `Claim` picks any due rows; what keeps a row
  from being passed over for ever is that the rows are finitely many, each with
  finitely many tries. So the liveness results say nothing of an endless stream
  of higher-priority rows. Clients, cancels and faults have no fairness.
* `RateLimiter`: weak fairness of a caller inside its call, where an expired
  context counts as a way out, and strong fairness of `Upsert`, as PostgreSQL
  queues the waiters of a row lock.
* `Creation`: weak fairness of each handler's `Proceed`, which contains the victim of a
  deadlock: PostgreSQL looks for one after `deadlock_timeout`.
* `ClaimQueue`: weak fairness of the steps of each claim under way, which never wait, and of
  the beginning of a claim by some worker. A single worker is promised no claim: its ticks may be given no slots because
  others took them, for as long as it likes. But each second has slots for someone, so due rows and an
  idle worker meet. One strong fairness condition over all that must go on besides (writes, cancels with
  the victim of a deadlock, the end of an event's insert, time): it asks less than one
  for each, and PostgreSQL queues the waiters of a lock. Inserts, cancel requests, failures and
  the start of events have none. The rows are finitely many, so a stream of urgent rows
  that never ends is not covered.
* `Listing`: weak fairness of the next page of a client that walks. `WalksEnd` holds because the rows are
  finitely many: a client whose list grows faster than it pages is not covered.

## 4. Theorems

All for arbitrary sets of notifications, workers, channels, handlers, callers and
clients and any values of the limits; the assumptions are the named `ASSUME`s of the modules (the
constants have their types, limits and `MaxAttempts` are at least one, the rows of a list,
the handlers and the callers are finitely many and there is a caller), and the runs evaluate them.

**`DeliveryProofs`.** None of the properties is inductive. Their common
strengthening `IInv` says what a worker may rely on between two statements:

* `Disjoint` and `Owned`: claims do not overlap; a claimed row is in processing
  or cancelled, its attempts are those the worker remembers and below the
  maximum, it is due. Only then does the `attempt < MaxAttempts` test, made
  with the remembered number, bound the number in the table.
* `Counted`, `Turn`: the calls made agree with the attempts except for the row of the
  current turn, and the outcome about to be written fits the number of the try.
* `Rows`: for rows in nobody's hands, including those stuck in processing.
* `Acks`: a row whose provider answered 2xx is not waiting, and if it is still
  in hand then its worker is about to write "delivered".

`Invariance` proves `Spec => []IInv` with one lemma per action. From it follow
`TypeCorrect`, `ClaimsAreExclusive`, `CallsAreBounded`, `AttemptsAreTrue`, `NothingIsEarly`,
and with a case analysis of how a step may move a row (`StepMoves`) the action
properties `EndsAreFinal`, `CancelBinds`, `AcksAreHeeded`. `Refinement` proves that
Delivery implements `Lifecycle`, with the rows in some worker's hands as the
abstract hidden variable: a claim whose rows are lost is a claim nobody learns
of, a crash or an expired job abandons rows.

**`DeliveryHistoryProofs`.** `HistoryIsTrue` proves `HistoryAgrees` on top of `IInv`. Events alone are not
inductive: the strengthening also speaks of the try a worker has made and whose event it has yet
to write. `Numbered`: no two tries of a row, told or owed, have the same number, none is above the
calls made. `Accepted`: try 0 belongs to the event "accepted". `Ended`: an end is told or owed once, of
a row nobody will send again.

**`ClaimQueueProofs`.** `IInv` joins the three safety properties with `Phases` (statements keep locks only
while they run), `Rows`, `Fresh` (a row a claim has for itself is either still to come, free and due, or
picked) and `Ranked` (what is picked comes before what is still to come). From it `ClaimsAreExclusive`,
`ChoicesAreKept`, `ClaimsAreInOrder` for any number of slots, and `Refinement`: the commit of a claim is the
claim of `Lifecycle`, all other steps of its statement are stutters. `WaitingEnds` proves `NobodyStuck`:
whoever cannot go on waits, in the end, for one that can, or is in a circle of cancels. It rests on
`Locks`: a lock belongs to a statement under way that has come to its row, picked or not, and will
not come to it again. A claim skips locked rows and a write
names one row and keeps no lock, so neither is part of a circle.

**`CreationProofs`.** `IInv` treats the unique index as the code's only guard: `Unique` and `Apart` (no key is
committed or pending twice, in whatever mix of open transactions), `InSequence` and `Whole` (a committed
row has its whole batch beside it), `Mappable`, `Pointing` (a mapping names a committed batch) and `Shown` (answers
show committed rows of their key). `SinglesAreIdempotent` and `AllOrNothing` follow.
`RepeatsCreateNothing` proves `RepeatsAreRecognised` from two more parts: `Answered` (what was shown under a
key is preceded by the key's mapping) and `Repeated` (a repeated request never gets past
its lookup, since its key is mapped, by `Pointing` to rows that are there).
`WaitingEnds` proves `NobodyStuck`: were there handlers that cannot go on and wait only for each other, a
smallest such group would be a circle (`CircleOfWaiters`), and a circle is what PostgreSQL breaks. There is
a smallest one because the handlers are finitely many. `Refinement` proves that Creation
implements `Intake`. Its strengthening `Serving` says of a request under way that it is one handler's, that none
of its rows is there before its commit, and that what is inserted has been validated; hence nothing is
stored twice, after its end, or against a key.

**`ListingProofs`.** The argument compares a client's offset with the number of rows ahead of the row in
question. `Missed`: while nothing at or before its place has left, a steady row not yet shown has at
least `offset` rows ahead of it. `Passed`: while nothing at or before its place has come, a row shown has
fewer. Lemmas on `Fronts` say where a row without ties stands in a page. `NothingMissed` and
`NothingTwice` are the two properties.

**`RateLimiterProofs`.** `IInv` is the type invariant with `LockHeld` (between upsert and
the end of its transaction a caller owns its window's row), `StillTrue` (what it
read is still so) and `Opened`. `GrantsAreAtomic` proves the refinement: the commit is
the atomic grant. `BudgetsAreKept`: no window is charged more than the largest
limit, also when limits differ. `TypeCorrect` includes that a grant is never negative.

The two properties with sums need the books (`Accounts`). `Paid`: what was sent on slots of a window and what
callers still hold of it is at most what the window was charged, so a lost commit or a dead caller loses
slots and never gains any (`SlotsArePaidFor`). `SentInTime` and `FromOpened`: a send is made within
`JobSeconds` of its window and out of one opened by then. With the bound on the windows, the sends up to any second, and those
of any one second, are at most the limit times the windows they can come from (`RatesAreBounded`).

**`Sums`.** `SumFunctionOnSet` of the community modules, a fold, unfolded: one term at a time, in any order
(`SumStep`), after a change of one term (`SumChange`), against a bound (`SumBound`) and term by term.

**`RetryScheduleProofs`.** `TypeCorrect`, `VerdictsAreExplained` and `WaitsGrow`, with lemmas on the
jitter (at most a quarter) and on the doubling base: for every base delay,
jitter byte and number of tries each wait is longer than the last one up to
the cap. The strengthening remembers that a delay is within a quarter of its base. `RetriesTakeKnownTime`
adds them up: before the cap the base of each wait is a power of two (`BaseIsPower`), so
after each wait the sum of all of them is one base delay short of the next base, give or take the jitter.

**Inductions.** The library's induction theorems take a predicate as a parameter, which the provers
cannot instantiate. Where an argument over finite sets is needed (a sum, a largest limit, a smallest group of
waiters), the predicate is replaced by the set of subsets it holds of, and `WFMin` gives a minimal one
outside (`SubsetInduction`).

**Only model-checked.** Every invariant, action property and refinement that a passing run checks is
proved. Liveness under fairness is beyond the prover and stays with TLC: `EveryNotificationSettles`,
`WorkersReturn`, `CallsReturn`, `RequestsEnd`, `ComesToRest`, `WalksEnd`. The two `NobodyStuck` are the part
of `RequestsEnd` and `ComesToRest` that is safety. That who satisfies `CanProceed` has a step enabled is
not proved either, as ENABLED is out of reach too: it was read off the guards, and compared with ENABLED by TLC
on the runs' instances.

## 5. Not modelled, and why

* Metrics: each counter and the gauge change under one mutex and no decision reads them. The
  gauge is set from a count that may be older than the value it replaces; nothing true can
  be said of it but that the next tick sets it again.
* The order of `Shutdown`, `ListenAndServe` returning and `Close`: its effects on rows and events are
  those of an expired context, a lost write or a crash at any point, all in `Delivery`. What is
  particular to it is only which of them happen, and when.
* The schema statements of `New`, run with `IF NOT EXISTS` at each start; the models begin with the
  finished schema. During a rolling restart their table locks can meet the inserts of events of
  a running process in the opposite order, and one of the two fails: a lost event of `Delivery` or
  a start that ends without a trace.
* `GetNotification` and `GetByBatch`: single reads. The choice of the provider's endpoint and the noop
  sender: they only narrow the pairs `Send` returns. Middleware and configuration: sequential, without
  state between requests.
* Ids drawn from the clock: every request of `Creation` has a batch id of its own, which holds as
  long as no two are drawn in the same nanosecond.
* Telemetry, logging, the docs server, response envelopes, test database: output or
  support code no decision depends on.
* A Mark update that is still running on the server when its worker's context expires or its process
  dies: it counts as never applied. Were it applied later, it could overwrite a
  cancel that came after the worker had let the row go, as in finding 1. So `CancelBindsUnclaimed` and the
  refinement of `Lifecycle` speak of statements that end when their caller gives up.
* Real durations: five seconds, 10 ms and the backoff's values appear only as an
  order, except in `RetrySchedule`, which computes the waits. How long a row waits because idle
  workers have used up the slots of its second is therefore not measured.

## 6. Findings

Each is the counterexample of a violation run; details are in `PROJECT.json`.

1. `CancelOverridden`: the Mark updates have no condition on the status, so a row
   cancelled while a worker has it in hand is delivered or even put back into
   the queue, after the client was told it was cancelled.
2. `RetriesStuck`: when the job's context expires between claim and write, or the
   process dies, the row stays in processing; nothing ever looks for it.
3. `RefusalRetried`: a refusal (a 400, say) whose body is not JSON is retried to
   `dead_letter`; README.md:182 says such responses fail immediately.
4. `BatchTwice`: two concurrent batch requests with one key are both inserted.
5. `RaceRefused`: the loser of two racing single creates is refused with a 400,
   because the code looks for SQLite's wording of the error. `SameNotification` shows
   that there is still only one row.

Also met, without a run of their own:

* Events are written after the statement they tell of and their errors are dropped, so the
  first event of a row need not be the accepted one and an end may have no event. `HistoryAgrees`
  therefore says what the events that exist have to agree on, not that they exist or come in order.
* Slots count for the second they were asked in and may be used later, so a second can
  see more sends than its limit. `LongRunRate` states what does hold.
* The rows of a batch share one `created_at` and the queries order by nothing else, so pages that cut
  a batch are not deterministic, as README.md:133 hopes; `Tied` is that exception in `Listing`.
* A `from` or `to` that does not parse is ignored without a word (`app.go:239`), and the list is longer
  than the client asked for.

## 7. What is left

Every component with decisions about rows, slots or requests has its module and its proofs. What
could still be added, in this order:

1. The composition of `Creation`'s transaction with `Delivery`'s workers, for the rows of a batch whose mapping
   failed and which the client sends again.
2. The orderly shutdown: signal, `Shutdown`, `ListenAndServe` returning, `Close`, running workers and handlers.
3. Table locks of the schema statements at a rolling restart.
4. `ClaimQueue` with three rows and two slots in TLC: its state space is too large for a quick run; the
   safety of that size is covered by the proofs, its liveness is not.
5. The queue depth gauge and the counters under concurrent workers.
