# Verification of myshoes

TLA+ models of myshoes (auto-scaling self-hosted runners for GitHub Actions),
TLC configurations that check them on small instances, and TLAPS proofs, for
instances of any size, of every safety property that the passing runs check.
Paths are relative to the repository (`src/`).

## 1. The system

One process (`cmd/server`) takes a lock in MySQL and runs three services under
one errgroup: the web server, the starter and the runner manager. A webhook
becomes a row of `jobs`; the starter turns it into an instance at the cloud
provider (through a plugin, "shoes") and a row of `runners`; the instance
registers itself in GitHub; the runner manager removes instances and rows.

| component | state | operations | hard behaviour | what makes it correct |
|---|---|---|---|---|
| starter `pkg/starter` | `inProgress`, `AddInstanceRetryCount`, semaphore, channels; rows of jobs and runners | list, hand over, acquire, ProcessJob, release | concurrent goroutines, stale lists, failed and lost calls, crashes, cancellation | one goroutine per job, bounded use of the provider, no job lost, every job served |
| runner manager `pkg/runner` | `DeleteRetryCount`, rows of runners | round over targets, removeRunner, token refresh | deadlines shorter than backoffs, stale lists of GitHub's runners | never removes a busy runner, removes every finished one |
| targets API `pkg/web` | rows of targets | create, update, delete | check-then-write against the status updates of the other services | a deleted target stays deleted, one target per scope |
| webhooks `pkg/web/webhook.go` | none | signature, event, EnqueueJob | concurrent with everything | a queued workflow job becomes one job |
| datastore `pkg/datastore` | MySQL tables, notification channel | queries, two of them transactions | dropped notifications, lost answers | atomicity of each call only |
| rescue `pkg/starter`, `pkg/datastore/github.go` | installation and repository caches | re-enqueue queued workflow jobs | races with webhooks and with ListJobs | no workflow job is forgotten |
| lock `cmd/server`, `mysql/lock.go` | MySQL named lock | IS_FREE_LOCK, GET_LOCK | two processes start; the lock's connection is lost | one active process |
| tokens and caches `pkg/gh` | token and registration caches | refresh, cache | expiry | no expired token in use |
| backoff `internal/util` | none | `CalcRetryTime` | longer than the deadline of its caller | the retries that matter come in time |

Section 6 lists what is not modelled.

Interaction: webhook handlers, the rescue loop, the starter's goroutines and
the runner manager share MySQL and nothing else, except the channel
`notifyEnqueueCh` (handlers to dispatcher) and the context of the errgroup.

## 2. Modules and plan

| order | module | question | state |
|---|---|---|---|
| 1 | `JobLifecycle` | what the starter promises about one job | done |
| 1 | `Starter`, `MCStarter` | the starter in detail | done |
| 1 | `StarterProofs` | its safety for all instances, and refinement | done |
| 2 | `RunnerManager` | removal of runners: pages, stale lists, retries, deadlines | done |
| 2 | `RunnerLifecycle` | what the manager promises about one runner | done |
| 2 | `RunnerManagerProofs` | its safety for all instances, and refinement | done |
| 3 | `ResourceTypes`, `Targets` | create, update and delete of targets against the status updates of starter and manager | done |
| 3 | `ServerLock` | two processes and GET_LOCK on a pooled connection | done |
| 3 | `TargetToken`, `RegistrationToken` | refresh, expiry and caching of tokens | done |
| 3 | `Installations` | the cache of installations and its purge | done |
| 3 | `Intake` | webhooks against the rescue loop: duplicates and forgotten jobs | done |
| 3 | `Services` | the six of them in one specification | done |
| 3 | `TargetsProofs` | the safety of `Targets` for all instances | done |
| 3 | `ServicesProofs` | that of the others and of the composition | done |

Left: a composition of starter, manager and targets over one set of rows (today
each sees the others as an environment that may do at any time what they do);
`POST /config/strict` as a change of `Strict` at run time. A module for
`CalcRetryTime` was planned and dropped: the shift overflows from count 34 on,
which the sleeps before it put centuries away, so that no model of a running
server reaches it.
Abstract specifications: `JobLifecycle` for the starter and `RunnerLifecycle`
for the runner manager. Each is checked as a property of a run
(`ImplementsLifecycle`) and proved for all instances.

## 3. Starter

### State and actions

`Starter.tla` has the three kinds of goroutine of `starter.go` as three state
machines over shared memory, the database and the cloud.

* **Database**: `jobs`, `runners` (the row of the job's UUID, which is never
  deleted from the table `runners`: `DeleteRunner` only moves it between
  `runners_running` and `runners_deleted`), `target` (the status).
* **Cloud**: `made`/`live` number the instances a job got; `registered` is the
  instance that holds the job's runner name in GitHub.
* **Memory**: `notify` and `notifying` (EnqueueJob between its INSERT and its
  non-blocking send), `inProgress`, `retry`, `held` (semaphore), `ctx`.
* **Dispatcher**: `Tick`, `TakeNotify`, `List`, `ListFails`, `DispatcherExit`.
  `pending` is the part of its list that it has not sent; a list is in no
  order (the query has none).
* **run**: `Skip` and `Receive` are the rendezvous on the unbuffered channel,
  `Spawn` is `sem.Acquire` and everything up to the `go` statement, which no
  other goroutine can tell apart, `RunExit` the two returns.
* **Workers**: one action per external call of `ProcessJob`, in its order:
  `ReadTarget`, `Mark` (the two halves of UpdateTargetStatus), `Add` (bung),
  `Check`, `Drop` (strict mode), `Save`, `Delete`, `Reject`, `Err`, `Mend`,
  then the settling of the retry count and the deferred function. Every call
  can fail, and calls that write can fail after their effect; `AddLost` is an
  instance whose answer came too late.
* **Environment**: instances register, other writers change the status, the
  context is cancelled (`Stop`), Loop returns and the process is restarted
  (`Restart`), the process dies (`Crash`).

Abstractions: a job is a name; a backoff is any delay (so nothing depends on
its length); `MustRunningTime` is a failure that may come at any time; GET of
the target after UpdateTargetStatus is part of `Mark`; Update errors are only
logged or returned, which comes to the same. `Register` exists in strict mode
only, because the starter looks at registrations there only. The gauges and
`DeletedJobMap` are left out. `safety.Check` always answers true.
`incrementDeleteJobMap` cannot fail after bung, which parses the same labels.

### What the runs check

`starter` (non-strict, 2 jobs, 2 goroutines, 1 slot, up to 2 troubles among
failed marks, failed or lost AddInstance calls, failed saves and deletes,
crashes and cancellations):

* `SlotsMatchWorkers`: the semaphore counts the goroutines that hold a slot.
* `InProgressExact`, `OneWorkerPerJob`: no mark outlives its goroutine and no
  two goroutines process a job, in spite of stale copies.
* `RetryCountFresh`: no failure is forgotten while run waits for a slot.
* `NoJobLost`, `ImplementsLifecycle`: a job is queued, served or rejected, and
  the last two are final and exclude each other.
* `NoLostWakeup`: dropping a notification on a full channel is harmless.

`starter_live` (strict, one job with labels the provider refuses, two troubles
among list, check, drop and reject): `EveryJobLeavesQueue`, `SlotsComeBack`,
and `StrictRow`.

Four runs show where the code does less than its text says:

* `starter_stale`: with no failure at all, a job that was served is processed
  again from a copy in an older list; its instance is leaked.
* `starter_ghost`: the strict check is by name and passes on the registration
  of an earlier instance.
* `starter_poison`: a crash between CreateRunner and DeleteJob leaves a job
  that fails on its duplicate runner forever and leaks an instance each time.
* `starter_stuck`: a cancellation while the dispatcher sends blocks Loop, so
  the process never ends and systemd never restarts it.

### Bounds

Two jobs and two goroutines are enough for every pairwise race (same job twice,
two jobs and one slot, release before unmark); one slot makes the semaphore
bind. Two troubles reach a failure after a crash and a lost answer followed by
a failed save. `MaxRetry` and `MaxInst` saturate counters that the code does
not bound: 2 retries tell "forgotten", "kept" and "grown" apart; the runs about
second instances (`starter_stale`, `starter_ghost`, `starter_poison`) have
`MaxInst` 2. A goroutine exists only while it has a job, so `Worker` limits how
many have released their slot and not yet ended. `starter` and `starter_stuck`
do not check deadlock: a process that was cancelled at the wrong moment does
stop (that is the finding), and with all jobs gone the ticker is all that moves.

### Fairness

`FairSpec` has weak fairness for each goroutine that can run (Go's scheduler),
for handlers that have inserted a row, for instances that boot, and for the
restart. The one strong fairness is on the dispatcher's `ctx.Done` case: a
`select` with several ready cases chooses at random. Failures are fair only
once the context is done, where every call does fail. Nothing is assumed about
webhooks, crashes or other writers.

### Proofs

`StarterProofs.tla` proves for every number of jobs, goroutines, slots and
troubles, from `ConstantsAssumption` alone, every safety property that the two
passing runs check, `StrictRow` and the refinement of `JobLifecycle`
included. The argument:

1. *Frames.* `OutsideFrame`, `RunFrame`, `ProcessJobFrame`, `FinishFrame` and
   `RestartFrame` say once what each group of actions leaves alone.
2. *Types.* One lemma per conjunct of `TypeOK`, then `TypeCorrect`.
3. *Slots.* `SlotsMatchWorkers` is inductive with the types; each action adds
   one worker to `Holders` and one to `held`, removes one of each, or neither.
4. *Exclusion.* `InProgressExact`, `OneWorkerPerJob` and `RetryCountFresh` are
   inductive only together: a mark may be removed because no other goroutine
   has the job, a job may be received because marks are exact, and a count may
   be stored because nobody else has read the count of that job.
5. *Safekeeping.* `NoJobLost` needs what ProcessJob knows at each point (an
   instance in hand before CreateRunner, a recorded runner before DeleteJob)
   and that a job is never both served and rejected. From it `VerdictSteps`
   says what any step does to served and rejected jobs, and the refinement is
   a case split over that.
6. *Strictness* and *NoLostWakeup* are small inductions of their own.

Only model-checked: the two liveness properties (TLAPS has no ENABLED here),
and the four violations.

## 4. Runner manager

### State and actions

`RunnerManager.tla` follows one target through the rounds of `pkg/runner`.

* **Database**: `row` (none, `running`, or the reason in `runners_deleted`),
  `age` (how the row's age compares with `MustRunningTime` and `MustGoalTime`),
  `target` (the status).
* **World**: `inst`, the instances that exist, and `gh`, what GitHub knows of
  each runner. A runner that ended in order has left GitHub (`gone`); one that
  ended otherwise, or was started with `--once`, stays listed as offline
  (`ended`); one that lost its connection is offline and may come back.
* **Memory**: `retry` (DeleteRetryCount), `ctx`, `once` (the mode that the
  configured version stands for; a restart may change it).
* **Round** (`mpc`): `ListTargets`, `ListRows`, one `ListPage` or
  `ListLastPage` per request to GitHub, then `Spawn` or `Ignore` per row,
  `Wait`, and the two halves of UpdateTargetStatus (`ReadTarget`,
  `WriteTarget`); `ListNobody` is the case of no runner at all. `Return` ends
  the life of the round's variables. `AcquireFails` returns without waiting.
* **Goroutine of a runner** (`pc`): `Keep` or `Decide` after the backoff sleep,
  then `Unregister`, `Destroy`, `Erase`, and `ReadErr`, `WriteErr` or `NoErr`
  when one of them failed. The end of a goroutine (`Settle`) is part of its
  last action: until the next round nobody reads what it writes.
* **Environment**: `Register`, `Record` (the starter's CreateRunner, after the
  registration in strict mode), `Live`, `Grow` (time), `OtherWriter`, `Stop`,
  `Reboot`, `Crash`.

The deadline of a removal is computed from the code's formula: `Late` says that
the backoff sleep alone uses it up (`Backoff`, in seconds, without the jitter
of less than one second). In a late goroutine every call fails; otherwise a
call fails because the context is done or as one of the bounded troubles, which
include the deadline passing in the middle.

External, from what the code relies on: GitHub lists runners in a fixed order
(`Runner` is numbered in it), refuses to remove a runner that runs a job and
answers an error for one that it does not know; an instance that the provider
does not find counts as deleted. The two removal modes have the same text and
differ only in `ListNobody`. Every call that changes something (`Unregister`,
`Destroy`, `Erase`) may be done although its answer is lost; the goroutine then
goes on as after a failure.

Abstractions: the one-second cache of ListRunners, other targets (their rounds
run before and after), a failing ListTargets (it changes nothing), the gauge
ConcurrencyDeleting, labels that cannot be parsed (the starter parsed the same
ones) and `teardown` of the plugin client.

### What the runs check

`runner_manager` (strict, two runners, one page, one slot, one trouble among a
lost answer, a failed DeleteInstance, a crash and a cancellation):

* `RemovalsBounded`: the limit holds although each round has its own semaphore.
* `NoJobKilled`: no removal deletes the instance of a runner at work, however
  old the list is that it decides on.
* `NothingLeft`: an erased row leaves neither an instance nor a registration,
  through every failure and restart.
* `ReasonHolds`: nothing is removed before `MustRunningTime`, and the recorded
  reason is true.

`runner_live` (two pages, so that runners can be skipped; one failed call; the
first retry is already late): `EndedIsRemoved` under fairness;
`UnregisteredFirst`, which shows that skipping is the only way to lose a job;
and `ImplementsLifecycle`, the refinement of `RunnerLifecycle`: its `record`
is the row with its reason forgotten, its `instances` is `inst`. An instance
is deleted only while its row is there to be retried, and a row goes only
after the instance, through every retry, restart and crash.

Two runs show where the code does less than its text says:

* `runner_pages`: with no failure, a runner leaves GitHub between two pages, the
  next one is skipped, and its instance is deleted while it runs a job.
* `runner_late`: with the constants of the code, eight failed calls use up the
  useful retries; the last three start after their deadline.

### Bounds

Two runners and one slot are enough for one removal to wait behind another with
an ageing list, and for one runner to shift another across a page border. The
passing runs take `MaxDeleteRetry` 1 and a deadline that the first retry
misses, so that every branch (on time, late, ignored) occurs; `runner_late` has
the real numbers. One trouble leads through every failure path, because a late
retry fails in all its calls. `runner_late` has one runner and eight troubles.

### Fairness

`FairSpec` has weak fairness for the round, for each goroutine (Go's scheduler,
and external calls that end, at the latest with their context) and for the
clock. Runners need never take or end a job; nothing is assumed of the other
writers, of crashes or of cancellations.

### Proofs

`RunnerManagerProofs.tla` proves every safety property of the two passing runs
for any number of runners, slots, retries and troubles, from
`ConstantsAssumption`; `NoJobKilled` and `NothingLeft` under `OnePage` (strict
mode, no more runners than a page holds), without which `runner_pages` refutes
the first.

The steps of the argument:

1. *Slots.* The semaphore counts the goroutines and, between the rounds of a
   live process, there are none (`Quiet`): eg.Wait is what makes a semaphore
   per round sound, and the only return without it happens in a done context,
   after which no list succeeds. Types are proved in the same induction.
2. *Removal.* What a goroutine has achieved at each point. It needs `Slots`:
   the list may change only while nobody decides on it.
3. *Strictly.* A runner that is recorded has registered, so one that a complete
   list lacks is gone for good, and so is one that was unregistered; what is
   gone cannot be running a job when its instance is deleted. `OnePageHasAll`
   is the counting argument that one page is complete.

`LifecycleImplemented` is the refinement, from the types, from *Removal* and
from `Recorded` (what is being removed still has its row; not so a removal that
has failed, since its last call may have been done): every action is a step of
`RunnerLifecycle` or leaves its variables alone.

Only model-checked: `EndedIsRemoved` and the two violations.

## 5. The services around them

### Targets

`Targets.tla` is the API for one scope. `row` is the table `targets`; `req` has
one goroutine per request in flight; `svc` the two services that write a status.
Every action is one database call of `target.go` or `target_create.go` with
the code up to the next one: POST /target is `Lookup`, then `Insert`, or
`Revive` and `Param`, then `AnswerWithRow`; POST /target/:id is `UpdateBegins`,
`Param`, `AnswerWithRow`; DELETE is `DeleteBegins`, `Erase`; a GET is one step.
The refusals and failed calls are actions too, and a write may be done although
its answer is lost (`Writes`; the request's context has ended): the row has
changed, and the handler answers 500. `ghes` decides whether the unique key
(ghe_domain, scope) binds: in MySQL two NULLs are different. `ResourceTypes`
holds the conversions of a resource type that the handlers use.

`JobStarts` to `StatusFails` are ProcessJob and the manager's round as far as
they touch a target, with the two halves of UpdateTargetStatus. A round lists
rows and GitHub's runners (`RoundBegins`). Then it works on what it found
(`RoundFindsSome`, to `RoundEnds`), finds nothing at all and returns early
(`RoundFindsNone`), or one of the lists fails (`RoundFails`); in both of the
latter a running target is not made active. `zero` says what is special with a
target without runners: the mode `once` makes it an error, and GitHub may list
`others` in its scope.

### One specification of six

`Services.tla` puts `Targets` and five small modules together. As they are
modelled they share no variable, so that all their steps commute. `active`,
chosen at the beginning, says which of them a behaviour follows; the others
rest. A property that speaks of one module holds of every interleaving of all
six if it holds of the behaviours that follow that module: what rests only
stutters.

**`ServerLock`** follows `Run` in `cmd/server/cmd.go` (`at`), the lock
(`holder`) and the pool of `database/sql` (`lock`, `idle`, `used`). GET_LOCK
belongs to a connection, and the server gives that one back to the pool like
any other; a burst of queries that come back at once lets the pool close it
(`GiveLockBack`). A connection also goes, of a server that lives on
(`LoseConnection`), when the driver closes it because the context of its query
has ended (handlers query with `r.Context()`, removals under a deadline), and
when MySQL restarts, fails over or drops it as idle. The lock is then free, at
once or when MySQL notices; the server never asks again (`broken`).

**`TargetToken`** counts time in rounds of the refresh. `ListDue` or
`ListFails` begins a round, then `KeepToken`, `RenewToken` or `RenewFails` per
target. A creation that revives a deleted row leaves the old token in it;
`Restart` is a server that was down for any time.

**`RegistrationToken`** is the cache of `token_registration.go`. The duration
is what go-cache makes of it: 0 is the default, and less than 0 is for ever.

**`Installations`** is the cache of `installation.go`: `Hit`, `Fetch` and `Set`
by any goroutine without a lock, `PurgeRepos` and `PurgeList` by a creation.
GitHub's answer is a number that grows, so that an answer has an age.

**`Intake`** has one repository with one workflow run. `hook` is the webhook of
each job and its handler, up to the INSERT; `rescue` is the rescue loop from
getRecentRepositories to the rows it inserts, with its caches `runs` and
`jobsOf`. Both search a target in two queries (`SearchRepo`). GitHub shows the
loop the newest hundred runs (`newest`, until `Bury`) and one page of a run's
jobs (`firstPage`).

External, modelled from how the code uses them: the pool of database/sql, the
driver of MySQL, go-cache, GET_LOCK and IS_FREE_LOCK, GitHub's lists and the
hand-over of a queued job to a runner.

### What the runs check

The run `services`, per module:

* `Targets`. `OneTargetPerScope`: a second row of a scope can only come from a
  creation that looked before the first was inserted, and never with a GitHub
  Enterprise domain. `DeletedStaysDeleted`: only a revival, or a status write
  that read the target before its deletion, brings a target back.
  `AnsweredAsAsked`: an answer of 200 or 201 shows what was asked for; a failed
  call is never passed over, and a concurrent update is the only excuse. Of an
  answer of 500 nothing is said: what was done before it stays.
  `RunningSettles`: a target that has runners, or for which GitHub lists some,
  or whose runners are not ephemeral, is not out of reach of DELETE for ever,
  whatever the starter writes meanwhile. It assumes that calls do not fail for
  ever (`MaxFaults`): while GitHub's list fails in every round, a running
  target stays running. The targets it leaves out are really stuck: one that
  was marked running and has no runner, for example by a job whose label turns
  out to be invalid, finds every round return before the place that makes a
  running target active (`runner_delete.go:77-93`), and cannot be deleted until
  another job comes for it.
* `ServerLock`. `OneServer`: two servers work at once only after a race between
  IS_FREE_LOCK and GET_LOCK, after the loss of the connection with the lock, or
  once a pool was over its idle connections.
  `StandbyTakesOver`: a server that waits begins when the other has gone.
* `TargetToken`. `ExpiryExplained`: a live target has an expired token only
  after as many failures in a row as fit into the margin, or until the first
  round after a restart or a revival. `ExpiredIsRenewed`: it does not stay so.
* `RegistrationToken`. `HandedTokenLives`: a cached token that is handed out
  outlives the margin, unless it was issued with less.
* `Installations`. `CreationSeesFresh`: a creation never decides on an answer
  from before its request, unless another goroutine was filling the cache.
* `Intake`. `QueuedRunsIgnored`: the rescue loop inserts a job only while the
  run's rows have all come in since it looked. `OnlyLabelled`: it takes no
  job of other runners. `RightTarget`: the organization's target is used only
  if the repository's was off. `LostIsRescued`: a job whose webhook was lost
  gets a row, if it is on the first page of its run, as long as the run has not
  started and is among the newest, and there was a runner within the hour.

The excuses in these properties are the races that the code has. They are part
of the statement so that it is exact: without one of them TLC finds a
counterexample.

`targets_orphans` shows where the code does less than its text says.
handleTargetDelete refuses a running target: "target has running runner now,
please stop all runner". But the end of a round marks the target active with
runners left, and the deletion is accepted. Nobody lists a deleted target, so
its runners stay.

### Bounds

Two requests and two rows are enough for a double creation and for a lost
update; `Insert` stops when every name of a row is in use (`Rows # Target`).
`MaxWork` 2 leaves room for a writing request against another or against a job.
One failed call, or one lost answer, reaches every failure path, since a
handler answers at the first. What is special without runners (`zero`) is tried
where a row is there at first and not deleted. Two servers, three starts and
three connections over a pool of two make every way to two servers happen;
nothing bounds the losses of a connection. Tokens live for four intervals with
a margin of two, as few as leave a round between issue and renewal; three
troubles are one more than the margin covers. Registration tokens come with
less than the margin, just the margin, and more. Two callers and one change at
GitHub let a fill overlap a purge. The run has two jobs, one of them without a
label of myshoes, and two upsets: a webhook is lost, and the target goes, the
run is buried under newer ones, or a call of the rescue loop fails. The first
page has all jobs of other runners, and any of those of myshoes; with check_run
events there are no upsets, and the page has all.

### Fairness

`FairManager`: the manager's rounds go on, and every target that can receive
jobs is visited; strong, because a target may stop and begin to be one between
two rounds. `FairServerLock`: the loop of Run goes on, and MySQL notices a lost
client. `FairTargetToken`: the ticker goes on. `FairIntake`: the rescue loop's
ticker, the expiry of caches, time, and the starter's work on each row (what
`Starter` shows as `EveryJobLeavesQueue`). No fairness is assumed of requests,
webhooks, failures, kills or restarts.

### Proofs

`TargetsProofs.tla` proves the safety of `Targets` for any number of requests,
rows, runners and writers, from `TargetsAssumption` alone. What it adds to the
properties is `TargetsInv`, which needs all of its parts at once:

* `Knows`, of a request: the row it works on exists (rows are marked, never
  removed); a creation that is about to insert found no row at all, and asks
  for a size the column takes; one that is about to answer sees in the row what
  it asked for, unless it was disturbed.
* `Follows`, of a service: its row exists, and if that row is deleted while the
  service is about to write, the deletion came after its read.
* `Sound`, of the table: each row has a size. A row that has
  been read can therefore be written back (`KnownTypes`).

Every handler's step is a `Step`, so one lemma (`StepInv`) says when such a
step preserves the invariant: what the request knows next is true of the new
table, which has the rows it had. Its proof is where the histories are used: a
write to the parameters of a row disturbs all other requests for it, and a
deletion is noticed by every service about to write. `ServesInv` is the same
for the services; only `WriteStatus` needs a proof of its own. From the
invariant, `OneTarget`, `DeletedStays` and `AnsweredRight` follow by looking at
the five actions that write a row (`RowChanges`). `TypesSurvive`: no conversion
of a resource type loses it.

`ServicesProofs.tla` first shows that each module's steps are all that the
composition does to its variables (`TargetsSteps`, `LockSteps` and the like),
then works with one module at a time. `TableCorrect` carries the results about
`Targets` over. From the modules' assumptions on their
constants alone:

1. `OneServerCorrect`. Who serves without the lock has lost a race or its
   connection (`Keeps`); a pool has opened no more connections than were in use
   at once (`Pool`), so that it closes one only when `peak` is over `MaxIdle`.
2. `ExpiryCorrect`. `TokenInv` counts: what a token has left and the failures
   since the last success together cover the margin.
3. `HandedTokenCorrect`. `EntryInv`: an entry of the cache goes exactly the
   margin before its token does, and one without expiration stays that way.
4. `CreationFreshCorrect`. From a creation's purge of a key on, neither the
   cache nor a fill under way has an older answer (`Fresh`); the property alone
   does not say that a fill will not bring one back.
5. `OnlyLabelledCorrect`, `QueuedRunsIgnoredCorrect`, `RightTargetCorrect` by
   one invariant (`IntakeInv`): what the loop holds has labels, recognized
   rows have come in since it looked, and whoever is at the second query has
   seen the repository's target off.
6. `TypeCorrect`, the types of all six modules. They are inductive only with
   the invariants above: a pool keeps to `MaxIdle` (`PoolTypes`), each failure
   on record is one of the bound (`TroubleTypes`), nobody has an answer that
   GitHub has not given (`AnswerTypes`), and the caches of the rescue loop hold
   jobs of the run (`IntakeTypes`).

Only model-checked: the four liveness properties (TLAPS has no ENABLED here),
and the violation.

## 6. What is not modelled

* **One-second cache of ListRunners** (`gh/runner.go:36`): GitHub's list can be
  a second older than the rows that were read before it. The lists of
  `RunnerManager` are read afresh, and get as old as a round takes.
* **`POST /config/strict`** while a job is being added: `Strict` does not change
  during a behaviour.
* **Limits of zero or less** (`config/init.go:107`): no slot is ever free then;
  the modules assume positive limits.
* **Transactions inside MySQL**: each call of the datastore is atomic, or done
  without its answer. GetRunner, GetJob and the queries for metrics change
  nothing.
* **The plugin process and its gRPC transport**: AddInstance and DeleteInstance
  are calls that work, fail, or work without an answer.
* **`pkg/datastore/memory`**: the server never uses it.
* **Metrics, logging, the profiling server, rate limits, HTTP clients**: nothing
  of theirs is read back.
* **`pkg/starter/safety`**: its one implementation always answers true. The
  text of the setup script, the wording of answers, signatures and the parsing
  of events are data. Generated code, the client library and `shoes-tester` are
  not part of the server.
