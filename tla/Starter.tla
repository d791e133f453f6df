------------------------------ MODULE Starter ------------------------------
(***************************************************************************)
(* The starter of myshoes (pkg/starter/starter.go): it turns rows of the   *)
(* jobs table into cloud instances and rows of the runners table.          *)
(*                                                                         *)
(* Three kinds of goroutine share memory and the database:                 *)
(*   - the dispatcher, which lists the queued jobs on a 10 s tick or on a  *)
(*     notification and hands them over one at a time (Loop, dispatcher);  *)
(*   - the run loop, which takes a job, waits for a slot of the semaphore  *)
(*     and spawns a goroutine for it (run);                                *)
(*   - one worker per spawned job (the goroutine of run and ProcessJob).   *)
(* Webhook handlers and the rescue loop insert jobs concurrently.          *)
(*                                                                         *)
(* The database and the cloud survive a crash; everything else is lost.    *)
(***************************************************************************)
EXTENDS Integers, FiniteSets

CONSTANTS
  Job,          \* the UUIDs that jobs get when they are enqueued
  NoJob,        \* "no job", not a member of Job
  Worker,       \* goroutines that can be alive at once (bound)
  Max,          \* config.Config.MaxConnectionsToBackend
  Strict,       \* config.Config.Strict
  Invalid,      \* the jobs whose labels the provider answers InvalidArgument
  TroubleAt,    \* the members of Trouble that may happen
  OtherStatus,  \* statuses that the other writers of the target may give it
  MaxTroubles,  \* bound: troubles in a behaviour
  MaxRetry,     \* bound: retry counts saturate here
  MaxInst       \* bound: instance numbers of a job saturate here

\* The calls that can fail (an answer of AddInstance can also be lost), the
\* death of the process and the cancellation of the context.
Trouble == {"list", "mark", "add", "lost", "check", "drop", "save", "delete",
            "reject", "crash", "stop"}

ASSUME ConstantsAssumption ==
  /\ NoJob \notin Job
  /\ IsFiniteSet(Worker)
  /\ Max \in Nat \ {0}
  /\ Strict \in BOOLEAN
  /\ Invalid \subseteq Job
  /\ TroubleAt \subseteq Trouble
  /\ OtherStatus \subseteq {"active", "deleted"}
  /\ MaxTroubles \in Nat /\ MaxRetry \in Nat /\ MaxInst \in Nat \ {0}

VARIABLES
  \* database (MySQL)
  jobs,        \* rows of the table jobs
  runners,     \* runners[j]: the instance in j's row of runners, 0 if none
  target,      \* the status of the target the jobs belong to
  \* cloud provider and GitHub
  made,        \* made[j]: number of instances the provider created for j
  live,        \* the instances <<j, n>> that exist at the provider
  registered,  \* registered[j]: the instance with j's runner name in GitHub
  \* memory shared by the goroutines
  notify,      \* number of tokens in notifyEnqueueCh (capacity 1)
  notifying,   \* jobs inserted whose handler has yet to notify
  inProgress,  \* the sync.Map of the jobs being processed
  retry,       \* the sync.Map AddInstanceRetryCount (no entry is 0)
  held,        \* slots of the semaphore that are taken
  ctx,         \* "live", or "done" once the errgroup cancelled the context
  \* dispatcher goroutine
  dpc,         \* where it is: select, list, send, exit
  pending,     \* the jobs of its list that it has not sent yet
  \* run goroutine
  rpc,         \* where it is: select, acquire, exit
  rjob, rcnt,  \* the job waiting for a slot and the retry count read for it
  \* worker goroutines
  pc, wjob, wcnt, winst,
  \* history and bounds
  seen,        \* every job ever inserted
  rejected,    \* the jobs dropped because the provider rejected their labels
  unlisted,    \* the jobs inserted and not returned by a ListJobs yet
  troubles     \* number of troubles so far

db     == <<jobs, runners, target>>
cloud  == <<made, live, registered>>
chan   == <<notify, notifying>>
disp   == <<dpc, pending>>
runl   == <<rpc, rjob, rcnt>>
work   == <<pc, wjob, wcnt, winst>>
hist   == <<seen, rejected, unlisted>>
vars   == <<db, cloud, chan, inProgress, retry, held, ctx, disp, runl, work,
            hist, troubles>>

Instance == Job \X (1 .. MaxInst)

\* Worker states in which the goroutine still holds its slot; in the last
\* one, "unmark", only its job is still in inProgress.
Holding == {"sleep", "mark", "add", "check", "drop", "save", "delete",
            "reject", "err", "mend", "fail", "ok", "release"}
WorkerPc == Holding \cup {"unmark", "idle"}

TargetStatus == {"active", "running", "error", "deleted"}

DbTypes ==
  /\ jobs \subseteq Job
  /\ runners \in [Job -> 0 .. MaxInst]
  /\ target \in TargetStatus

CloudTypes ==
  /\ made \in [Job -> 0 .. MaxInst]
  /\ live \subseteq Instance
  /\ registered \in [Job -> 0 .. MaxInst]

MemoryTypes ==
  /\ notify \in 0 .. 1
  /\ notifying \subseteq Job
  /\ inProgress \subseteq Job
  /\ retry \in [Job -> 0 .. MaxRetry]
  /\ held \in Int
  /\ ctx \in {"live", "done"}

LoopTypes ==
  /\ dpc \in {"select", "list", "send", "exit"}
  /\ pending \subseteq Job
  /\ rpc \in {"select", "acquire", "exit"}
  /\ rjob \in Job \cup {NoJob}
  /\ rpc = "acquire" => rjob \in Job
  /\ rcnt \in 0 .. MaxRetry

WorkerTypes ==
  /\ pc \in [Worker -> WorkerPc]
  /\ wjob \in [Worker -> Job \cup {NoJob}]
  /\ \A w \in Worker : pc[w] # "idle" => wjob[w] \in Job
  /\ wcnt \in [Worker -> 0 .. MaxRetry]
  /\ winst \in [Worker -> 0 .. MaxInst]

HistoryTypes ==
  /\ seen \subseteq Job /\ rejected \subseteq Job /\ unlisted \subseteq Job
  /\ troubles \in 0 .. MaxTroubles

\* Type invariant.
TypeOK == DbTypes /\ CloudTypes /\ MemoryTypes /\ LoopTypes /\ WorkerTypes
          /\ HistoryTypes

Init ==
  /\ jobs = {} /\ runners = [j \in Job |-> 0] /\ target = "active"
  /\ made = [j \in Job |-> 0] /\ live = {} /\ registered = [j \in Job |-> 0]
  /\ notify = 0 /\ notifying = {}
  /\ inProgress = {} /\ retry = [j \in Job |-> 0] /\ held = 0 /\ ctx = "live"
  /\ dpc = "select" /\ pending = {}
  /\ rpc = "select" /\ rjob = NoJob /\ rcnt = 0
  /\ pc = [w \in Worker |-> "idle"] /\ wjob = [w \in Worker |-> NoJob]
  /\ wcnt = [w \in Worker |-> 0] /\ winst = [w \in Worker |-> 0]
  /\ unlisted = {}
  /\ seen = {} /\ rejected = {}
  /\ troubles = 0

----------------------------------------------------------------------------
(* External calls take the context: they fail once it is cancelled, and    *)
(* before that as often as the bound says.                                 *)

Succeeds == ctx = "live" /\ UNCHANGED troubles

Happens(p) ==
  /\ p \in TroubleAt /\ troubles < MaxTroubles
  /\ troubles' = troubles + 1

Fault(p) ==
  \/ ctx = "done" /\ UNCHANGED troubles
  \/ ctx = "live" /\ Happens(p)

----------------------------------------------------------------------------
(* Enqueueing: webhook handlers and the rescue loop.                       *)

\* Mutant: EnqueueJob without its notification.
EnqueueSilently(j) ==
  /\ j \notin seen
  /\ jobs' = jobs \cup {j}
  /\ seen' = seen \cup {j}
  /\ unlisted' = unlisted \cup {j}
  /\ UNCHANGED <<runners, target, cloud, chan, inProgress, retry, held, ctx,
                 disp, runl, work, rejected, troubles>>

\* EnqueueJob inserts the row under a fresh UUID; the insertion wakes nobody
\* yet.  processCheckRun has read the target's status before (CanReceiveJob):
\* what the status is by now does not matter.
Enqueue(j) ==
  /\ j \notin seen
  /\ jobs' = jobs \cup {j}
  /\ seen' = seen \cup {j}
  /\ unlisted' = unlisted \cup {j}
  /\ notifying' = notifying \cup {j}
  /\ UNCHANGED <<runners, target, cloud, notify, inProgress, retry, held, ctx,
                 disp, runl, work, rejected, troubles>>

\* EnqueueJob's select: the token is dropped when the channel is full.
Notify(j) ==
  /\ j \in notifying
  /\ notify' = 1
  /\ notifying' = notifying \ {j}
  /\ UNCHANGED <<db, cloud, inProgress, retry, held, ctx, disp, runl, work,
                 hist, troubles>>

----------------------------------------------------------------------------
(* The dispatcher goroutine.                                               *)

\* The 10 s ticker fires.
Tick ==
  /\ dpc = "select"
  /\ dpc' = "list"
  /\ UNCHANGED <<db, cloud, chan, inProgress, retry, held, ctx, pending, runl,
                 work, hist, troubles>>

\* A notification is received.
TakeNotify ==
  /\ dpc = "select" /\ notify = 1
  /\ dpc' = "list"
  /\ notify' = 0
  /\ UNCHANGED <<db, cloud, notifying, inProgress, retry, held, ctx, pending,
                 runl, work, hist, troubles>>

\* ListJobs: the list is a snapshot that is sent job by job afterwards.
List ==
  /\ dpc = "list"
  /\ Succeeds
  /\ pending' = jobs
  /\ dpc' = IF jobs = {} THEN "select" ELSE "send"
  /\ unlisted' = {}
  /\ UNCHANGED <<db, cloud, chan, inProgress, retry, held, ctx, runl, work,
                 seen, rejected>>

\* ListJobs fails: Loop logs the error and waits for the next tick.
ListFails ==
  /\ dpc = "list"
  /\ Fault("list")
  /\ dpc' = "select"
  /\ UNCHANGED <<db, cloud, chan, inProgress, retry, held, ctx, pending, runl,
                 work, hist>>

\* The context is done: the dispatcher only notices between two lists.
DispatcherExit ==
  /\ dpc = "select" /\ ctx = "done"
  /\ dpc' = "exit"
  /\ UNCHANGED <<db, cloud, chan, inProgress, retry, held, ctx, pending, runl,
                 work, hist, troubles>>

----------------------------------------------------------------------------
(* The run goroutine.                                                      *)

\* The rendezvous on the unbuffered channel: `ch <- j` and `job := <-ch`.
Handover(j) ==
  /\ dpc = "send" /\ rpc = "select"
  /\ j \in pending
  /\ pending' = pending \ {j}
  /\ dpc' = IF pending \ {j} = {} THEN "select" ELSE "send"

\* The job is in progress: skip it.
Skip(j) ==
  /\ Handover(j)
  /\ j \in inProgress
  /\ UNCHANGED <<db, cloud, chan, inProgress, retry, held, ctx, runl, work,
                 hist, troubles>>

\* Mutant: without the inProgress check.
ReceiveAlways(j) ==
  /\ Handover(j)
  /\ rpc' = "acquire" /\ rjob' = j /\ rcnt' = retry[j]
  /\ UNCHANGED <<db, cloud, chan, inProgress, retry, held, ctx, work, hist,
                 troubles>>

\* Mutant: the count starts at zero every time.
ReceiveForgets(j) ==
  /\ Handover(j)
  /\ j \notin inProgress
  /\ rpc' = "acquire" /\ rjob' = j /\ rcnt' = 0
  /\ UNCHANGED <<db, cloud, chan, inProgress, retry, held, ctx, work, hist,
                 troubles>>

\* The job is taken: its retry count is read and run waits for a slot.
Receive(j) ==
  /\ Handover(j)
  /\ j \notin inProgress
  /\ rpc' = "acquire" /\ rjob' = j /\ rcnt' = retry[j]
  /\ UNCHANGED <<db, cloud, chan, inProgress, retry, held, ctx, work, hist,
                 troubles>>

\* Mutant: the slot is not waited for.
SpawnUnbounded(w) ==
  /\ rpc = "acquire"
  /\ pc[w] = "idle"
  /\ held' = held + 1
  /\ inProgress' = inProgress \cup {rjob}
  /\ pc' = [pc EXCEPT ![w] = "sleep"]
  /\ wjob' = [wjob EXCEPT ![w] = rjob]
  /\ wcnt' = [wcnt EXCEPT ![w] = rcnt]
  /\ winst' = [winst EXCEPT ![w] = 0]
  /\ rpc' = "select" /\ rjob' = NoJob /\ rcnt' = 0
  /\ UNCHANGED <<db, cloud, chan, retry, ctx, disp, hist, troubles>>

\* Mutant: the goroutine reads run's variable after run has gone on.
SpawnCapturing(w) ==
  /\ rpc = "acquire" /\ held < Max
  /\ pc[w] = "idle"
  /\ held' = held + 1
  /\ inProgress' = inProgress \cup {rjob}
  /\ rpc' = "select" /\ rjob' = NoJob /\ rcnt' = 0
  /\ pc' = [pc EXCEPT ![w] = "sleep"]
  /\ wjob' = [wjob EXCEPT ![w] = rjob']
  /\ wcnt' = [wcnt EXCEPT ![w] = rcnt]
  /\ winst' = [winst EXCEPT ![w] = 0]
  /\ UNCHANGED <<db, cloud, chan, retry, ctx, disp, hist, troubles>>

\* sem.Acquire returns: the job is marked and its goroutine is spawned.
Spawn(w) ==
  /\ rpc = "acquire" /\ held < Max
  /\ pc[w] = "idle"
  /\ held' = held + 1
  /\ inProgress' = inProgress \cup {rjob}
  /\ pc' = [pc EXCEPT ![w] = "sleep"]
  /\ wjob' = [wjob EXCEPT ![w] = rjob]
  /\ wcnt' = [wcnt EXCEPT ![w] = rcnt]
  /\ winst' = [winst EXCEPT ![w] = 0]
  /\ rpc' = "select" /\ rjob' = NoJob /\ rcnt' = 0
  /\ UNCHANGED <<db, cloud, chan, retry, ctx, disp, hist, troubles>>

\* The context is done: run returns, from its select or from sem.Acquire.
RunExit ==
  /\ rpc # "exit" /\ ctx = "done"
  /\ rpc' = "exit" /\ rjob' = NoJob /\ rcnt' = 0
  /\ UNCHANGED <<db, cloud, chan, inProgress, retry, held, ctx, disp, work,
                 hist, troubles>>

----------------------------------------------------------------------------
(* The worker goroutines: ProcessJob between the backoff and the settling  *)
(* of the retry count.                                                     *)

Goto(w, from, to) ==
  /\ pc[w] = from
  /\ pc' = [pc EXCEPT ![w] = to]
  /\ UNCHANGED <<wjob, wcnt>>

\* What no step of ProcessJob writes.
Elsewhere == UNCHANGED <<chan, inProgress, held, ctx, disp, runl, seen,
                         unlisted>>

\* The backoff is over.  UpdateTargetStatus reads the target: if it can
\* receive jobs its status is going to be written, whatever it is by then.
ReadTarget(w) ==
  /\ Goto(w, "sleep", IF target = "deleted" THEN "add" ELSE "mark")
  /\ Succeeds
  /\ UNCHANGED <<db, cloud, retry, rejected, winst>>
  /\ Elsewhere

\* The target becomes running.
Mark(w) ==
  /\ Goto(w, "mark", "add")
  /\ Succeeds
  /\ target' = "running"
  /\ UNCHANGED <<jobs, runners, cloud, retry, rejected, winst>>
  /\ Elsewhere

\* Reading or updating the target fails: ProcessJob returns at once.
MarkFails(w) ==
  /\ \/ Goto(w, "sleep", "fail") /\ UNCHANGED target
     \/ Goto(w, "mark", "fail") /\ target' \in {target, "running"}
  /\ Fault("mark")
  /\ UNCHANGED <<jobs, runners, cloud, retry, rejected, winst>>
  /\ Elsewhere

\* The provider creates one more instance for job j.
NextInst(j) == IF made[j] < MaxInst THEN made[j] + 1 ELSE MaxInst

Create(j) ==
  /\ made' = [made EXCEPT ![j] = NextInst(j)]
  /\ live' = live \cup {<<j, NextInst(j)>>}
  /\ UNCHANGED registered

\* bung: AddInstance succeeds.
Add(w) ==
  /\ Goto(w, "add", IF Strict THEN "check" ELSE "save")
  /\ wjob[w] \notin Invalid
  /\ Succeeds
  /\ Create(wjob[w])
  /\ winst' = [winst EXCEPT ![w] = NextInst(wjob[w])]
  /\ UNCHANGED <<db, retry, rejected>>
  /\ Elsewhere

\* Mutant: every error of bung is taken for an invalid label.
AddFailsRejecting(w) ==
  /\ Goto(w, "add", "reject")
  /\ Fault("add")
  /\ UNCHANGED <<db, cloud, retry, rejected, winst>>
  /\ Elsewhere

\* bung fails and no instance exists.
AddFails(w) ==
  /\ Goto(w, "add", "err")
  /\ Fault("add")
  /\ UNCHANGED <<db, cloud, retry, rejected, winst>>
  /\ Elsewhere

\* bung's deadline passes after the provider has created the instance: the
\* answer is lost, and with it the cloud ID.
AddLost(w) ==
  /\ Goto(w, "add", "err")
  /\ wjob[w] \notin Invalid
  /\ Fault("lost")
  /\ Create(wjob[w])
  /\ UNCHANGED <<db, retry, rejected, winst>>
  /\ Elsewhere

\* AddInstance answers InvalidArgument.
AddInvalid(w) ==
  /\ Goto(w, "add", "reject")
  /\ wjob[w] \in Invalid
  /\ Succeeds
  /\ UNCHANGED <<db, cloud, retry, rejected, winst>>
  /\ Elsewhere

\* An invalid job is deleted from the queue.  (incrementDeleteJobMap cannot
\* fail here: bung has parsed the same labels before.)
Reject(w) ==
  /\ Goto(w, "reject", "ok")
  /\ Succeeds
  /\ jobs' = jobs \ {wjob[w]}
  /\ rejected' = rejected \cup {wjob[w]}
  /\ UNCHANGED <<runners, target, cloud, retry, winst>>
  /\ Elsewhere

RejectFails(w) ==
  /\ Goto(w, "reject", "err")
  /\ Fault("reject")
  /\ \/ UNCHANGED <<jobs, rejected>>
     \/ jobs' = jobs \ {wjob[w]} /\ rejected' = rejected \cup {wjob[w]}
  /\ UNCHANGED <<runners, target, cloud, retry, winst>>
  /\ Elsewhere

\* checkRegisteredRunner looks the runner up in GitHub by the job's name.
Check(w) ==
  /\ Goto(w, "check", "save")
  /\ registered[wjob[w]] # 0
  /\ Succeeds
  /\ UNCHANGED <<db, cloud, retry, rejected, winst>>
  /\ Elsewhere

\* Mutant: a failed check is taken for a registered runner.
CheckFailsOpen(w) ==
  /\ Goto(w, "check", "save")
  /\ Fault("check")
  /\ UNCHANGED <<db, cloud, retry, rejected, winst>>
  /\ Elsewhere

\* The check times out, or GitHub answers an error other than not found.
CheckFails(w) ==
  /\ Goto(w, "check", "drop")
  /\ Fault("check")
  /\ UNCHANGED <<db, cloud, retry, rejected, winst>>
  /\ Elsewhere

\* The instance that did not register is deleted; GitHub keeps the runner
\* entry if it had registered.
Drop(w) ==
  /\ Goto(w, "drop", "err")
  /\ Succeeds
  /\ live' = live \ {<<wjob[w], winst[w]>>}
  /\ UNCHANGED <<db, made, registered, retry, rejected, winst>>
  /\ Elsewhere

\* Deleting it fails: the error is only logged.
DropFails(w) ==
  /\ Goto(w, "drop", "err")
  /\ Fault("drop")
  /\ UNCHANGED <<db, cloud, retry, rejected, winst>>
  /\ Elsewhere

\* Mutant: the job is deleted before the runner is recorded.
SaveAfterDelete(w) ==
  /\ Goto(w, "save", "delete")
  /\ runners[wjob[w]] = 0
  /\ Succeeds
  /\ jobs' = jobs \ {wjob[w]}
  /\ UNCHANGED <<runners, target, cloud, retry, rejected, winst>>
  /\ Elsewhere

\* CreateRunner commits: runners.uuid is the job's UUID and a primary key.
Save(w) ==
  /\ Goto(w, "save", "delete")
  /\ runners[wjob[w]] = 0
  /\ Succeeds
  /\ runners' = [runners EXCEPT ![wjob[w]] = winst[w]]
  /\ UNCHANGED <<jobs, target, cloud, retry, rejected, winst>>
  /\ Elsewhere

\* CreateRunner finds a row with that UUID.
SaveDuplicate(w) ==
  /\ Goto(w, "save", "err")
  /\ runners[wjob[w]] # 0
  /\ Succeeds
  /\ UNCHANGED <<db, cloud, retry, rejected, winst>>
  /\ Elsewhere

\* CreateRunner fails otherwise, perhaps after the commit; the instance is
\* not deleted.  (If MySQL is away MustBegin panics: see Crash.)
SaveFails(w) ==
  /\ Goto(w, "save", "err")
  /\ Fault("save")
  /\ \/ UNCHANGED runners
     \/ /\ runners[wjob[w]] = 0
        /\ runners' = [runners EXCEPT ![wjob[w]] = winst[w]]
  /\ UNCHANGED <<jobs, target, cloud, retry, rejected, winst>>
  /\ Elsewhere

\* The job leaves the queue.
Delete(w) ==
  /\ Goto(w, "delete", "ok")
  /\ Succeeds
  /\ jobs' = jobs \ {wjob[w]}
  /\ UNCHANGED <<runners, target, cloud, retry, rejected, winst>>
  /\ Elsewhere

DeleteFails(w) ==
  /\ Goto(w, "delete", "err")
  /\ Fault("delete")
  /\ jobs' \in {jobs, jobs \ {wjob[w]}}
  /\ UNCHANGED <<runners, target, cloud, retry, rejected, winst>>
  /\ Elsewhere

\* The error path of ProcessJob: UpdateTargetStatus reads the target, and
\* gives up if that fails or the target is deleted.
Err(w) ==
  /\ \/ Goto(w, "err", "fail")
     \/ Goto(w, "err", "mend") /\ ctx = "live" /\ target # "deleted"
  /\ UNCHANGED <<troubles, db, cloud, retry, rejected, winst>>
  /\ Elsewhere

\* Then it writes the status; ProcessJob returns an error either way.
Mend(w) ==
  /\ Goto(w, "mend", "fail")
  /\ target' \in {target, "error"}
  /\ UNCHANGED <<troubles, jobs, runners, cloud, retry, rejected, winst>>
  /\ Elsewhere

\* ProcessJob returned an error: the count read by run is stored plus one.
SettleFailure(w) ==
  /\ Goto(w, "fail", "release")
  /\ UNCHANGED troubles
  /\ retry' = [retry EXCEPT ![wjob[w]] =
                 IF wcnt[w] < MaxRetry THEN wcnt[w] + 1 ELSE MaxRetry]
  /\ UNCHANGED <<db, cloud, rejected, winst>>
  /\ Elsewhere

\* ProcessJob returned nil: the entry is deleted.
SettleSuccess(w) ==
  /\ Goto(w, "ok", "release")
  /\ UNCHANGED troubles
  /\ retry' = [retry EXCEPT ![wjob[w]] = 0]
  /\ UNCHANGED <<db, cloud, rejected, winst>>
  /\ Elsewhere

\* Mutant: the deferred function forgets the slot.
ReleaseNothing(w) ==
  /\ pc[w] = "release"
  /\ pc' = [pc EXCEPT ![w] = "unmark"]
  /\ UNCHANGED <<db, cloud, chan, inProgress, retry, held, ctx, disp, runl,
                 wjob, wcnt, winst, hist, troubles>>

\* The deferred function runs in this order: the slot first, the mark after.
Release(w) ==
  /\ pc[w] = "release"
  /\ pc' = [pc EXCEPT ![w] = "unmark"]
  /\ held' = held - 1
  /\ UNCHANGED <<db, cloud, chan, inProgress, retry, ctx, disp, runl, wjob,
                 wcnt, winst, hist, troubles>>

\* The goroutine of worker w is gone.
Vanish(w) ==
  /\ pc' = [pc EXCEPT ![w] = "idle"]
  /\ wjob' = [wjob EXCEPT ![w] = NoJob]
  /\ wcnt' = [wcnt EXCEPT ![w] = 0]
  /\ winst' = [winst EXCEPT ![w] = 0]

\* Mutant: the job stays marked.
UnmarkNothing(w) ==
  /\ pc[w] = "unmark"
  /\ Vanish(w)
  /\ UNCHANGED <<db, cloud, chan, inProgress, retry, held, ctx, disp, runl,
                 hist, troubles>>

\* inProgress.Delete, and the goroutine ends.
Unmark(w) ==
  /\ pc[w] = "unmark"
  /\ inProgress' = inProgress \ {wjob[w]}
  /\ Vanish(w)
  /\ UNCHANGED <<db, cloud, chan, retry, held, ctx, disp, runl, hist,
                 troubles>>

----------------------------------------------------------------------------
(* The environment.                                                        *)

\* An instance boots and registers under the runner name of its job; GitHub
\* refuses a second runner of that name (config.sh runs without --replace).
\* The starter looks at registrations in strict mode only.
Register(i) ==
  /\ Strict /\ i \in live
  /\ registered[i[1]] = 0
  /\ registered' = [registered EXCEPT ![i[1]] = i[2]]
  /\ UNCHANGED <<db, made, live, chan, inProgress, retry, held, ctx, disp,
                 runl, work, hist, troubles>>

\* The other writers of the target's status: the API deletes it and creates
\* it again, the runner manager ends a round.  Each looks at a status that it
\* read earlier, so the present one is no guard.
OtherWriter(s) ==
  /\ target' = s
  /\ UNCHANGED <<jobs, runners, cloud, chan, inProgress, retry, held, ctx,
                 disp, runl, work, hist, troubles>>

\* A component of cmd/server failed: the errgroup cancels the context.
Stop ==
  /\ ctx = "live" /\ Happens("stop")
  /\ ctx' = "done"
  /\ UNCHANGED <<db, cloud, chan, inProgress, retry, held, disp, runl, work,
                 hist>>

\* The memory of a process that has just started.
Reboot ==
  /\ notify' = 0 /\ notifying' = {}
  /\ inProgress' = {} /\ retry' = [j \in Job |-> 0] /\ held' = 0
  /\ ctx' = "live"
  /\ dpc' = "select" /\ pending' = {}
  /\ rpc' = "select" /\ rjob' = NoJob /\ rcnt' = 0
  /\ pc' = [w \in Worker |-> "idle"] /\ wjob' = [w \in Worker |-> NoJob]
  /\ wcnt' = [w \in Worker |-> 0] /\ winst' = [w \in Worker |-> 0]
  /\ unlisted' = {}
  /\ UNCHANGED <<db, cloud, seen, rejected>>

\* Loop has returned: main exits, and systemd restarts the process.  Workers
\* are not waited for.
Restart ==
  /\ dpc = "exit" /\ rpc = "exit"
  /\ Reboot
  /\ UNCHANGED troubles

\* The process dies at any point and is restarted.
Crash ==
  /\ Happens("crash")
  /\ Reboot

----------------------------------------------------------------------------
Webhook    == \E j \in Job : Enqueue(j) \/ Notify(j)
Dispatcher == Tick \/ TakeNotify \/ List \/ ListFails \/ DispatcherExit
Run        == \/ \E j \in Job : Skip(j) \/ Receive(j)
              \/ \E w \in Worker : Spawn(w)
              \/ RunExit

\* The steps of ProcessJob that the outside world lets succeed, and those
\* that need a failure.
Progress(w) ==
  \/ ReadTarget(w) \/ Mark(w) \/ Add(w) \/ AddInvalid(w) \/ Reject(w)
  \/ Check(w) \/ Drop(w) \/ Save(w) \/ SaveDuplicate(w) \/ Delete(w)
  \/ Err(w) \/ Mend(w) \/ SettleFailure(w) \/ SettleSuccess(w)
Failure(w) ==
  \/ MarkFails(w) \/ AddFails(w) \/ AddLost(w) \/ RejectFails(w)
  \/ CheckFails(w) \/ DropFails(w) \/ SaveFails(w) \/ DeleteFails(w)
Cancelled(w) == ctx = "done" /\ Failure(w)
Finish(w) == Release(w) \/ Unmark(w)

Environment ==
  \/ \E i \in Instance : Register(i)
  \/ \E s \in OtherStatus : OtherWriter(s)

Next ==
  \/ Webhook \/ Dispatcher \/ Run
  \/ \E w \in Worker : Progress(w) \/ Failure(w) \/ Finish(w)
  \/ Environment
  \/ Stop \/ Restart \/ Crash

Spec == Init /\ [][Next]_vars

(* Every goroutine that can go on does, handlers reach their notification, *)
(* and instances that exist boot.  A select whose ctx.Done case is ready   *)
(* picks it sooner or later, although the ticker fires in between: the one *)
(* strong fairness.  Nothing is assumed about failures before the context  *)
(* is done, crashes, webhooks or the other writers of the target.          *)
Fairness ==
  /\ \A j \in Job : WF_vars(Notify(j))
  /\ WF_vars(Tick \/ TakeNotify)
  /\ WF_vars(List \/ (ctx = "done" /\ ListFails)) /\ SF_vars(DispatcherExit)
  /\ WF_vars(\E j \in Job : Skip(j) \/ Receive(j))
  /\ WF_vars(\E w \in Worker : Spawn(w)) /\ WF_vars(RunExit)
  /\ \A w \in Worker :
       WF_vars(Progress(w) \/ Cancelled(w)) /\ WF_vars(Finish(w))
  /\ WF_vars(\E i \in Instance : Register(i))
  /\ WF_vars(Restart)

FairSpec == Spec /\ Fairness

----------------------------------------------------------------------------
(* Safety.                                                                 *)

\* The semaphore of run: a slot is held by exactly the goroutines between
\* their spawn and sem.Release, so never more than Max jobs use the provider.
SlotsMatchWorkers ==
  LET holders == {w \in Worker : pc[w] \in Holding}
  IN  held = Cardinality(holders) /\ Cardinality(holders) <= Max

\* inProgress holds exactly the jobs of the goroutines that have not passed
\* their deferred inProgress.Delete.
InProgressExact ==
  inProgress = {wjob[w] : w \in {v \in Worker : pc[v] # "idle"}}

\* Although the dispatcher sends stale copies of a job and the slot is
\* released before the mark is removed, no two goroutines process one job,
\* and run never waits to process a job that a goroutine is processing.
OneWorkerPerJob ==
  /\ \A v, w \in Worker :
       v # w /\ pc[v] # "idle" /\ pc[w] # "idle" => wjob[v] # wjob[w]
  /\ rpc = "acquire" =>
       \A w \in Worker : pc[w] # "idle" => wjob[w] # rjob

\* The retry count that run read before it waited for a slot is still the
\* one in AddInstanceRetryCount when the goroutine stores count+1: no
\* failure is forgotten, the backoff grows with every one of them.
RetryCountFresh ==
  /\ rpc = "acquire" => rcnt = retry[rjob]
  /\ \A w \in Worker :
       pc[w] \in Holding \ {"release"} => wcnt[w] = retry[wjob[w]]

\* A job that was inserted is still queued unless a runner was recorded for
\* it or the provider rejected it: no failure or crash loses a job.
NoJobLost ==
  \A j \in seen : j \in jobs \/ runners[j] # 0 \/ j \in rejected

\* The non-blocking send on a channel of capacity 1 loses no wakeup: a job
\* that no list has returned yet has a token waiting, a handler about to
\* send one, or a list about to start.  (A failed list waits for the tick.)
NoLostWakeup ==
  ctx = "live" /\ "list" \notin TroubleAt /\ unlisted # {} =>
    notify = 1 \/ unlisted \cap notifying # {} \/ dpc = "list"

\* In strict mode a runner is recorded only once GitHub knows a runner of
\* that name.
StrictRow ==
  Strict => \A j \in Job : runners[j] # 0 => registered[j] # 0

\* The jobs go through the phases of JobLifecycle; a job that is nowhere has
\* a phase that JobLifecycle does not know.
phase == [j \in Job |->
  CASE j \notin seen                                  -> "new"
    [] j \in seen /\ runners[j] # 0                   -> "served"
    [] j \in seen /\ runners[j] = 0 /\ j \in rejected -> "rejected"
    [] OTHER -> IF j \in jobs THEN "queued" ELSE "lost"]

Lifecycle == INSTANCE JobLifecycle WITH Job <- Job, phase <- phase

\* The starter implements JobLifecycle: whatever fails, a job is served or
\* rejected once, never both, and that is final.
ImplementsLifecycle == Lifecycle!Spec

----------------------------------------------------------------------------
(* Liveness.                                                               *)

\* A queued job leaves the queue: the dispatcher, the run loop and the
\* semaphore starve nobody.
EveryJobLeavesQueue == \A j \in Job : j \in jobs ~> j \notin jobs

\* A taken slot is given back, whatever failed in ProcessJob.
SlotsComeBack == held = Max ~> held < Max

----------------------------------------------------------------------------
(* What comments and documents say and the code does not do.               *)

\* starter.go logs "found new job" for what it takes from the dispatcher,
\* and its guard says that a copy of a handled job is skipped: the job that
\* gets an instance is still in the queue.
AddsOnlyQueuedJobs ==
  \A w \in Worker : pc[w] = "add" => wjob[w] \in jobs

\* Strict mode: "check to registered runner before delete job".  The runner
\* recorded for a job is the one that registered.
RecordedIsRegistered ==
  Strict => \A j \in Job : runners[j] # 0 => registered[j] = runners[j]

\* Loop returns once the context is done, and systemd restarts the process.
StopLeadsToRestart == ctx = "done" ~> ctx = "live"
=============================================================================
