---------------------------- MODULE RunnerManager ----------------------------
(***************************************************************************)
(* The runner manager of myshoes (pkg/runner): once a minute it compares   *)
(* the rows of the table runners_running with the runners GitHub lists and *)
(* removes those that have ended: from GitHub, from the provider and from  *)
(* the database, in this order.                                            *)
(*                                                                         *)
(* One goroutine does the rounds (Loop, do, removeRunners) and spawns one  *)
(* goroutine per runner of the round, with at most Max of them at a time.  *)
(* They all decide on the list of GitHub's runners that the round made at  *)
(* its start, however long they waited for their slot or slept since.      *)
(*                                                                         *)
(* The module follows one target.  The starter that records the runners,   *)
(* the runners' own life and the other writers of the target's status are  *)
(* its environment.                                                        *)
(***************************************************************************)
EXTENDS Integers, FiniteSets

CONSTANTS
  Runner,          \* the target's runners, numbered in GitHub's order
  Max,             \* config.Config.MaxConcurrencyDeleting
  MaxDeleteRetry,  \* retries before a runner is ignored
  DeletingTimeout, \* deadline of one removal, in seconds
  Strict,          \* config.Config.Strict: recorded only once registered
  Versions,        \* whether a version configured means TemporaryOnce
  PerPage,         \* runners in one page of GitHub's answer
  TroubleAt,       \* the members of Trouble that may happen
  OtherStatus,     \* statuses that the other writers of the target give it
  MaxTroubles      \* bound: troubles in a behaviour

\* Calls that fail or whose answer is lost, the death of the process and the
\* cancellation of its context.
Trouble == {"list", "mark", "unregister", "destroy", "lost", "erase",
            "crash", "stop"}

ASSUME ConstantsAssumption ==
  /\ Runner \subseteq Nat /\ IsFiniteSet(Runner)
  /\ Max \in Nat \ {0}
  /\ MaxDeleteRetry \in Nat
  /\ DeletingTimeout \in Nat
  /\ Strict \in BOOLEAN
  /\ Versions \subseteq BOOLEAN
  /\ PerPage \in Nat \ {0}
  /\ TroubleAt \subseteq Trouble
  /\ OtherStatus \subseteq {"running", "error", "deleted"}
  /\ MaxTroubles \in Nat

VARIABLES
  \* database
  row,       \* row[r]: none, running, or the reason in runners_deleted
  age,       \* age[r]: young, old (MustRunningTime) or overdue (MustGoalTime)
  target,    \* status of the target
  \* provider and GitHub
  inst,      \* the runners whose instance exists
  gh,        \* gh[r]: the runner as GitHub knows it
  \* memory of the process
  retry,     \* DeleteRetryCount (no entry is 0)
  ctx,       \* "live", or "done" once the server is stopping
  once,      \* whether its version means TemporaryOnce
  \* the round: mpc is where the manager is
  mpc,
  status,    \* t.Status when the round listed the targets
  todo,      \* rows of the round not yet handed to a goroutine
  listed,    \* ghRunners: what GitHub's list said of each runner
  page,      \* the page to ask for
  held,      \* slots taken of the round's semaphore
  goal,      \* status that the round is about to give the target
  \* the goroutine of each runner, and the count it was spawned with
  pc, cnt,
  \* history and bounds
  killed,    \* runners whose instance was deleted while it ran a job
  troubles   \* number of troubles so far

db    == <<row, age, target>>
world == <<inst, gh>>
proc  == <<retry, ctx, once>>
round == <<mpc, status, todo, listed, page, held, goal>>
work  == <<pc, cnt>>
vars  == <<db, world, proc, round, work, killed, troubles>>

Reason == {"completed", "reach_hard_limit"}

\* "booting" is not registered yet, "offline" can come back, "ended" has
\* ended without leaving GitHub, and "gone" has left it.
Life == {"booting", "online", "busy", "offline", "ended", "gone"}

TargetStatus == {"active", "running", "error", "queueless", "deleted"}

DbTypes ==
  /\ row \in [Runner -> {"none", "running"} \cup Reason]
  /\ age \in [Runner -> {"young", "old", "overdue"}]
  /\ target \in TargetStatus

WorldTypes ==
  /\ inst \subseteq Runner /\ killed \subseteq Runner
  /\ gh \in [Runner -> Life]

ProcTypes ==
  /\ retry \in [Runner -> 0 .. MaxDeleteRetry + 1]
  /\ ctx \in {"live", "done"}
  /\ once \in BOOLEAN
  /\ troubles \in 0 .. MaxTroubles

RoundTypes ==
  /\ mpc \in {"tick", "rows", "list", "spawn", "wait", "read", "write", "exit"}
  /\ status \in TargetStatus
  /\ todo \subseteq Runner
  /\ listed \in [Runner -> {"absent", "online", "busy", "offline"}]
  /\ page \in Nat
  /\ held \in 0 .. Max
  /\ goal \in {"active", "queueless"}

WorkTypes ==
  /\ pc \in [Runner -> {"none", "sleep", "unregister", "destroy", "erase",
                        "err", "mend"}]
  /\ cnt \in [Runner -> 0 .. MaxDeleteRetry]

\* Type invariant.
TypeOK == DbTypes /\ WorldTypes /\ ProcTypes /\ RoundTypes /\ WorkTypes

Nobody == [r \in Runner |-> "absent"]

\* An earlier process may have left the target "running".
Init ==
  /\ row = [r \in Runner |-> "none"]
  /\ age = [r \in Runner |-> "young"]
  /\ target \in {"active", "running"}
  /\ inst = Runner
  /\ gh = [r \in Runner |-> "booting"]
  /\ retry = [r \in Runner |-> 0] /\ ctx = "live" /\ once \in Versions
  /\ mpc = "tick" /\ status = "active" /\ todo = {} /\ listed = Nobody
  /\ page = 0 /\ held = 0 /\ goal = "active"
  /\ pc = [r \in Runner |-> "none"] /\ cnt = [r \in Runner |-> 0]
  /\ killed = {} /\ troubles = 0

----------------------------------------------------------------------------
(* External calls fail once their context is done, and before that as      *)
(* often as the bound says.                                                *)

Happens(p) ==
  /\ p \in TroubleAt /\ troubles < MaxTroubles
  /\ troubles' = troubles + 1

Succeeds == ctx = "live" /\ UNCHANGED troubles

Fault(p) ==
  \/ ctx = "done" /\ UNCHANGED troubles
  \/ ctx = "live" /\ Happens(p)

\* CalcRetryTime in seconds, without its jitter of less than one second.
Backoff(n) == IF n = 0 THEN 0 ELSE 2 ^ n

\* The deadline of a removal runs from before its backoff sleep.
Late(r) == Backoff(cnt[r]) >= DeletingTimeout

Works(r) == ~Late(r) /\ Succeeds

Fails(r, p) ==
  \/ Late(r) /\ UNCHANGED troubles
  \/ ~Late(r) /\ Fault(p)

----------------------------------------------------------------------------
(* The environment: starter, runners, clock and other writers.             *)

\* An instance registers itself.
Register(r) ==
  /\ gh[r] = "booting" /\ r \in inst
  /\ gh' = [gh EXCEPT ![r] = "online"]
  /\ UNCHANGED <<db, inst, proc, round, work, killed, troubles>>

\* The starter's CreateRunner; strict mode has seen the runner in GitHub.
Record(r) ==
  /\ row[r] = "none"
  /\ Strict => gh[r] # "booting"
  /\ row' = [row EXCEPT ![r] = "running"]
  /\ UNCHANGED <<age, target, world, proc, round, work, killed, troubles>>

\* A runner takes a job, ends (it leaves GitHub if it is ephemeral and ended
\* well), loses its connection and finds it again.
Live(r) ==
  /\ r \in inst
  /\ \/ gh[r] = "online"
        /\ gh' \in {[gh EXCEPT ![r] = g] : g \in {"busy", "offline"}}
     \/ gh[r] = "busy"
        /\ gh' \in {[gh EXCEPT ![r] = g] : g \in {"gone", "ended"}}
     \/ gh[r] = "offline"
        /\ gh' = [gh EXCEPT ![r] = "online"]
  /\ UNCHANGED <<db, inst, proc, round, work, killed, troubles>>

\* The row of a runner gets older.
Grow(r) ==
  /\ row[r] = "running" /\ age[r] # "overdue"
  /\ age' = [age EXCEPT ![r] = IF @ = "young" THEN "old" ELSE "overdue"]
  /\ UNCHANGED <<row, target, world, proc, round, work, killed, troubles>>

\* The starter and the API write the target's status.
OtherWriter(s) ==
  /\ target' = s
  /\ UNCHANGED <<row, age, world, proc, round, work, killed, troubles>>

----------------------------------------------------------------------------
(* The round.                                                              *)

\* The ticker fires and do lists the targets that can receive jobs.
ListTargets ==
  /\ mpc = "tick" /\ Succeeds
  /\ IF target = "deleted" THEN UNCHANGED <<mpc, status>>
                           ELSE mpc' = "rows" /\ status' = target
  /\ UNCHANGED <<db, world, proc, todo, listed, page, held, goal, work,
                 killed>>

\* removeRunners returns: its variables die.
Return ==
  /\ mpc' = "tick" /\ status' = "active" /\ todo' = {} /\ listed' = Nobody
  /\ page' = 0 /\ held' = 0 /\ goal' = "active"

\* ListRunnersByTargetID.
ListRows ==
  /\ mpc = "rows" /\ Succeeds
  /\ todo' = {r \in Runner : row[r] = "running"}
  /\ mpc' = "list"
  /\ UNCHANGED <<db, world, proc, status, listed, page, held, goal, work,
                 killed>>

Registered == {r \in Runner : gh[r] \in {"online", "busy", "offline", "ended"}}

\* The number of runners that GitHub lists before r.
Position(r) == Cardinality({q \in Registered : q < r})

OnPage(r) == r \in Registered /\ Position(r) \in
                                   page * PerPage .. (page + 1) * PerPage - 1

Heard == [r \in Runner |-> IF ~OnPage(r) THEN listed[r]
                           ELSE IF gh[r] = "ended" THEN "offline" ELSE gh[r]]

NextPage == Cardinality(Registered) > (page + 1) * PerPage

\* One page of ListRunners; the pages are separate requests.
ListPage ==
  /\ mpc = "list" /\ NextPage /\ Succeeds
  /\ listed' = Heard
  /\ page' = page + 1
  /\ UNCHANGED <<db, world, proc, mpc, status, todo, held, goal, work, killed>>

\* The last page: the removals can start.
ListLastPage ==
  /\ mpc = "list" /\ ~NextPage /\ Succeeds
  /\ todo # {} \/ Heard # Nobody
  /\ listed' = Heard
  /\ mpc' = "spawn"
  /\ page' = 0
  /\ UNCHANGED <<db, world, proc, status, todo, held, goal, work, killed>>

\* Neither GitHub nor the database knows a runner of the target.
ListNobody ==
  /\ mpc = "list" /\ ~NextPage /\ Succeeds
  /\ todo = {} /\ Heard = Nobody
  /\ \/ /\ once \/ status = "queueless"
        /\ mpc' = "read" /\ goal' = IF once THEN "queueless" ELSE "active"
        /\ page' = 0
        /\ UNCHANGED <<status, todo, listed, held>>
     \/ ~once /\ status # "queueless" /\ Return
  /\ UNCHANGED <<db, world, proc, work, killed>>

\* ListRunnersByTargetID or a page of ListRunners fails.
ListFails ==
  /\ mpc \in {"rows", "list"} /\ Fault("list")
  /\ Return
  /\ UNCHANGED <<db, world, proc, work, killed>>

\* A goroutine starts on r with the retry count of this moment.
Spawn(r) ==
  /\ mpc = "spawn" /\ ctx = "live"
  /\ r \in todo /\ retry[r] <= MaxDeleteRetry
  /\ held < Max
  /\ held' = held + 1
  /\ todo' = todo \ {r}
  /\ pc' = [pc EXCEPT ![r] = "sleep"]
  /\ cnt' = [cnt EXCEPT ![r] = retry[r]]
  /\ UNCHANGED <<db, world, proc, mpc, status, listed, page, goal, killed,
                 troubles>>

\* r failed too often: it is ignored.
Ignore(r) ==
  /\ mpc = "spawn"
  /\ r \in todo /\ retry[r] > MaxDeleteRetry
  /\ todo' = todo \ {r}
  /\ UNCHANGED <<db, world, proc, mpc, status, listed, page, held, goal, work,
                 killed, troubles>>

\* Acquire fails in a done context: removeRunners returns without waiting for
\* its goroutines, which keep its variables.
AcquireFails ==
  /\ mpc = "spawn" /\ ctx = "done"
  /\ \E r \in todo : retry[r] <= MaxDeleteRetry
  /\ mpc' = "tick"
  /\ UNCHANGED <<db, world, proc, status, todo, listed, page, held, goal, work,
                 killed, troubles>>

SpawnedAll ==
  /\ mpc = "spawn" /\ todo = {}
  /\ mpc' = "wait"
  /\ UNCHANGED <<db, world, proc, status, todo, listed, page, held, goal, work,
                 killed, troubles>>

\* After eg.Wait: a target that was running when the round listed the targets
\* is to become active.
AfterWait ==
  /\ IF status = "running"
       THEN mpc' = "read" /\ listed' = Nobody
            /\ UNCHANGED <<status, todo, page, held, goal>>
       ELSE Return
  /\ UNCHANGED <<db, world, proc, work, killed, troubles>>

\* Mutant: without eg.Wait.
WaitForNobody == mpc = "wait" /\ AfterWait

\* eg.Wait returns.
Wait ==
  /\ mpc = "wait" /\ \A r \in Runner : pc[r] = "none"
  /\ AfterWait

\* UpdateTargetStatus at the end of a round: GetTarget, then the UPDATE.
ReadTarget ==
  /\ mpc = "read" /\ Succeeds
  /\ IF target = "deleted" THEN Return
       ELSE mpc' = "write"
            /\ UNCHANGED <<status, todo, listed, page, held, goal>>
  /\ UNCHANGED <<db, world, proc, work, killed>>

WriteTarget ==
  /\ mpc = "write" /\ Succeeds
  /\ target' = goal
  /\ Return
  /\ UNCHANGED <<row, age, world, proc, work, killed>>

UpdateFails ==
  /\ mpc \in {"read", "write"} /\ Fault("mark")
  /\ Return
  /\ UNCHANGED <<db, world, proc, work, killed>>

LoopExit ==
  /\ mpc = "tick" /\ ctx = "done"
  /\ mpc' = "exit"
  /\ UNCHANGED <<db, world, proc, status, todo, listed, page, held, goal, work,
                 killed, troubles>>

----------------------------------------------------------------------------
(* The goroutine of a runner.                                              *)

\* The goroutine ends: the slot is released and r's count becomes n (0 is
\* DeleteRetryCount.Delete).
Settle(r, n) ==
  /\ pc' = [pc EXCEPT ![r] = "none"]
  /\ cnt' = [cnt EXCEPT ![r] = 0]
  /\ retry' = [retry EXCEPT ![r] = n]
  /\ held' = held - 1

Goto(r, s) ==
  /\ pc' = [pc EXCEPT ![r] = s]
  /\ UNCHANGED <<cnt, retry, held>>

\* Mutant: an idle runner need not reach MustGoalTime.
KeepsBusyRunner(r) == age[r] = "young" \/ listed[r] = "busy"

\* Mutant: a runner that the list lacks is kept.
KeepsUnlistedRunner(r) ==
  \/ age[r] = "young"
  \/ listed[r] \in {"busy", "absent"}
  \/ listed[r] = "online" /\ age[r] # "overdue"

\* After its sleep: sanitizeRunnerMustRunningTime and sanitizeGitHubRunner,
\* with the clock of now and the list of the round.
KeepsRunner(r) ==
  \/ age[r] = "young"
  \/ listed[r] = "busy"
  \/ listed[r] = "online" /\ age[r] # "overdue"

Keep(r) ==
  /\ pc[r] = "sleep" /\ KeepsRunner(r)
  /\ Settle(r, 0)
  /\ UNCHANGED <<db, world, ctx, once, mpc, status, todo, listed, page, goal,
                 killed, troubles>>

\* Mutant: the instance is deleted before the runner leaves GitHub.
DecideToDestroy(r) ==
  /\ pc[r] = "sleep" /\ ~KeepsRunner(r)
  /\ Goto(r, "destroy")
  /\ UNCHANGED <<db, world, ctx, once, mpc, status, todo, listed, page, goal,
                 killed, troubles>>

\* A runner that the list lacks has only its instance and its row left.
Decide(r) ==
  /\ pc[r] = "sleep" /\ ~KeepsRunner(r)
  /\ Goto(r, IF listed[r] = "absent" THEN "destroy" ELSE "unregister")
  /\ UNCHANGED <<db, world, ctx, once, mpc, status, todo, listed, page, goal,
                 killed, troubles>>

\* RemoveRunner or RemoveOrganizationRunner; GitHub refuses to remove a
\* runner that is running a job, and does not find one that has left.
Unregister(r) ==
  /\ pc[r] = "unregister"
  /\ gh[r] \notin {"busy", "gone"}
  /\ gh' = [gh EXCEPT ![r] = "gone"]
  /\ \/ Works(r) /\ Goto(r, "destroy")
     \/ ~Late(r) /\ ctx = "live" /\ Happens("lost") /\ Goto(r, "err")
  /\ UNCHANGED <<db, inst, ctx, once, mpc, status, todo, listed, page, goal,
                 killed>>

UnregisterFails(r) ==
  /\ pc[r] = "unregister"
  /\ \/ gh[r] \in {"busy", "gone"} /\ Works(r)
     \/ Fails(r, "unregister")
  /\ Goto(r, "err")
  /\ UNCHANGED <<db, world, ctx, once, mpc, status, todo, listed, page, goal,
                 killed>>

\* DeleteInstance; an instance that is not found counts as deleted.
Destroy(r) ==
  /\ pc[r] = "destroy"
  /\ inst' = inst \ {r}
  /\ gh' = [gh EXCEPT ![r] = CASE @ \in {"booting", "gone"} -> "gone"
                               [] OTHER -> "ended"]
  /\ killed' = IF gh[r] = "busy" /\ r \in inst THEN killed \cup {r} ELSE killed
  /\ \/ Works(r) /\ Goto(r, "erase")
     \/ ~Late(r) /\ ctx = "live" /\ Happens("lost") /\ Goto(r, "err")
  /\ UNCHANGED <<db, ctx, once, mpc, status, todo, listed, page, goal>>

\* Mutant: a failed DeleteInstance is ignored.
DestroyIgnored(r) ==
  /\ pc[r] = "destroy" /\ Fails(r, "destroy")
  /\ Goto(r, "erase")
  /\ UNCHANGED <<db, world, ctx, once, mpc, status, todo, listed, page, goal,
                 killed>>

DestroyFails(r) ==
  /\ pc[r] = "destroy" /\ Fails(r, "destroy")
  /\ Goto(r, "err")
  /\ UNCHANGED <<db, world, ctx, once, mpc, status, todo, listed, page, goal,
                 killed>>

\* ToReason of the listed status; a runner that the list lacks counts as
\* offline.
ToReason(r) == IF listed[r] = "online" THEN "reach_hard_limit" ELSE "completed"

\* DeleteRunner moves the row to runners_deleted in one transaction; the
\* answer to its commit may be lost.
Erase(r) ==
  /\ pc[r] = "erase"
  /\ row' = [row EXCEPT ![r] = ToReason(r)]
  /\ \/ Works(r) /\ Settle(r, 0)
     \/ ~Late(r) /\ ctx = "live" /\ Happens("lost") /\ Goto(r, "err")
  /\ UNCHANGED <<age, target, world, ctx, once, mpc, status, todo, listed,
                 page, goal, killed>>

EraseFails(r) ==
  /\ pc[r] = "erase" /\ Fails(r, "erase")
  /\ Goto(r, "err")
  /\ UNCHANGED <<db, world, ctx, once, mpc, status, todo, listed, page, goal,
                 killed>>

\* A failed removal marks the target: GetTarget, then the UPDATE.
ReadErr(r) ==
  /\ pc[r] = "err" /\ Works(r) /\ target # "deleted"
  /\ Goto(r, "mend")
  /\ UNCHANGED <<db, world, ctx, once, mpc, status, todo, listed, page, goal,
                 killed>>

WriteErr(r) ==
  /\ pc[r] = "mend" /\ Works(r)
  /\ target' = "error"
  /\ Settle(r, cnt[r] + 1)
  /\ UNCHANGED <<row, age, world, ctx, once, mpc, status, todo, listed, page,
                 goal, killed>>

\* The target is left alone: it is deleted, or the marking fails.
NoErr(r) ==
  /\ \/ pc[r] = "err" /\ Works(r) /\ target = "deleted"
     \/ pc[r] \in {"err", "mend"} /\ Fails(r, "mark")
  /\ Settle(r, cnt[r] + 1)
  /\ UNCHANGED <<db, world, ctx, once, mpc, status, todo, listed, page, goal,
                 killed>>

Worker(r) ==
  \/ Keep(r) \/ Decide(r)
  \/ Unregister(r) \/ UnregisterFails(r)
  \/ Destroy(r) \/ DestroyFails(r)
  \/ Erase(r) \/ EraseFails(r)
  \/ ReadErr(r) \/ WriteErr(r) \/ NoErr(r)

----------------------------------------------------------------------------
(* The process.                                                            *)

\* Another goroutine of the server fails, or a signal arrives.
Stop ==
  /\ ctx = "live" /\ Happens("stop")
  /\ ctx' = "done"
  /\ UNCHANGED <<db, world, retry, once, round, work, killed>>

\* A new process, of any version, takes over with empty memory.
Restart ==
  /\ retry' = [r \in Runner |-> 0] /\ ctx' = "live" /\ once' \in Versions
  /\ mpc' = "tick" /\ status' = "active" /\ todo' = {} /\ listed' = Nobody
  /\ page' = 0 /\ held' = 0 /\ goal' = "active"
  /\ pc' = [r \in Runner |-> "none"] /\ cnt' = [r \in Runner |-> 0]
  /\ UNCHANGED <<db, world, killed>>

Reboot == mpc = "exit" /\ Restart /\ UNCHANGED troubles

Crash == Happens("crash") /\ Restart

Listing ==
  \/ ListTargets \/ ListRows \/ ListPage \/ ListLastPage \/ ListNobody
  \/ ListFails

Spawning ==
  \/ \E r \in Runner : Spawn(r) \/ Ignore(r)
  \/ AcquireFails \/ SpawnedAll

Finishing == Wait \/ ReadTarget \/ WriteTarget \/ UpdateFails \/ LoopExit

Round == Listing \/ Spawning \/ Finishing \/ Reboot

Environment ==
  \/ \E r \in Runner : Register(r) \/ Record(r) \/ Live(r) \/ Grow(r)
  \/ \E s \in OtherStatus : OtherWriter(s)

Next == Round \/ (\E r \in Runner : Worker(r)) \/ Environment \/ Stop \/ Crash

Spec == Init /\ [][Next]_vars

\* Goroutines and the clock go on; nothing makes a runner take or end a job,
\* and no trouble has to happen.
FairSpec ==
  /\ Spec
  /\ WF_vars(Round)
  /\ \A r \in Runner : WF_vars(Worker(r)) /\ WF_vars(Grow(r))

----------------------------------------------------------------------------
(* Properties.                                                             *)

Active == {r \in Runner : pc[r] # "none"}

\* At most Max removals are under way, although every round makes a
\* semaphore of its own (removeRunners).
RemovalsBounded == Cardinality(Active) <= Max

\* Strict mode, all runners on one page: however old the list is that a
\* removal decides on, and whatever the runner did since, no instance is
\* deleted while it runs a job (sanitizeGitHubRunner, removeRunnerMode*).
NoJobKilled == killed = {}

\* Whatever the constants: a removal that reaches the provider has taken the
\* runner out of GitHub, where it can get no job any more, unless the list of
\* the round lacked it (deleteRunnerWithGitHub).
UnregisteredFirst ==
  \A r \in Runner :
    pc[r] \in {"destroy", "erase"} /\ listed[r] # "absent" => gh[r] = "gone"

Removed(r) == row[r] \in Reason

\* Strict mode, all runners on one page: once the row is gone nothing is
\* left of the runner, neither an instance nor a registration, whatever
\* failed or crashed on the way (deleteRunnerWithGitHub, deleteRunner).
NothingLeft == \A r \in Runner : Removed(r) => r \notin inst /\ gh[r] = "gone"

\* The recorded reason is true of the runner when it is read against the
\* clock: no row goes before MustRunningTime, and none is recorded as having
\* reached the hard limit before MustGoalTime (ToReason).
ReasonHolds ==
  \A r \in Runner :
    /\ Removed(r) => age[r] # "young"
    /\ row[r] = "reach_hard_limit" => age[r] = "overdue"

\* The rows and the instances go through the steps of RunnerLifecycle.
record ==
  [r \in Runner |-> IF Removed(r) THEN "removed" ELSE row[r]]

Lifecycle == INSTANCE RunnerLifecycle
               WITH Runner <- Runner, record <- record, instances <- inst

\* The runner manager implements RunnerLifecycle: of removals that are cut
\* short, repeated or left behind by a cancelled round, none deletes the
\* instance of a runner that is not recorded, or the row of one that has an
\* instance.
ImplementsLifecycle == Lifecycle!Spec

Ended(r) == row[r] = "running" /\ gh[r] \in {"ended", "gone"}

\* A runner that has ended is removed, unless its retries run out or its
\* target is deleted (do, removeRunners).
EndedIsRemoved ==
  \A r \in Runner :
    Ended(r) ~> (Removed(r) \/ retry[r] > MaxDeleteRetry
                            \/ target = "deleted")

\* "MaxDeleteRetry is max retry count of delete runner": while no more than
\* MaxDeleteRetry calls fail, an ended runner is removed.
RetriesSuffice == \A r \in Runner : Ended(r) ~> Removed(r)
=============================================================================
