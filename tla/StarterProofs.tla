--------------------------- MODULE StarterProofs ---------------------------
(***************************************************************************)
(* Theorems about Starter, for every value of its constants.               *)
(*                                                                         *)
(* Layout: frame lemmas say what whole groups of actions leave alone; then *)
(* type correctness; then the inductive invariants                         *)
(*   Slots      the semaphore, by counting the goroutines that hold a slot *)
(*   Exclusion  at most one goroutine and one handover per job, with the   *)
(*              freshness of the retry counts                              *)
(*   Safekeeping  where a job that was inserted can be found               *)
(*   Strictness strict mode, and NoLostWakeup, which is inductive alone    *)
(* and what follows from them, up to the refinement of JobLifecycle.       *)
(***************************************************************************)
EXTENDS Starter, FiniteSetTheorems, TLAPS

USE DEF db, cloud, chan, disp, runl, work, hist

\* The states of a worker, one by one (WorkerPc is kept closed elsewhere).
LEMMA WorkerStates ==
  {"idle", "sleep", "mark", "add", "check", "drop", "save", "delete",
   "reject", "err", "mend", "fail", "ok", "release", "unmark"}
     \subseteq WorkerPc
  BY DEF WorkerPc, Holding

\* What webhooks, the dispatcher, the environment and a cancellation never
\* touch: the shared maps, the semaphore, run and the workers.
LEMMA OutsideFrame ==
  ASSUME Webhook \/ Dispatcher \/ Environment \/ Stop
  PROVE  UNCHANGED <<runners, made, live, inProgress, retry, held, runl,
                     work, rejected>>
<1>1. CASE Webhook
  BY <1>1 DEF Webhook, Enqueue, Notify
<1>2. CASE Dispatcher
  BY <1>2 DEF Dispatcher, Tick, TakeNotify, List, ListFails, DispatcherExit
<1>3. CASE Environment
  BY <1>3 DEF Environment, Register, OtherWriter
<1>4. CASE Stop
  BY <1>4 DEF Stop
<1> QED
  BY <1>1, <1>2, <1>3, <1>4

\* What the run loop never touches: the database, the cloud and the history.
LEMMA RunFrame ==
  ASSUME Run
  PROVE  UNCHANGED <<db, cloud, chan, retry, ctx, hist, troubles>>
  BY DEF Run, Skip, Receive, Spawn, RunExit

\* A step of ProcessJob moves one worker between states in which it holds
\* its slot and its mark, and touches no memory but the retry counts.
LEMMA ProcessJobFrame ==
  ASSUME WorkerTypes, NEW w \in Worker, Progress(w) \/ Failure(w)
  PROVE  /\ pc[w] \in Holding \ {"release"}
         /\ \E s \in Holding : pc' = [pc EXCEPT ![w] = s]
         /\ UNCHANGED <<wjob, wcnt>>
         /\ Elsewhere
<1> USE DEF Holding, Goto
<1>1. CASE Progress(w)
  BY <1>1 DEF Progress, ReadTarget, Mark, Add, AddInvalid, Reject, Check, Drop,
     Save, SaveDuplicate, Delete, Err, Mend, SettleFailure, SettleSuccess
<1>2. CASE Failure(w)
  BY <1>2 DEF Failure, MarkFails, AddFails, AddLost, RejectFails, CheckFails,
     DropFails, SaveFails, DeleteFails
<1> QED
  BY <1>1, <1>2

\* The deferred function of a worker touches nothing outside the semaphore,
\* the marks and the worker.
LEMMA FinishFrame ==
  ASSUME NEW w \in Worker, Finish(w)
  PROVE  UNCHANGED <<db, cloud, chan, retry, ctx, disp, runl, hist, troubles>>
  BY DEF Finish, Release, Unmark, Vanish

\* A restart, voluntary or not, keeps the database and the cloud.
LEMMA RestartFrame ==
  ASSUME Restart \/ Crash
  PROVE  Reboot
  BY DEF Restart, Crash

----------------------------------------------------------------------------
(* Type correctness.                                                       *)

\* The database keeps its types in every step.
LEMMA NextDbTypes == ASSUME TypeOK, Next PROVE DbTypes'
<1> USE ConstantsAssumption DEF TypeOK, DbTypes
<1>1. CASE Webhook
  BY <1>1 DEF Webhook, Enqueue, Notify
<1>2. CASE Dispatcher \/ Stop
  BY <1>2 DEF Dispatcher, Tick, TakeNotify, List, ListFails, DispatcherExit,
     Stop
<1>3. CASE Run
  BY <1>3, RunFrame
<1>4. ASSUME NEW w \in Worker, Progress(w) PROVE DbTypes'
  BY <1>4 DEF Progress, ReadTarget, Mark, Add, AddInvalid, Reject, Check, Drop,
     Save, SaveDuplicate, Delete, Err, Mend, SettleFailure, SettleSuccess,
     Goto, WorkerTypes, TargetStatus
<1>5. ASSUME NEW w \in Worker, Failure(w) PROVE DbTypes'
  BY <1>5 DEF Failure, MarkFails, AddFails, AddLost, RejectFails, CheckFails,
     DropFails, SaveFails, DeleteFails, Goto, WorkerTypes, TargetStatus
<1>6. ASSUME NEW w \in Worker, Finish(w) PROVE DbTypes'
  BY <1>6, FinishFrame
<1>7. CASE Environment
  BY <1>7 DEF Environment, Register, OtherWriter, TargetStatus
<1>8. CASE Restart \/ Crash
  BY <1>8, RestartFrame DEF Reboot
<1> QED
  BY <1>1, <1>2, <1>3, <1>4, <1>5, <1>6, <1>7, <1>8 DEF Next

\* Instance numbers stay within their bound.
LEMMA NextCloudTypes == ASSUME TypeOK, Next PROVE CloudTypes'
<1> USE ConstantsAssumption DEF TypeOK, CloudTypes
<1>1. CASE Webhook
  BY <1>1 DEF Webhook, Enqueue, Notify
<1>2. CASE Dispatcher \/ Stop
  BY <1>2 DEF Dispatcher, Tick, TakeNotify, List, ListFails, DispatcherExit,
     Stop
<1>3. CASE Run
  BY <1>3, RunFrame
<1>4. ASSUME NEW w \in Worker, Progress(w) PROVE CloudTypes'
  BY <1>4 DEF Progress, ReadTarget, Mark, Add, AddInvalid, Reject, Check, Drop,
     Save, SaveDuplicate, Delete, Err, Mend, SettleFailure, SettleSuccess,
     Goto, WorkerTypes, Instance, NextInst, Create
<1>5. ASSUME NEW w \in Worker, Failure(w) PROVE CloudTypes'
  BY <1>5 DEF Failure, MarkFails, AddFails, AddLost, RejectFails, CheckFails,
     DropFails, SaveFails, DeleteFails, Goto, WorkerTypes, Instance,
     NextInst, Create
<1>6. ASSUME NEW w \in Worker, Finish(w) PROVE CloudTypes'
  BY <1>6, FinishFrame
<1>7. CASE Environment
  BY <1>7 DEF Environment, Register, OtherWriter, Instance
<1>8. CASE Restart \/ Crash
  BY <1>8, RestartFrame DEF Reboot
<1> QED
  BY <1>1, <1>2, <1>3, <1>4, <1>5, <1>6, <1>7, <1>8 DEF Next

\* The shared memory keeps its types.
LEMMA NextMemoryTypes == ASSUME TypeOK, Next PROVE MemoryTypes'
<1> USE ConstantsAssumption DEF TypeOK, MemoryTypes
<1>1. CASE Webhook
  BY <1>1 DEF Webhook, Enqueue, Notify
<1>2. CASE Dispatcher \/ Stop
  BY <1>2 DEF Dispatcher, Tick, TakeNotify, List, ListFails, DispatcherExit,
     Stop
<1>3. CASE Run
  BY <1>3 DEF Run, Skip, Receive, Spawn, RunExit, LoopTypes
<1>4. ASSUME NEW w \in Worker, Progress(w) PROVE MemoryTypes'
  BY <1>4 DEF Progress, ReadTarget, Mark, Add, AddInvalid, Reject, Check, Drop,
     Save, SaveDuplicate, Delete, Err, Mend, SettleFailure, SettleSuccess,
     Elsewhere, Goto, WorkerTypes
<1>5. ASSUME NEW w \in Worker, Failure(w) PROVE MemoryTypes'
  BY <1>5 DEF Failure, MarkFails, AddFails, AddLost, RejectFails, CheckFails,
     DropFails, SaveFails, DeleteFails, Elsewhere
<1>6. ASSUME NEW w \in Worker, Finish(w) PROVE MemoryTypes'
  BY <1>6 DEF Finish, Release, Unmark, Vanish
<1>7. CASE Environment
  BY <1>7 DEF Environment, Register, OtherWriter
<1>8. CASE Restart \/ Crash
  BY <1>8, RestartFrame DEF Reboot
<1> QED
  BY <1>1, <1>2, <1>3, <1>4, <1>5, <1>6, <1>7, <1>8 DEF Next

\* The two loops keep theirs: a job that waits for a slot is a job.
LEMMA NextLoopTypes == ASSUME TypeOK, Next PROVE LoopTypes'
<1> USE ConstantsAssumption DEF TypeOK, LoopTypes
<1>1. CASE Webhook
  BY <1>1 DEF Webhook, Enqueue, Notify
<1>2. CASE Dispatcher \/ Stop
  BY <1>2 DEF Dispatcher, Tick, TakeNotify, List, ListFails, DispatcherExit,
     Stop, DbTypes
<1>3. CASE Run
  BY <1>3 DEF Run, Skip, Receive, Handover, Spawn, RunExit, MemoryTypes
<1>4. ASSUME NEW w \in Worker, Progress(w) \/ Failure(w) PROVE LoopTypes'
  BY <1>4, ProcessJobFrame DEF Elsewhere
<1>5. ASSUME NEW w \in Worker, Finish(w) PROVE LoopTypes'
  BY <1>5, FinishFrame
<1>6. CASE Environment
  BY <1>6 DEF Environment, Register, OtherWriter
<1>7. CASE Restart \/ Crash
  BY <1>7, RestartFrame DEF Reboot
<1> QED
  BY <1>1, <1>2, <1>3, <1>4, <1>5, <1>6, <1>7 DEF Next

\* A worker that is not idle has a job.
LEMMA NextWorkerTypes == ASSUME TypeOK, Next PROVE WorkerTypes'
<1> USE ConstantsAssumption, WorkerStates DEF TypeOK, WorkerTypes
<1>1. CASE Webhook \/ Dispatcher \/ Environment \/ Stop
  BY <1>1, OutsideFrame
<1>2. CASE Run
  BY <1>2 DEF Run, Skip, Receive, Spawn, RunExit, LoopTypes
<1>3. ASSUME NEW w \in Worker, Progress(w) PROVE WorkerTypes'
  BY <1>3 DEF Progress, ReadTarget, Mark, Add, AddInvalid, Reject, Check, Drop,
     Save, SaveDuplicate, Delete, Err, Mend, SettleFailure, SettleSuccess,
     CloudTypes, Goto, NextInst
<1>4. ASSUME NEW w \in Worker, Failure(w) PROVE WorkerTypes'
  BY <1>4 DEF Failure, MarkFails, AddFails, AddLost, RejectFails, CheckFails,
     DropFails, SaveFails, DeleteFails, Goto
<1>5. ASSUME NEW w \in Worker, Finish(w) PROVE WorkerTypes'
  BY <1>5 DEF Finish, Release, Unmark, Vanish
<1>6. CASE Restart \/ Crash
  BY <1>6, RestartFrame DEF Reboot
<1> QED
  BY <1>1, <1>2, <1>3, <1>4, <1>5, <1>6 DEF Next

\* Troubles stay within their bound.
LEMMA NextHistoryTypes == ASSUME TypeOK, Next PROVE HistoryTypes'
<1> USE ConstantsAssumption DEF TypeOK, HistoryTypes, Succeeds, Fault, Happens
<1>1. CASE Webhook
  BY <1>1 DEF Webhook, Enqueue, Notify
<1>2. CASE Dispatcher \/ Stop
  BY <1>2 DEF Dispatcher, Tick, TakeNotify, List, ListFails, DispatcherExit,
     Stop
<1>3. CASE Run
  BY <1>3, RunFrame
<1>4. ASSUME NEW w \in Worker, Progress(w) PROVE HistoryTypes'
  BY <1>4 DEF Progress, ReadTarget, Mark, Add, AddInvalid, Reject, Check, Drop,
     Save, SaveDuplicate, Delete, Err, Mend, SettleFailure, SettleSuccess,
     Elsewhere, Goto, WorkerTypes
<1>5. ASSUME NEW w \in Worker, Failure(w) PROVE HistoryTypes'
  BY <1>5 DEF Failure, MarkFails, AddFails, AddLost, RejectFails, CheckFails,
     DropFails, SaveFails, DeleteFails, Elsewhere, Goto, WorkerTypes
<1>6. ASSUME NEW w \in Worker, Finish(w) PROVE HistoryTypes'
  BY <1>6, FinishFrame
<1>7. CASE Environment
  BY <1>7 DEF Environment, Register, OtherWriter
<1>8. CASE Restart \/ Crash
  BY <1>8 DEF Restart, Crash, Reboot
<1> QED
  BY <1>1, <1>2, <1>3, <1>4, <1>5, <1>6, <1>7, <1>8 DEF Next

\* Type correctness: every reachable state of the starter is well typed, in
\* particular a goroutine that runs has a job and run waits with a job.
THEOREM TypeCorrect == Spec => []TypeOK
<1>1. Init => TypeOK
  <2> SUFFICES ASSUME Init PROVE TypeOK
    OBVIOUS
  <2> USE ConstantsAssumption, WorkerStates DEF Init
  <2>1. DbTypes /\ CloudTypes
    BY DEF DbTypes, CloudTypes, TargetStatus
  <2>2. MemoryTypes /\ LoopTypes
    BY DEF MemoryTypes, LoopTypes
  <2>3. WorkerTypes /\ HistoryTypes
    BY DEF WorkerTypes, HistoryTypes
  <2> QED
    BY <2>1, <2>2, <2>3 DEF TypeOK
<1>2. TypeOK /\ [Next]_vars => TypeOK'
  <2>1. ASSUME TypeOK, Next PROVE TypeOK'
    BY <2>1, NextDbTypes, NextCloudTypes, NextMemoryTypes, NextLoopTypes,
       NextWorkerTypes, NextHistoryTypes DEF TypeOK
  <2>2. ASSUME TypeOK, UNCHANGED vars PROVE TypeOK'
    BY <2>2 DEF vars, TypeOK, DbTypes, CloudTypes, MemoryTypes, LoopTypes,
       WorkerTypes, HistoryTypes
  <2> QED
    BY <2>1, <2>2
<1> QED
  BY <1>1, <1>2, PTL DEF Spec

----------------------------------------------------------------------------
(* Slots: the semaphore.                                                   *)

\* The workers that hold a slot.
Holders == {w \in Worker : pc[w] \in Holding}

\* Slot counting survives every step: each action adds a worker to the
\* holders and takes a slot, removes one and releases a slot, or neither.
LEMMA NextSlots ==
  ASSUME TypeOK, SlotsMatchWorkers, Next PROVE SlotsMatchWorkers'
<1> USE ConstantsAssumption
<1>1. IsFiniteSet(Holders) /\ Cardinality(Holders) \in Nat
  BY FS_Subset, FS_CardinalityType DEF Holders
<1>2. held = Cardinality(Holders) /\ Cardinality(Holders) <= Max
  BY DEF SlotsMatchWorkers, Holders
<1>3. SUFFICES held' = Cardinality(Holders') /\ Cardinality(Holders') <= Max
  BY DEF SlotsMatchWorkers, Holders
<1>4. ASSUME UNCHANGED held, Holders' = Holders
      PROVE  held' = Cardinality(Holders') /\ Cardinality(Holders') <= Max
  BY <1>2, <1>4
<1>5. CASE Webhook \/ Dispatcher \/ Environment \/ Stop
  BY <1>5, <1>4, OutsideFrame DEF Holders
<1>6. ASSUME NEW w \in Worker, Spawn(w)
      PROVE  held' = Cardinality(Holders') /\ Cardinality(Holders') <= Max
  <2>1. Holders' = Holders \cup {w} /\ w \notin Holders
    BY <1>6 DEF Spawn, Holders, Holding, TypeOK, WorkerTypes
  <2>2. Cardinality(Holders') = Cardinality(Holders) + 1
    BY <1>1, <2>1, FS_AddElement
  <2>3. held' = held + 1 /\ held < Max
    BY <1>6 DEF Spawn
  <2> QED
    BY <1>1, <1>2, <2>2, <2>3
<1>7. CASE Run
  <2>1. CASE (\E j \in Job : Skip(j) \/ Receive(j)) \/ RunExit
    BY <2>1, <1>4 DEF Skip, Receive, RunExit, Holders
  <2> QED
    BY <1>6, <1>7, <2>1 DEF Run
<1>8. ASSUME NEW w \in Worker, Progress(w) \/ Failure(w)
      PROVE  held' = Cardinality(Holders') /\ Cardinality(Holders') <= Max
  <2>1. /\ pc[w] \in Holding /\ UNCHANGED held
        /\ \E s \in Holding : pc' = [pc EXCEPT ![w] = s]
    BY <1>8, ProcessJobFrame DEF TypeOK, Elsewhere
  <2>2. Holders' = Holders
    BY <2>1 DEF Holders, TypeOK, WorkerTypes
  <2> QED
    BY <1>4, <2>1, <2>2
<1>9. ASSUME NEW w \in Worker, Finish(w)
      PROVE  held' = Cardinality(Holders') /\ Cardinality(Holders') <= Max
  <2>1. CASE Release(w)
    <3>1. Holders' = Holders \ {w} /\ w \in Holders
      BY <2>1 DEF Release, Holders, Holding, TypeOK, WorkerTypes
    <3>2. Cardinality(Holders') = Cardinality(Holders) - 1
      BY <1>1, <3>1, FS_RemoveElement
    <3> QED
      BY <1>1, <1>2, <2>1, <3>2 DEF Release
  <2>2. CASE Unmark(w)
    <3>1. Holders' = Holders
      BY <2>2 DEF Unmark, Vanish, Holders, Holding, TypeOK, WorkerTypes
    <3> QED
      BY <1>4, <2>2, <3>1 DEF Unmark
  <2> QED
    BY <1>9, <2>1, <2>2 DEF Finish
<1>10. CASE Restart \/ Crash
  <2>1. Holders' = {} /\ held' = 0
    BY <1>10, RestartFrame DEF Reboot, Holders, Holding
  <2> QED
    BY <2>1, FS_EmptySet
<1> QED
  BY <1>5, <1>7, <1>8, <1>9, <1>10 DEF Next

\* The semaphore of run counts exactly the goroutines between their spawn
\* and sem.Release, and never more than MaxConnectionsToBackend of them.
THEOREM SlotsCorrect == Spec => []SlotsMatchWorkers
<1>1. Init => SlotsMatchWorkers
  <2> SUFFICES ASSUME Init PROVE SlotsMatchWorkers
    OBVIOUS
  <2>1. Holders = {} /\ held = 0
    BY DEF Init, Holders, Holding
  <2> QED
    BY <2>1, FS_EmptySet, ConstantsAssumption DEF SlotsMatchWorkers, Holders
<1>2. TypeOK /\ SlotsMatchWorkers /\ [Next]_vars => SlotsMatchWorkers'
  BY NextSlots DEF vars, SlotsMatchWorkers
<1> QED
  BY <1>1, <1>2, TypeCorrect, PTL DEF Spec

----------------------------------------------------------------------------
(* Exclusion: one goroutine per job, and fresh retry counts.               *)

Exclusion == InProgressExact /\ OneWorkerPerJob /\ RetryCountFresh

\* The marked jobs follow the workers in every step.
LEMMA NextInProgress ==
  ASSUME TypeOK, Exclusion, Next PROVE InProgressExact'
<1> USE DEF Exclusion, InProgressExact, TypeOK, WorkerTypes
<1>1. CASE Webhook \/ Dispatcher \/ Environment \/ Stop
  BY <1>1, OutsideFrame
<1>2. ASSUME NEW w \in Worker, Spawn(w) PROVE InProgressExact'
  BY <1>2 DEF Spawn, Holding
<1>3. CASE (\E j \in Job : Skip(j) \/ Receive(j)) \/ RunExit
  BY <1>3 DEF Skip, Receive, RunExit
<1>4. ASSUME NEW w \in Worker, Progress(w) \/ Failure(w)
      PROVE  InProgressExact'
  <2>1. /\ pc[w] \in Holding /\ UNCHANGED <<wjob, inProgress>>
        /\ \E s \in Holding : pc' = [pc EXCEPT ![w] = s]
    BY <1>4, ProcessJobFrame DEF Elsewhere
  <2> QED
    BY <2>1 DEF Holding
<1>5. ASSUME NEW w \in Worker, Release(w) PROVE InProgressExact'
  BY <1>5 DEF Release, Holding
<1>6. ASSUME NEW w \in Worker, Unmark(w) PROVE InProgressExact'
  BY <1>6 DEF Unmark, Vanish, OneWorkerPerJob
<1>7. CASE Restart \/ Crash
  BY <1>7, RestartFrame DEF Reboot
<1> QED
  BY <1>1, <1>2, <1>3, <1>4, <1>5, <1>6, <1>7 DEF Next, Run, Finish

\* No step gives a job a second goroutine: run looks the job up in
\* inProgress before it waits, and nobody else marks jobs.
LEMMA NextOneWorker ==
  ASSUME TypeOK, Exclusion, Next PROVE OneWorkerPerJob'
<1> USE DEF Exclusion, OneWorkerPerJob, TypeOK, WorkerTypes
<1>1. CASE Webhook \/ Dispatcher \/ Environment \/ Stop
  BY <1>1, OutsideFrame
<1>2. ASSUME NEW w \in Worker, Spawn(w) PROVE OneWorkerPerJob'
  BY <1>2 DEF Spawn
<1>3. ASSUME NEW j \in Job, Skip(j) PROVE OneWorkerPerJob'
  BY <1>3 DEF Skip
<1>4. ASSUME NEW j \in Job, Receive(j) PROVE OneWorkerPerJob'
  BY <1>4 DEF Receive, InProgressExact
<1>5. CASE RunExit
  BY <1>5 DEF RunExit
<1>6. ASSUME NEW w \in Worker, Progress(w) \/ Failure(w)
      PROVE  OneWorkerPerJob'
  <2>1. /\ pc[w] \in Holding /\ UNCHANGED <<wjob, rpc, rjob>>
        /\ \E s \in Holding : pc' = [pc EXCEPT ![w] = s]
    BY <1>6, ProcessJobFrame DEF Elsewhere
  <2> QED
    BY <2>1 DEF Holding
<1>7. ASSUME NEW w \in Worker, Finish(w) PROVE OneWorkerPerJob'
  BY <1>7 DEF Finish, Release, Unmark, Vanish, Holding
<1>8. CASE Restart \/ Crash
  BY <1>8, RestartFrame DEF Reboot, Holding
<1> QED
  BY <1>1, <1>2, <1>3, <1>4, <1>5, <1>6, <1>7, <1>8 DEF Next, Run

\* A goroutine changes the retry count of its own job only, and no other
\* goroutine and no handover has read the count of that job.
LEMMA NextRetry ==
  ASSUME TypeOK, Exclusion, Next PROVE RetryCountFresh'
<1> USE DEF Exclusion, RetryCountFresh, TypeOK, WorkerTypes
<1>1. CASE Webhook \/ Dispatcher \/ Environment \/ Stop
  BY <1>1, OutsideFrame
<1>2. ASSUME NEW w \in Worker, Spawn(w) PROVE RetryCountFresh'
  BY <1>2 DEF Spawn
<1>3. CASE (\E j \in Job : Skip(j) \/ Receive(j)) \/ RunExit
  BY <1>3 DEF Skip, Receive, RunExit
<1>4. ASSUME NEW w \in Worker, SettleFailure(w) \/ SettleSuccess(w)
      PROVE  RetryCountFresh'
  BY <1>4 DEF SettleFailure, SettleSuccess, Goto, Elsewhere, OneWorkerPerJob,
      Holding, LoopTypes, MemoryTypes
<1>5. ASSUME NEW w \in Worker, Progress(w) \/ Failure(w),
             ~ (SettleFailure(w) \/ SettleSuccess(w))
      PROVE  RetryCountFresh'
  <2>1. /\ pc[w] \in Holding \ {"release"}
        /\ UNCHANGED <<wjob, wcnt, rpc, rjob, rcnt>>
        /\ \E s \in Holding : pc' = [pc EXCEPT ![w] = s]
    BY <1>5, ProcessJobFrame DEF Elsewhere
  <2>2. UNCHANGED retry
    BY <1>5 DEF Progress, Failure, ReadTarget, Mark, Add, AddInvalid, Reject,
       Check, Drop, Save, SaveDuplicate, Delete, Err, Mend, MarkFails,
       AddFails, AddLost, RejectFails, CheckFails, DropFails, SaveFails,
       DeleteFails
  <2> QED
    BY <2>1, <2>2
<1>6. ASSUME NEW w \in Worker, Finish(w) PROVE RetryCountFresh'
  BY <1>6 DEF Finish, Release, Unmark, Vanish, Holding
<1>7. CASE Restart \/ Crash
  BY <1>7, RestartFrame DEF Reboot, Holding
<1> QED
  BY <1>1, <1>2, <1>3, <1>4, <1>5, <1>6, <1>7 DEF Next, Run

\* The three hold together from the start.
LEMMA ExclusionInductive == Spec => []Exclusion
<1>1. Init => Exclusion
  BY DEF Init, Exclusion, InProgressExact, OneWorkerPerJob, RetryCountFresh,
      Holding
<1>2. TypeOK /\ Exclusion /\ [Next]_vars => Exclusion'
  <2>1. ASSUME TypeOK, Exclusion, Next PROVE Exclusion'
    BY <2>1, NextInProgress, NextOneWorker, NextRetry DEF Exclusion
  <2>2. ASSUME Exclusion, UNCHANGED vars PROVE Exclusion'
    BY <2>2 DEF vars, Exclusion, InProgressExact, OneWorkerPerJob,
       RetryCountFresh
  <2> QED
    BY <2>1, <2>2
<1> QED
  BY <1>1, <1>2, TypeCorrect, PTL DEF Spec

\* inProgress holds exactly the jobs of the goroutines that have not passed
\* inProgress.Delete: no mark outlives its goroutine and blocks a job.
THEOREM MarksCorrect == Spec => []InProgressExact
<1>1. Exclusion => InProgressExact
  BY DEF Exclusion
<1> QED
  BY <1>1, ExclusionInductive, PTL

\* However stale the dispatcher's copies are, and although the slot goes
\* back before the mark, no two goroutines ever process one job.
THEOREM ExclusionCorrect == Spec => []OneWorkerPerJob
<1>1. Exclusion => OneWorkerPerJob
  BY DEF Exclusion
<1> QED
  BY <1>1, ExclusionInductive, PTL

\* The count that run read before it waited for a slot is still current when
\* the goroutine stores count+1: no failure is forgotten.
THEOREM RetryCorrect == Spec => []RetryCountFresh
<1>1. Exclusion => RetryCountFresh
  BY DEF Exclusion
<1> QED
  BY <1>1, ExclusionInductive, PTL

----------------------------------------------------------------------------
(* Safekeeping: where an inserted job can be found.                        *)

\* Every copy of a job, in memory or in the database, is of an inserted job.
OnlySeen ==
  /\ jobs \cup pending \cup rejected \subseteq seen
  /\ rpc = "acquire" => rjob \in seen
  /\ \A w \in Worker : pc[w] # "idle" => wjob[w] \in seen
  /\ \A j \in Job : runners[j] # 0 => j \in seen

\* What ProcessJob knows at each point: an instance to record, a recorded
\* runner before the job is deleted, and the provider's verdict.
KnownByWorker ==
  \A w \in Worker :
    /\ pc[w] \in {"check", "drop", "save"} => winst[w] # 0
    /\ pc[w] = "delete" => runners[wjob[w]] # 0
    /\ pc[w] \in {"check", "drop", "save", "delete"} => wjob[w] \notin Invalid
    /\ pc[w] = "reject" => wjob[w] \in Invalid

\* A job is served or rejected, never both.
OneVerdict ==
  /\ \A j \in Job : runners[j] # 0 => j \notin Invalid
  /\ rejected \subseteq Invalid

Safekeeping == OnlySeen /\ KnownByWorker /\ OneVerdict /\ NoJobLost

\* Jobs are copied from the queue only, and never forgotten by the history.
LEMMA NextOnlySeen ==
  ASSUME TypeOK, Safekeeping, Next PROVE OnlySeen'
<1> USE DEF Safekeeping, OnlySeen, TypeOK, WorkerTypes
<1>1. CASE Webhook
  BY <1>1 DEF Webhook, Enqueue, Notify
<1>2. CASE Dispatcher \/ Stop
  BY <1>2 DEF Dispatcher, Tick, TakeNotify, List, ListFails, DispatcherExit,
     Stop
<1>3. CASE Run
  BY <1>3 DEF Run, Skip, Receive, Handover, Spawn, RunExit
<1>4. ASSUME NEW w \in Worker, Progress(w) \/ Failure(w) PROVE OnlySeen'
  <2>1. /\ pc[w] # "idle" /\ UNCHANGED <<wjob, rpc, rjob, pending, seen>>
        /\ \A v \in Worker : pc'[v] # "idle" => pc[v] # "idle"
    BY <1>4, ProcessJobFrame DEF Elsewhere, Holding
  <2>2. /\ jobs' \subseteq jobs
        /\ rejected' \subseteq rejected \cup {wjob[w]}
        /\ \A j \in Job : j # wjob[w] => runners'[j] = runners[j]
    <3>1. CASE Progress(w)
      BY <3>1 DEF Progress, ReadTarget, Mark, Add, AddInvalid, Reject, Check,
         Drop, Save, SaveDuplicate, Delete, Err, Mend, SettleFailure,
         SettleSuccess, DbTypes
    <3>2. CASE Failure(w)
      BY <3>2 DEF Failure, MarkFails, AddFails, AddLost, RejectFails,
         CheckFails, DropFails, SaveFails, DeleteFails, DbTypes
    <3> QED
      BY <1>4, <3>1, <3>2
  <2> QED
    BY <2>1, <2>2
<1>5. ASSUME NEW w \in Worker, Finish(w) PROVE OnlySeen'
  BY <1>5 DEF Finish, Release, Unmark, Vanish
<1>6. CASE Environment
  BY <1>6 DEF Environment, Register, OtherWriter
<1>7. CASE Restart \/ Crash
  BY <1>7, RestartFrame DEF Reboot
<1> QED
  BY <1>1, <1>2, <1>3, <1>4, <1>5, <1>6, <1>7 DEF Next

\* ProcessJob's knowledge is not undone by anyone: runners are not deleted
\* here, and a job keeps its labels.
LEMMA NextKnown ==
  ASSUME TypeOK, Safekeeping, Next PROVE KnownByWorker'
<1> USE ConstantsAssumption
    DEF Safekeeping, KnownByWorker, TypeOK, WorkerTypes
<1>1. CASE Webhook \/ Dispatcher \/ Environment \/ Stop
  BY <1>1, OutsideFrame
<1>2. CASE Run
  BY <1>2 DEF Run, Skip, Receive, Spawn, RunExit
<1>3. ASSUME NEW w \in Worker, Progress(w) PROVE KnownByWorker'
  BY <1>3 DEF Progress, ReadTarget, Mark, Add, AddInvalid, Reject, Check, Drop,
     Save, SaveDuplicate, Delete, Err, Mend, SettleFailure, SettleSuccess,
     Goto, NextInst, DbTypes, CloudTypes
<1>4. ASSUME NEW w \in Worker, Failure(w) PROVE KnownByWorker'
  BY <1>4 DEF Failure, MarkFails, AddFails, AddLost, RejectFails, CheckFails,
     DropFails, SaveFails, DeleteFails, Goto, DbTypes
<1>5. ASSUME NEW w \in Worker, Finish(w) PROVE KnownByWorker'
  BY <1>5 DEF Finish, Release, Unmark, Vanish
<1>6. CASE Restart \/ Crash
  BY <1>6, RestartFrame DEF Reboot
<1> QED
  BY <1>1, <1>2, <1>3, <1>4, <1>5, <1>6 DEF Next

\* Only workers give verdicts, and by what they know.
LEMMA NextVerdict ==
  ASSUME TypeOK, Safekeeping, Next PROVE OneVerdict'
<1> USE DEF Safekeeping, OneVerdict
<1>1. CASE Webhook \/ Dispatcher \/ Environment \/ Stop
  BY <1>1, OutsideFrame
<1>2. CASE Run
  BY <1>2, RunFrame
<1>3. ASSUME NEW w \in Worker, Progress(w) PROVE OneVerdict'
  BY <1>3 DEF Progress, ReadTarget, Mark, Add, AddInvalid, Reject, Check, Drop,
     Save, SaveDuplicate, Delete, Err, Mend, SettleFailure, SettleSuccess,
     Goto, KnownByWorker, TypeOK, DbTypes
<1>4. ASSUME NEW w \in Worker, Failure(w) PROVE OneVerdict'
  BY <1>4 DEF Failure, MarkFails, AddFails, AddLost, RejectFails, CheckFails,
     DropFails, SaveFails, DeleteFails, Goto, KnownByWorker, TypeOK, DbTypes
<1>5. ASSUME NEW w \in Worker, Finish(w) PROVE OneVerdict'
  BY <1>5, FinishFrame
<1>6. CASE Restart \/ Crash
  BY <1>6, RestartFrame DEF Reboot
<1> QED
  BY <1>1, <1>2, <1>3, <1>4, <1>5, <1>6 DEF Next

\* A job leaves the queue only with a recorded runner or a rejection.
LEMMA NextNoJobLost ==
  ASSUME TypeOK, Safekeeping, Next PROVE NoJobLost'
<1> USE DEF Safekeeping, NoJobLost
<1>1. CASE Webhook
  BY <1>1 DEF Webhook, Enqueue, Notify
<1>2. CASE Dispatcher \/ Stop
  BY <1>2 DEF Dispatcher, Tick, TakeNotify, List, ListFails, DispatcherExit,
     Stop
<1>3. CASE Run
  BY <1>3, RunFrame
<1>4. ASSUME NEW w \in Worker, Progress(w) PROVE NoJobLost'
  BY <1>4 DEF Progress, ReadTarget, Mark, Add, AddInvalid, Reject, Check, Drop,
     Save, SaveDuplicate, Delete, Err, Mend, SettleFailure, SettleSuccess,
     Goto, Elsewhere, KnownByWorker, TypeOK, DbTypes, HistoryTypes
<1>5. ASSUME NEW w \in Worker, Failure(w) PROVE NoJobLost'
  BY <1>5 DEF Failure, MarkFails, AddFails, AddLost, RejectFails, CheckFails,
     DropFails, SaveFails, DeleteFails, Goto, Elsewhere, KnownByWorker,
     TypeOK, DbTypes, HistoryTypes
<1>6. ASSUME NEW w \in Worker, Finish(w) PROVE NoJobLost'
  BY <1>6, FinishFrame
<1>7. CASE Environment
  BY <1>7 DEF Environment, Register, OtherWriter
<1>8. CASE Restart \/ Crash
  BY <1>8, RestartFrame DEF Reboot
<1> QED
  BY <1>1, <1>2, <1>3, <1>4, <1>5, <1>6, <1>7, <1>8 DEF Next

\* The four parts hold together from the start.
LEMMA SafekeepingInductive == Spec => []Safekeeping
<1>1. Init => Safekeeping
  BY DEF Init, Safekeeping, OnlySeen, KnownByWorker, OneVerdict, NoJobLost
<1>2. TypeOK /\ Safekeeping /\ [Next]_vars => Safekeeping'
  <2>1. ASSUME TypeOK, Safekeeping, Next PROVE Safekeeping'
    BY <2>1, NextOnlySeen, NextKnown, NextVerdict, NextNoJobLost
       DEF Safekeeping
  <2>2. ASSUME Safekeeping, UNCHANGED vars PROVE Safekeeping'
    BY <2>2 DEF vars, Safekeeping, OnlySeen, KnownByWorker, OneVerdict,
       NoJobLost
  <2> QED
    BY <2>1, <2>2
<1> QED
  BY <1>1, <1>2, TypeCorrect, PTL DEF Spec

\* No failure, crash or restart loses a job: what was inserted is queued
\* until a runner is recorded for it or the provider rejects it.
THEOREM NothingLost == Spec => []NoJobLost
<1>1. Safekeeping => NoJobLost
  BY DEF Safekeeping
<1> QED
  BY <1>1, SafekeepingInductive, PTL

----------------------------------------------------------------------------
(* The starter implements JobLifecycle.                                    *)

\* With Safekeeping no job is in the phase "lost".
LEMMA PhaseOf ==
  ASSUME Safekeeping
  PROVE  phase = [j \in Job |-> IF j \notin seen THEN "new"
                               ELSE IF runners[j] # 0 THEN "served"
                               ELSE IF j \in rejected THEN "rejected"
                               ELSE "queued"]
  BY DEF Safekeeping, NoJobLost, OnlySeen, phase

\* The same after a step.
LEMMA PhaseOfNext ==
  ASSUME Safekeeping'
  PROVE  phase' = [j \in Job |-> IF j \notin seen' THEN "new"
                                ELSE IF runners'[j] # 0 THEN "served"
                                ELSE IF j \in rejected' THEN "rejected"
                                ELSE "queued"]
  BY DEF Safekeeping, NoJobLost, OnlySeen, phase

\* What every step does to what phases are made of: one job may be inserted,
\* or a worker may record a runner for its queued job or reject it.
LEMMA VerdictSteps ==
  ASSUME TypeOK, Safekeeping, Next
  PROVE  \/ UNCHANGED <<seen, runners, rejected>>
         \/ \E j \in Job \ seen :
              seen' = seen \cup {j} /\ UNCHANGED <<runners, rejected>>
         \/ \E j \in seen \cap Job :
              /\ runners[j] = 0 /\ j \notin rejected /\ UNCHANGED seen
              /\ \/ /\ \E n \in 1 .. MaxInst :
                         runners' = [runners EXCEPT ![j] = n]
                    /\ UNCHANGED rejected
                 \/ /\ rejected' = rejected \cup {j}
                    /\ UNCHANGED runners
<1> DEFINE Still == UNCHANGED <<seen, runners, rejected>>
           Served(j) == /\ \E n \in 1 .. MaxInst :
                              runners' = [runners EXCEPT ![j] = n]
                        /\ UNCHANGED rejected
           Refused(j) == rejected' = rejected \cup {j} /\ UNCHANGED runners
           Verdict == \E j \in seen \cap Job :
                        /\ runners[j] = 0 /\ j \notin rejected
                        /\ UNCHANGED seen /\ (Served(j) \/ Refused(j))
           Insertion == \E j \in Job \ seen :
                          /\ seen' = seen \cup {j}
                          /\ UNCHANGED <<runners, rejected>>
<1>1. CASE Webhook
  <2>1. Still \/ Insertion
    BY <1>1 DEF Webhook, Enqueue, Notify
  <2> QED
    BY <2>1
<1>2. CASE Dispatcher \/ Stop \/ Environment
  BY <1>2 DEF Dispatcher, Tick, TakeNotify, List, ListFails, DispatcherExit,
     Stop, Environment, Register, OtherWriter
<1>3. CASE Run
  BY <1>3, RunFrame
<1>4. ASSUME NEW w \in Worker, Save(w) \/ SaveFails(w)
      PROVE  Still \/ Verdict
  <2>1. /\ pc[w] = "save" /\ wjob[w] \in Job /\ winst[w] \in 1 .. MaxInst
        /\ wjob[w] \in seen /\ wjob[w] \notin rejected
        /\ UNCHANGED <<seen, rejected>>
    BY <1>4 DEF Save, SaveFails, Goto, Elsewhere, Safekeeping, OnlySeen,
       KnownByWorker, OneVerdict, TypeOK, WorkerTypes
  <2>2. \/ UNCHANGED runners
        \/ /\ runners[wjob[w]] = 0
           /\ runners' = [runners EXCEPT ![wjob[w]] = winst[w]]
    BY <1>4 DEF Save, SaveFails
  <2> QED
    BY <2>1, <2>2
<1>5. ASSUME NEW w \in Worker, Reject(w) \/ RejectFails(w)
      PROVE  Still \/ Verdict
  <2>1. /\ pc[w] = "reject" /\ wjob[w] \in seen \cap Job
        /\ runners[wjob[w]] = 0 /\ UNCHANGED <<seen, runners>>
    BY <1>5 DEF Reject, RejectFails, Goto, Elsewhere, Safekeeping, OnlySeen,
       KnownByWorker, OneVerdict, TypeOK, WorkerTypes, DbTypes
  <2>2. UNCHANGED rejected \/ rejected' = rejected \cup {wjob[w]}
    BY <1>5 DEF Reject, RejectFails
  <2> QED
    BY <2>1, <2>2
<1>6. ASSUME NEW w \in Worker, Progress(w) \/ Failure(w),
             ~ (Save(w) \/ SaveFails(w) \/ Reject(w) \/ RejectFails(w))
      PROVE  Still
  BY <1>6 DEF Progress, Failure, ReadTarget, Mark, Add, AddInvalid, Check,
     Drop, SaveDuplicate, Delete, Err, Mend, SettleFailure, SettleSuccess,
     MarkFails, AddFails, AddLost, CheckFails, DropFails, DeleteFails,
     Elsewhere
<1>7. ASSUME NEW w \in Worker, Finish(w) PROVE Still
  BY <1>7, FinishFrame
<1>8. CASE Restart \/ Crash
  BY <1>8, RestartFrame DEF Reboot
<1>9. Still \/ Insertion \/ Verdict
  BY <1>1, <1>2, <1>3, <1>4, <1>5, <1>6, <1>7, <1>8 DEF Next
<1> QED
  BY <1>9

\* The starter implements JobLifecycle: whatever fails in it, a job goes from
\* new to queued and from there to served or rejected, once.
THEOREM LifecycleImplemented == Spec => ImplementsLifecycle
<1>1. Init => Lifecycle!Init
  BY DEF Init, phase, Lifecycle!Init
<1>2. TypeOK /\ Safekeeping /\ Safekeeping' /\ [Next]_vars
        => [Lifecycle!Next]_phase
  <2> SUFFICES ASSUME TypeOK, Safekeeping, Safekeeping', [Next]_vars
               PROVE  Lifecycle!Next \/ UNCHANGED phase
    OBVIOUS
  <2> USE DEF Lifecycle!Next, Lifecycle!Step
  <2>1. ASSUME UNCHANGED <<seen, runners, rejected>> PROVE UNCHANGED phase
    BY <2>1, PhaseOf, PhaseOfNext
  <2>2. ASSUME NEW j \in Job \ seen, seen' = seen \cup {j},
               UNCHANGED <<runners, rejected>>
        PROVE  Lifecycle!Enqueue(j)
    BY <2>2, PhaseOf, PhaseOfNext DEF Lifecycle!Enqueue, Safekeeping, OnlySeen
  <2>3. ASSUME NEW j \in seen \cap Job, runners[j] = 0, j \notin rejected,
               UNCHANGED <<seen, rejected>>,
               NEW n \in 1 .. MaxInst, runners' = [runners EXCEPT ![j] = n]
        PROVE  Lifecycle!Serve(j)
    <3>1. /\ \A i \in Job \ {j} : runners'[i] = runners[i]
          /\ runners'[j] # 0
      BY <2>3 DEF TypeOK, DbTypes
    <3>2. phase[j] = "queued"
      BY <2>3, PhaseOf
    <3>3. \A i \in Job : phase'[i] = [phase EXCEPT ![j] = "served"][i]
      BY <2>3, <3>1, PhaseOf, PhaseOfNext
    <3> QED
      BY <3>2, <3>3, PhaseOf, PhaseOfNext DEF Lifecycle!Serve
  <2>4. ASSUME NEW j \in seen \cap Job, runners[j] = 0, j \notin rejected,
               UNCHANGED <<seen, runners>>, rejected' = rejected \cup {j}
        PROVE  Lifecycle!Reject(j)
    BY <2>4, PhaseOf, PhaseOfNext DEF Lifecycle!Reject
  <2>5. CASE Next
    <3>1. CASE UNCHANGED <<seen, runners, rejected>>
      BY <2>1, <3>1
    <3>2. CASE \E j \in Job \ seen :
                 seen' = seen \cup {j} /\ UNCHANGED <<runners, rejected>>
      BY <2>2, <3>2
    <3>3. CASE \E j \in seen \cap Job :
                 /\ runners[j] = 0 /\ j \notin rejected /\ UNCHANGED seen
                 /\ \/ /\ \E n \in 1 .. MaxInst :
                            runners' = [runners EXCEPT ![j] = n]
                       /\ UNCHANGED rejected
                    \/ /\ rejected' = rejected \cup {j}
                       /\ UNCHANGED runners
      <4>1. PICK j \in seen \cap Job :
                 /\ runners[j] = 0 /\ j \notin rejected /\ UNCHANGED seen
                 /\ \/ /\ \E n \in 1 .. MaxInst :
                            runners' = [runners EXCEPT ![j] = n]
                       /\ UNCHANGED rejected
                    \/ /\ rejected' = rejected \cup {j}
                       /\ UNCHANGED runners
        BY <3>3
      <4>2. Lifecycle!Serve(j) \/ Lifecycle!Reject(j)
        BY <2>3, <2>4, <4>1
      <4> QED
        BY <4>2
    <3> QED
      BY <2>5, <3>1, <3>2, <3>3, VerdictSteps
  <2>6. CASE UNCHANGED vars
    BY <2>1, <2>6 DEF vars
  <2> QED
    BY <2>5, <2>6
<1> QED
  BY <1>1, <1>2, TypeCorrect, SafekeepingInductive, PTL
     DEF Spec, ImplementsLifecycle, Lifecycle!Spec

----------------------------------------------------------------------------
(* Strict mode.                                                            *)

\* A worker on its way to CreateRunner has seen its runner's name in GitHub.
Strictness ==
  /\ StrictRow
  /\ Strict => \A w \in Worker :
                 pc[w] = "save" => registered[wjob[w]] # 0

\* Registrations are never withdrawn here, and in strict mode the only way
\* to CreateRunner is through a successful check.
LEMMA NextStrictness ==
  ASSUME TypeOK, Strictness, Next PROVE Strictness'
<1> USE DEF Strictness, StrictRow, TypeOK, WorkerTypes
<1>1. CASE Webhook \/ Dispatcher \/ Stop
  <2>1. UNCHANGED registered
    BY <1>1 DEF Webhook, Enqueue, Notify, Dispatcher, Tick, TakeNotify, List,
       ListFails, DispatcherExit, Stop
  <2> QED
    BY <1>1, <2>1, OutsideFrame
<1>2. CASE Environment
  <2>1. \A j \in Job : registered[j] # 0 => registered'[j] = registered[j]
    BY <1>2 DEF Environment, Register, OtherWriter, CloudTypes, Instance
  <2> QED
    BY <1>2, <2>1, OutsideFrame
<1>3. CASE Run
  BY <1>3 DEF Run, Skip, Receive, Spawn, RunExit
<1>4. ASSUME NEW w \in Worker, Progress(w) PROVE Strictness'
  BY <1>4, ConstantsAssumption DEF Progress, ReadTarget, Mark, Add, AddInvalid,
     Reject, Check, Drop, Save, SaveDuplicate, Delete, Err, Mend,
     SettleFailure, SettleSuccess, Goto, Create, DbTypes
<1>5. ASSUME NEW w \in Worker, Failure(w) PROVE Strictness'
  BY <1>5 DEF Failure, MarkFails, AddFails, AddLost, RejectFails, CheckFails,
     DropFails, SaveFails, DeleteFails, Goto, Create, DbTypes
<1>6. ASSUME NEW w \in Worker, Finish(w) PROVE Strictness'
  BY <1>6 DEF Finish, Release, Unmark, Vanish
<1>7. CASE Restart \/ Crash
  BY <1>7, RestartFrame DEF Reboot
<1> QED
  BY <1>1, <1>2, <1>3, <1>4, <1>5, <1>6, <1>7 DEF Next

\* In strict mode every recorded runner belongs to a job whose runner name
\* GitHub knows, whatever failed on the way.
THEOREM StrictCorrect == Spec => []StrictRow
<1>1. Init => Strictness
  BY DEF Init, Strictness, StrictRow
<1>2. TypeOK /\ Strictness /\ [Next]_vars => Strictness'
  <2>1. ASSUME TypeOK, Strictness, Next PROVE Strictness'
    BY <2>1, NextStrictness
  <2>2. ASSUME Strictness, UNCHANGED vars PROVE Strictness'
    BY <2>2 DEF vars, Strictness, StrictRow
  <2> QED
    BY <2>1, <2>2
<1>3. Strictness => StrictRow
  BY DEF Strictness
<1> QED
  BY <1>1, <1>2, <1>3, TypeCorrect, PTL DEF Spec

----------------------------------------------------------------------------
(* The notification channel.                                               *)

\* The dropped sends on a full channel lose no wakeup.
LEMMA NextWakeup ==
  ASSUME TypeOK, NoLostWakeup, Next PROVE NoLostWakeup'
<1> USE DEF NoLostWakeup
<1>1. CASE Webhook
  BY <1>1 DEF Webhook, Enqueue, Notify
<1>2. CASE Dispatcher \/ Stop
  BY <1>2 DEF Dispatcher, Tick, TakeNotify, List, ListFails, DispatcherExit,
     Stop, Fault, Happens, TypeOK, MemoryTypes
<1>3. CASE Run
  BY <1>3 DEF Run, Skip, Receive, Handover, Spawn, RunExit
<1>4. ASSUME NEW w \in Worker, Progress(w) \/ Failure(w)
      PROVE  NoLostWakeup'
  BY <1>4, ProcessJobFrame DEF Elsewhere, TypeOK
<1>5. ASSUME NEW w \in Worker, Finish(w) PROVE NoLostWakeup'
  BY <1>5, FinishFrame
<1>6. CASE Environment
  BY <1>6 DEF Environment, Register, OtherWriter
<1>7. CASE Restart \/ Crash
  BY <1>7, RestartFrame DEF Reboot
<1> QED
  BY <1>1, <1>2, <1>3, <1>4, <1>5, <1>6, <1>7 DEF Next

\* EnqueueJob's non-blocking send on a channel of capacity 1 loses no wakeup:
\* a job that no list has returned has a token, a handler or a list coming.
THEOREM WakeupCorrect == Spec => []NoLostWakeup
<1>1. Init => NoLostWakeup
  BY DEF Init, NoLostWakeup
<1>2. TypeOK /\ NoLostWakeup /\ [Next]_vars => NoLostWakeup'
  <2>1. ASSUME NoLostWakeup, UNCHANGED vars PROVE NoLostWakeup'
    BY <2>1 DEF vars, NoLostWakeup
  <2> QED
    BY <2>1, NextWakeup
<1> QED
  BY <1>1, <1>2, TypeCorrect, PTL DEF Spec

=============================================================================
