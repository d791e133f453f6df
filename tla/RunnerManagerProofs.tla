------------------------- MODULE RunnerManagerProofs -------------------------
(***************************************************************************)
(* Theorems about RunnerManager, for every value of its constants.         *)
(*                                                                         *)
(* Layout: frame lemmas say what whole groups of actions leave alone; then *)
(*   Slots    with type correctness: the round's semaphore counts the      *)
(*            goroutines, and no goroutine outlives its round except into  *)
(*            a process that is stopping                                   *)
(*   Removal  how far a goroutine in a given state has removed its runner  *)
(*   Strictly strict mode with all runners on one page: a runner that the  *)
(*            list lacks has left GitHub for good                          *)
(***************************************************************************)
EXTENDS RunnerManager, FiniteSetTheorems, TLAPS

USE DEF db, world, proc, round, work

\* The environment never touches the process, nor an instance.
LEMMA EnvironmentFrame ==
  ASSUME Environment
  PROVE  UNCHANGED <<inst, proc, round, work, killed, troubles>>
  BY DEF Environment, Register, Record, Live, Grow, OtherWriter

\* The round itself removes nothing.
LEMMA RoundFrame ==
  ASSUME Listing \/ Spawning \/ Finishing
  PROVE  UNCHANGED <<row, age, world, proc, killed>>
<1>1. CASE Listing
  BY <1>1 DEF Listing, ListTargets, ListRows, ListPage, ListLastPage,
     ListNobody, ListFails
<1>2. CASE Spawning
  BY <1>2 DEF Spawning, Spawn, Ignore, AcquireFails, SpawnedAll
<1>3. CASE Finishing
  BY <1>3 DEF Finishing, Wait, AfterWait, ReadTarget, WriteTarget, UpdateFails,
     LoopExit
<1> QED
  BY <1>1, <1>2, <1>3

\* Only Spawn starts a goroutine.
LEMMA WorkFrame ==
  ASSUME Listing \/ Finishing
  PROVE  UNCHANGED work
<1>1. CASE Listing
  BY <1>1 DEF Listing, ListTargets, ListRows, ListPage, ListLastPage,
     ListNobody, ListFails
<1>2. CASE Finishing
  BY <1>2 DEF Finishing, Wait, AfterWait, ReadTarget, WriteTarget, UpdateFails,
     LoopExit
<1> QED
  BY <1>1, <1>2

\* A goroutine leaves the round's list and the clock alone.
LEMMA WorkerFrame ==
  ASSUME NEW r \in Runner, Worker(r)
  PROVE  UNCHANGED <<age, ctx, once, mpc, status, todo, listed, page, goal>>
  BY DEF Worker, Keep, Decide, Unregister, UnregisterFails, Destroy,
     DestroyFails, Erase, EraseFails, ReadErr, WriteErr, NoErr

\* A goroutine goes on, or it ends and counts its failures.
LEMMA WorkerMoves ==
  ASSUME ProcTypes, WorkTypes, NEW r \in Runner, Worker(r)
  PROVE  /\ pc[r] # "none"
         /\ \/ \E s \in {"unregister", "destroy", "erase", "err", "mend"} :
                 Goto(r, s)
            \/ \E n \in 0 .. MaxDeleteRetry + 1 : Settle(r, n)
<1> USE ConstantsAssumption DEF ProcTypes, WorkTypes
<1>1. CASE Keep(r)
  BY <1>1 DEF Keep
<1>2. CASE Decide(r)
  BY <1>2 DEF Decide
<1>3. CASE Unregister(r) \/ UnregisterFails(r)
  BY <1>3 DEF Unregister, UnregisterFails
<1>4. CASE Destroy(r) \/ DestroyFails(r)
  BY <1>4 DEF Destroy, DestroyFails
<1>5. CASE Erase(r)
  BY <1>5 DEF Erase
<1>6. CASE EraseFails(r) \/ ReadErr(r)
  BY <1>6 DEF EraseFails, ReadErr
<1>7. CASE WriteErr(r) \/ NoErr(r)
  <2>1. cnt[r] + 1 \in 0 .. MaxDeleteRetry + 1
    OBVIOUS
  <2>2. pc[r] # "none" /\ Settle(r, cnt[r] + 1)
    BY <1>7 DEF WriteErr, NoErr
  <2> QED
    BY <2>1, <2>2
<1> QED
  BY <1>1, <1>2, <1>3, <1>4, <1>5, <1>6, <1>7 DEF Worker

\* A restart keeps the database and the world, and has no goroutine.
LEMMA RestartFrame ==
  ASSUME Reboot \/ Crash
  PROVE  Restart
  BY DEF Reboot, Crash

----------------------------------------------------------------------------
(* The semaphore and the types.                                            *)

\* Between two rounds of a live process there is no goroutine.
Quiet == mpc \in {"rows", "list", "read", "write"}
         \/ (mpc = "tick" /\ ctx = "live")

Slots ==
  /\ held = Cardinality(Active)
  /\ Quiet => Active = {}
  /\ \A r \in todo : pc[r] = "none"

\* The goroutines are finitely many.
LEMMA ActiveFinite == IsFiniteSet(Active) /\ Cardinality(Active) \in Nat
  BY ConstantsAssumption, FS_Subset, FS_CardinalityType DEF Active

\* The database keeps its types.
LEMMA NextDbTypes == ASSUME TypeOK, Next PROVE DbTypes'
<1> USE ConstantsAssumption DEF TypeOK, DbTypes
<1>1. CASE Listing \/ Spawning
  BY <1>1 DEF Listing, ListTargets, ListRows, ListPage, ListLastPage,
     ListNobody, ListFails, Spawning, Spawn, Ignore, AcquireFails, SpawnedAll
<1>2. CASE Finishing
  BY <1>2 DEF Finishing, Wait, AfterWait, ReadTarget, WriteTarget, UpdateFails,
     LoopExit, RoundTypes, TargetStatus
<1>3. ASSUME NEW r \in Runner, Worker(r) PROVE DbTypes'
  BY <1>3 DEF Worker, Keep, Decide, Unregister, UnregisterFails, Destroy,
     DestroyFails, Erase, EraseFails, ReadErr, WriteErr, NoErr, ToReason,
     Reason, TargetStatus
<1>4. CASE Environment
  BY <1>4 DEF Environment, Register, Record, Live, Grow, OtherWriter,
     TargetStatus
<1>5. CASE Stop
  BY <1>5 DEF Stop
<1>6. CASE Reboot \/ Crash
  BY <1>6, RestartFrame DEF Restart
<1> QED
  BY <1>1, <1>2, <1>3, <1>4, <1>5, <1>6 DEF Next, Round

\* The provider and GitHub keep theirs.
LEMMA NextWorldTypes == ASSUME TypeOK, Next PROVE WorldTypes'
<1> USE DEF TypeOK, WorldTypes
<1>1. CASE Listing \/ Spawning \/ Finishing
  BY <1>1, RoundFrame
<1>2. ASSUME NEW r \in Runner, Worker(r) PROVE WorldTypes'
  BY <1>2 DEF Worker, Keep, Decide, Unregister, UnregisterFails, Destroy,
     DestroyFails, Erase, EraseFails, ReadErr, WriteErr, NoErr, Life
<1>3. CASE Environment
  BY <1>3 DEF Environment, Register, Record, Live, Grow, OtherWriter, Life
<1>4. CASE Stop
  BY <1>4 DEF Stop
<1>5. CASE Reboot \/ Crash
  BY <1>5, RestartFrame DEF Restart
<1> QED
  BY <1>1, <1>2, <1>3, <1>4, <1>5 DEF Next, Round

\* Retry counts and troubles stay within their bounds.
LEMMA NextProcTypes == ASSUME TypeOK, Next PROVE ProcTypes'
<1> USE ConstantsAssumption DEF TypeOK, ProcTypes
<1>1. CASE Listing
  BY <1>1 DEF Listing, ListTargets, ListRows, ListPage, ListLastPage,
     ListNobody, ListFails, Succeeds, Fault, Happens
<1>2. CASE Spawning
  BY <1>2 DEF Spawning, Spawn, Ignore, AcquireFails, SpawnedAll
<1>3. CASE Finishing
  BY <1>3 DEF Finishing, Wait, AfterWait, ReadTarget, WriteTarget, UpdateFails,
     LoopExit, Succeeds, Fault, Happens
<1>4. ASSUME NEW r \in Runner, Worker(r) PROVE ProcTypes'
  <2>1. troubles' \in 0 .. MaxTroubles
    BY <1>4 DEF Worker, Keep, Decide, Unregister, UnregisterFails, Destroy,
       DestroyFails, Erase, EraseFails, ReadErr, WriteErr, NoErr, Works, Fails,
       Succeeds, Fault, Happens
  <2>2. retry' \in [Runner -> 0 .. MaxDeleteRetry + 1]
    BY <1>4, WorkerMoves DEF Goto, Settle
  <2> QED
    BY <1>4, <2>1, <2>2, WorkerFrame
<1>5. CASE Environment
  BY <1>5, EnvironmentFrame
<1>6. CASE Stop
  BY <1>6 DEF Stop, Happens
<1>7. CASE Reboot \/ Crash
  BY <1>7 DEF Reboot, Crash, Restart, Happens
<1> QED
  BY <1>1, <1>2, <1>3, <1>4, <1>5, <1>6, <1>7 DEF Next, Round

\* A goroutine starts with a count that the limit allows.
LEMMA NextWorkTypes == ASSUME TypeOK, Next PROVE WorkTypes'
<1> USE ConstantsAssumption DEF TypeOK, WorkTypes
<1>1. CASE Listing \/ Finishing
  BY <1>1, WorkFrame
<1>2. CASE Spawning
  BY <1>2 DEF Spawning, Spawn, Ignore, AcquireFails, SpawnedAll, ProcTypes
<1>3. ASSUME NEW r \in Runner, Worker(r) PROVE WorkTypes'
  BY <1>3, WorkerMoves DEF Goto, Settle
<1>4. CASE Environment
  BY <1>4, EnvironmentFrame
<1>5. CASE Stop
  BY <1>5 DEF Stop
<1>6. CASE Reboot \/ Crash
  BY <1>6, RestartFrame DEF Restart
<1> QED
  BY <1>1, <1>2, <1>3, <1>4, <1>5, <1>6 DEF Next, Round

\* What GitHub answers is a list of runners and their states.
LEMMA HeardType ==
  ASSUME TypeOK
  PROVE  Heard \in [Runner -> {"absent", "online", "busy", "offline"}]
  BY DEF TypeOK, WorldTypes, RoundTypes, Heard, OnPage, Registered, Life

\* A goroutine starts when a slot is free.
LEMMA SpawnCounts ==
  ASSUME TypeOK, Slots, NEW r \in Runner, Spawn(r)
  PROVE  held' \in 0 .. Max /\ held' = Cardinality(Active')
<1>1. Active' = Active \cup {r} /\ r \notin Active
  BY DEF Spawn, Active, TypeOK, WorkTypes, Slots
<1>2. Cardinality(Active') = Cardinality(Active) + 1
  BY <1>1, ActiveFinite, FS_AddElement
<1> QED
  BY <1>2, ConstantsAssumption DEF Spawn, Slots, TypeOK, RoundTypes

\* A goroutine ends and its slot is free again.
LEMMA SettleCounts ==
  ASSUME TypeOK, Slots, NEW r \in Runner, pc[r] # "none", NEW n, Settle(r, n)
  PROVE  /\ held' \in 0 .. Max /\ held' = Cardinality(Active')
         /\ Active' = Active \ {r}
<1>1. Active' = Active \ {r} /\ r \in Active
  BY DEF Settle, Active, TypeOK, WorkTypes
<1>2. Cardinality(Active') = Cardinality(Active) - 1
  BY <1>1, ActiveFinite, FS_RemoveElement
<1>3. Cardinality(Active) # 0
  BY <1>1, ActiveFinite, FS_EmptySet
<1> QED
  BY <1>1, <1>2, <1>3, ActiveFinite, ConstantsAssumption
     DEF Settle, Slots, TypeOK, RoundTypes

\* A round that returns has no goroutine and takes its slots with it.
LEMMA ReturnCounts ==
  ASSUME TypeOK, Return, UNCHANGED work, Active = {}
  PROVE  RoundTypes' /\ Slots'
<1>1. Active' = {}
  BY DEF Active
<1>2. held' = 0 /\ todo' = {}
  BY DEF Return
<1>3. RoundTypes'
  BY ConstantsAssumption DEF Return, Nobody, RoundTypes, TargetStatus
<1> QED
  BY <1>1, <1>2, <1>3, FS_EmptySet DEF Slots

\* The listing starts from a quiet state and stays quiet until its last page.
LEMMA ListingSlots ==
  ASSUME TypeOK, Slots, Listing
  PROVE  RoundTypes' /\ Slots'
<1> USE DEF TypeOK
<1>1. UNCHANGED work /\ Active' = Active
  BY WorkFrame DEF Active
<1>2. Active = {} \/ mpc = "tick"
  BY DEF Slots, Quiet, Listing, ListTargets, ListRows, ListPage, ListLastPage,
     ListNobody, ListFails
<1>3. CASE ListTargets
  <2>1. Active = {}
    BY <1>3 DEF Slots, Quiet, ListTargets, Succeeds
  <2> QED
    BY <1>1, <1>3, <2>1 DEF ListTargets, RoundTypes, DbTypes, Slots
<1>4. CASE ListRows
  <2>1. Active = {}
    BY <1>4 DEF Slots, Quiet, ListRows
  <2>2. \A r \in Runner : pc[r] = "none"
    BY <2>1 DEF Active
  <2> QED
    BY <1>1, <1>4, <2>1, <2>2 DEF ListRows, RoundTypes, Slots
<1>5. CASE ListPage
  BY <1>1, <1>5, HeardType DEF ListPage, RoundTypes, Slots, Quiet
<1>6. CASE ListLastPage
  BY <1>1, <1>6, HeardType DEF ListLastPage, RoundTypes, Slots, Quiet
<1>7. CASE ListNobody /\ ~Return
  BY <1>1, <1>7 DEF ListNobody, RoundTypes, Slots, Quiet
<1>8. CASE Return /\ mpc # "tick"
  BY <1>1, <1>2, <1>8, ReturnCounts
<1> QED
  BY <1>3, <1>4, <1>5, <1>6, <1>7, <1>8 DEF Listing, ListNobody, ListFails

\* A goroutine is started on a runner that has none.
LEMMA SpawningSlots ==
  ASSUME TypeOK, Slots, Spawning
  PROVE  RoundTypes' /\ Slots'
<1> USE DEF TypeOK
<1>1. ASSUME NEW r \in Runner, Spawn(r) PROVE RoundTypes' /\ Slots'
  <2>1. held' \in 0 .. Max /\ held' = Cardinality(Active')
    BY <1>1, SpawnCounts
  <2>2. RoundTypes'
    BY <1>1, <2>1 DEF Spawn, RoundTypes
  <2>3. \A q \in todo' : pc'[q] = "none"
    BY <1>1 DEF Spawn, Slots, WorkTypes, RoundTypes
  <2> QED
    BY <1>1, <2>1, <2>2, <2>3 DEF Spawn, Slots, Quiet
<1>2. ASSUME (\E r \in Runner : Ignore(r)) \/ AcquireFails \/ SpawnedAll
      PROVE  RoundTypes' /\ Slots'
  <2>1. UNCHANGED work /\ Active' = Active
    BY <1>2 DEF Ignore, AcquireFails, SpawnedAll, Active
  <2> QED
    BY <1>2, <2>1
       DEF Ignore, AcquireFails, SpawnedAll, RoundTypes, Slots, Quiet
<1> QED
  BY <1>1, <1>2 DEF Spawning

\* eg.Wait makes the state quiet again.
LEMMA FinishingSlots ==
  ASSUME TypeOK, Slots, Finishing
  PROVE  RoundTypes' /\ Slots'
<1> USE DEF TypeOK
<1>1. UNCHANGED work /\ Active' = Active
  BY WorkFrame DEF Active
<1>2. CASE LoopExit
  BY <1>1, <1>2 DEF LoopExit, RoundTypes, Slots, Quiet
<1>3. CASE Wait \/ ReadTarget \/ WriteTarget \/ UpdateFails
  <2>1. Active = {}
    BY <1>3 DEF Wait, ReadTarget, WriteTarget, UpdateFails, Slots, Quiet,
       Active
  <2>2. CASE Return
    BY <1>1, <2>1, <2>2, ReturnCounts
  <2>3. CASE ~Return
    BY <1>1, <1>3, <2>1, <2>3 DEF Wait, AfterWait, ReadTarget, WriteTarget,
       UpdateFails, RoundTypes, Slots, Nobody
  <2> QED
    BY <2>2, <2>3
<1> QED
  BY <1>2, <1>3 DEF Finishing

\* A goroutine runs only while its round waits or the process is stopping.
LEMMA WorkerSlots ==
  ASSUME TypeOK, Slots, NEW r \in Runner, Worker(r)
  PROVE  RoundTypes' /\ Slots'
<1> USE DEF TypeOK
<1>1. pc[r] # "none" /\ r \in Active
  BY WorkerMoves DEF Active
<1>2. ~Quiet /\ ~Quiet' /\ UNCHANGED <<mpc, status, todo, listed, page, goal>>
  BY <1>1, WorkerFrame DEF Slots, Quiet
<1>3. held' \in 0 .. Max /\ held' = Cardinality(Active')
  <2>1. ASSUME NEW s \in {"unregister", "destroy", "erase", "err", "mend"},
               Goto(r, s)
        PROVE  held' \in 0 .. Max /\ held' = Cardinality(Active')
    <3>1. Active' = Active
      BY <1>1, <2>1 DEF Active, Goto, WorkTypes
    <3> QED
      BY <2>1, <3>1 DEF Goto, Slots, RoundTypes
  <2>2. ASSUME NEW n \in 0 .. MaxDeleteRetry + 1, Settle(r, n)
        PROVE  held' \in 0 .. Max /\ held' = Cardinality(Active')
    BY <1>1, <2>2, SettleCounts
  <2> QED
    BY <2>1, <2>2, WorkerMoves
<1>4. \A q \in todo' : pc'[q] = "none"
  BY <1>1, <1>2, WorkerMoves DEF Goto, Settle, Slots, WorkTypes, RoundTypes
<1> QED
  BY <1>2, <1>3, <1>4 DEF Slots, RoundTypes

\* The semaphore and the variables of the round, in every step.
LEMMA NextSlots == ASSUME TypeOK, Slots, Next PROVE RoundTypes' /\ Slots'
<1>1. ASSUME NEW r \in Runner, Worker(r) PROVE RoundTypes' /\ Slots'
  BY <1>1, WorkerSlots
<1>2. CASE Environment \/ Stop
  <2>1. UNCHANGED <<round, work>> /\ (Quiet' => Quiet)
    BY <1>2, EnvironmentFrame DEF Stop, Quiet
  <2> QED
    BY <2>1 DEF TypeOK, RoundTypes, Slots, Active
<1>3. CASE Reboot \/ Crash
  <2>1. Active' = {} /\ held' = 0 /\ todo' = {}
    BY <1>3, RestartFrame DEF Restart, Active
  <2>2. RoundTypes'
    BY <1>3, RestartFrame, ConstantsAssumption
       DEF Restart, RoundTypes, Nobody, TargetStatus
  <2> QED
    BY <2>1, <2>2, FS_EmptySet DEF Slots
<1> QED
  BY <1>1, <1>2, <1>3, ListingSlots, SpawningSlots, FinishingSlots
     DEF Next, Round

\* Initially nothing runs.
LEMMA InitSlots == Init => TypeOK /\ Slots
<1> SUFFICES ASSUME Init PROVE TypeOK /\ Slots
  OBVIOUS
<1>1. Active = {} /\ todo = {} /\ held = 0
  BY DEF Init, Active
<1>2. DbTypes /\ WorldTypes /\ ProcTypes /\ RoundTypes /\ WorkTypes
  BY ConstantsAssumption
     DEF Init, DbTypes, WorldTypes, ProcTypes, RoundTypes, WorkTypes, Nobody,
         TargetStatus, Life
<1> QED
  BY <1>1, <1>2, FS_EmptySet DEF TypeOK, Slots

\* A stuttering step changes nothing that these formulas read.
LEMMA StutterSlots ==
  ASSUME TypeOK, Slots, UNCHANGED vars
  PROVE  TypeOK' /\ Slots'
  BY DEF vars, TypeOK, DbTypes, WorldTypes, ProcTypes, RoundTypes, WorkTypes,
     Slots, Quiet, Active

\* The invariant behind the next two theorems and all that follow.
LEMMA SlotsInvariant == Spec => [](TypeOK /\ Slots)
<1>1. TypeOK /\ Slots /\ [Next]_vars => TypeOK' /\ Slots'
  BY NextDbTypes, NextWorldTypes, NextProcTypes, NextWorkTypes, NextSlots,
     StutterSlots DEF TypeOK
<1> QED
  BY InitSlots, <1>1, PTL DEF Spec

\* Type correctness: among others, the semaphore is never released more often
\* than it was acquired and no retry count passes its limit.
THEOREM TypeCorrect == Spec => []TypeOK
  BY SlotsInvariant, PTL

\* However many runners end at once and however rounds are cut short, at most
\* Max removals are under way.
THEOREM RemovalsCorrect == Spec => []RemovalsBounded
<1>1. TypeOK /\ Slots => RemovalsBounded
  BY ConstantsAssumption DEF TypeOK, RoundTypes, Slots, RemovalsBounded
<1> QED
  BY <1>1, SlotsInvariant, PTL

----------------------------------------------------------------------------
(* Removal: what a goroutine has done before it gets to a state.           *)

Removing(r) == pc[r] \in {"unregister", "destroy", "erase"}

Removal(r) ==
  /\ Removing(r) => age[r] # "young"
  /\ Removing(r) /\ listed[r] = "online" => age[r] = "overdue"
  /\ pc[r] \in {"destroy", "erase"} /\ listed[r] # "absent" => gh[r] = "gone"
  /\ pc[r] = "erase" => r \notin inst
  /\ Removed(r) => r \notin inst /\ age[r] # "young"
  /\ row[r] = "reach_hard_limit" => age[r] = "overdue"

AllRemoval == \A r \in Runner : Removal(r)

\* What other goroutines and a waiting round leave of a runner.
LEMMA RemovalFrame ==
  ASSUME NEW r \in Runner, Removal(r),
         UNCHANGED <<row[r], pc[r]>>,
         pc[r] # "none" => listed'[r] = listed[r],
         age[r] # "young" => age'[r] # "young",
         age[r] = "overdue" => age'[r] = "overdue",
         gh[r] = "gone" => gh'[r] = "gone",
         r \in inst' => r \in inst
  PROVE  Removal(r)'
  BY DEF Removal, Removing, Removed

\* The list of the round changes only while nobody uses it.
LEMMA RoundList ==
  ASSUME TypeOK, Slots, Listing \/ Spawning \/ Finishing, NEW r \in Runner
  PROVE  /\ pc[r] # "none" => listed'[r] = listed[r]
         /\ \/ pc'[r] = pc[r]
            \/ pc'[r] = "sleep" /\ pc[r] = "none" /\ Spawn(r)
<1> USE DEF TypeOK
<1>1. CASE Listing
  <2>1. Active = {} \/ listed' = listed
    BY <1>1 DEF Slots, Quiet, Listing, ListTargets, ListRows, ListPage,
       ListLastPage, ListNobody, ListFails
  <2> QED
    BY <1>1, <2>1, WorkFrame DEF Active
<1>2. CASE Spawning
  BY <1>2 DEF Spawning, Spawn, Ignore, AcquireFails, SpawnedAll, WorkTypes,
     Slots
<1>3. CASE Finishing
  <2>1. Active = {} \/ listed' = listed
    BY <1>3 DEF Slots, Quiet, Active, Finishing, Wait, ReadTarget, WriteTarget,
       UpdateFails, LoopExit
  <2> QED
    BY <1>3, <2>1, WorkFrame DEF Active
<1> QED
  BY <1>1, <1>2, <1>3

\* A goroutine disturbs no other runner.
LEMMA WorkerElsewhere ==
  ASSUME TypeOK, NEW r \in Runner, Worker(r), NEW q \in Runner \ {r}
  PROVE  /\ UNCHANGED <<row[q], pc[q], gh[q]>>
         /\ q \in inst' <=> q \in inst
  BY DEF TypeOK, DbTypes, WorldTypes, WorkTypes, Worker, Keep, Decide,
     Unregister, UnregisterFails, Destroy, DestroyFails, Erase, EraseFails,
     ReadErr, WriteErr, NoErr, Goto, Settle

\* A goroutine removes its runner in order.
LEMMA WorkerRemoval ==
  ASSUME TypeOK, NEW r \in Runner, Removal(r), Worker(r)
  PROVE  Removal(r)'
<1> USE DEF TypeOK, WorkTypes, Removal, Removing, Removed
<1>1. UNCHANGED <<age, listed>>
  BY WorkerFrame
<1>2. CASE Keep(r)
  BY <1>1, <1>2 DEF Keep, Settle
<1>3. CASE Decide(r)
  BY <1>1, <1>3 DEF Decide, Goto, KeepsRunner
<1>4. CASE Unregister(r) \/ UnregisterFails(r)
  BY <1>1, <1>4 DEF Unregister, UnregisterFails, Goto, WorldTypes
<1>5. CASE Destroy(r) \/ DestroyFails(r)
  BY <1>1, <1>5 DEF Destroy, DestroyFails, Goto, WorldTypes
<1>6. CASE Erase(r)
  BY <1>1, <1>6 DEF Erase, Settle, ToReason, DbTypes, Reason
<1>7. CASE EraseFails(r) \/ ReadErr(r)
  BY <1>1, <1>7 DEF EraseFails, ReadErr, Goto
<1>8. CASE WriteErr(r) \/ NoErr(r)
  BY <1>1, <1>8 DEF WriteErr, NoErr, Settle
<1> QED
  BY <1>2, <1>3, <1>4, <1>5, <1>6, <1>7, <1>8 DEF Worker

\* Time and life only go forward: a runner that has left GitHub stays away.
LEMMA EnvironmentForward ==
  ASSUME TypeOK, Environment, NEW r \in Runner
  PROVE  /\ age[r] # "young" => age'[r] # "young"
         /\ age[r] = "overdue" => age'[r] = "overdue"
         /\ gh[r] = "gone" => gh'[r] = "gone"
         /\ row'[r] # row[r] => row'[r] = "running"
  BY DEF TypeOK, DbTypes, WorldTypes, Environment, Register, Record, Live,
     Grow, OtherWriter

\* Removal is inductive.
LEMMA NextRemoval ==
  ASSUME TypeOK, Slots, AllRemoval, Next
  PROVE  AllRemoval'
<1> SUFFICES ASSUME NEW r \in Runner PROVE Removal(r)'
  BY DEF AllRemoval
<1>0. Removal(r)
  BY DEF AllRemoval
<1>1. CASE Listing \/ Spawning \/ Finishing
  <2>1. UNCHANGED <<row, age, gh, inst>>
    BY <1>1, RoundFrame
  <2> QED
    BY <1>0, <1>1, <2>1, RoundList, RemovalFrame
       DEF Removal, Removing, Removed
<1>2. CASE Worker(r)
  BY <1>0, <1>2, WorkerRemoval
<1>3. ASSUME NEW q \in Runner \ {r}, Worker(q) PROVE Removal(r)'
  BY <1>0, <1>3, WorkerElsewhere, WorkerFrame, RemovalFrame
<1>4. CASE Environment
  BY <1>0, <1>4, EnvironmentFrame, EnvironmentForward
     DEF Removal, Removing, Removed, Reason
<1>5. CASE Stop
  BY <1>0, <1>5, RemovalFrame DEF Stop
<1>6. CASE Reboot \/ Crash
  BY <1>0, <1>6, RestartFrame DEF Restart, Removal, Removing, Removed
<1> QED
  BY <1>1, <1>2, <1>3, <1>4, <1>5, <1>6 DEF Next, Round

\* Removal is invariant.
LEMMA RemovalInvariant == Spec => []AllRemoval
<1>1. Init => AllRemoval
  BY DEF Init, AllRemoval, Removal, Removing, Removed, Reason
<1>2. TypeOK /\ Slots /\ AllRemoval /\ [Next]_vars => AllRemoval'
  <2>1. ASSUME AllRemoval, UNCHANGED vars PROVE AllRemoval'
    BY <2>1 DEF vars, AllRemoval, Removal, Removing, Removed
  <2> QED
    BY <2>1, NextRemoval
<1> QED
  BY <1>1, <1>2, SlotsInvariant, PTL DEF Spec

\* A removal that reaches the provider has unregistered the runner, unless
\* the list lacked it, in every configuration and whatever fails.
THEOREM UnregisteredCorrect == Spec => []UnregisteredFirst
<1>1. AllRemoval => UnregisteredFirst
  BY DEF AllRemoval, Removal, UnregisteredFirst
<1> QED
  BY <1>1, RemovalInvariant, PTL

\* No row is erased before MustRunningTime, and reach_hard_limit is recorded
\* of no runner younger than MustGoalTime, however stale the list was.
THEOREM ReasonCorrect == Spec => []ReasonHolds
<1>1. AllRemoval => ReasonHolds
  BY DEF AllRemoval, Removal, ReasonHolds
<1> QED
  BY <1>1, RemovalInvariant, PTL

\* The database forgets no instance: whatever fails or crashes, when a row
\* has gone its instance had gone before.
THEOREM InstancesCorrect ==
  Spec => [](\A r \in Runner : Removed(r) => r \notin inst)
<1>1. AllRemoval => \A r \in Runner : Removed(r) => r \notin inst
  BY DEF AllRemoval, Removal
<1> QED
  BY <1>1, RemovalInvariant, PTL

----------------------------------------------------------------------------
(* The runner manager implements RunnerLifecycle.                          *)

\* A runner that a round or a goroutine works on has its row, until a removal
\* has failed: its last call may have been done.
AtWork(r) == pc[r] \in {"sleep", "unregister", "destroy", "erase"}

Recorded ==
  \A r \in Runner : r \in todo \/ AtWork(r) => row[r] = "running"

\* What a step of goroutine r does to its own row and to its instance.
LEMMA WorkerEffect ==
  ASSUME TypeOK, NEW r \in Runner, Worker(r)
  PROVE  /\ \/ UNCHANGED inst
            \/ pc[r] = "destroy" /\ inst' = inst \ {r}
         /\ \/ UNCHANGED row
            \/ /\ pc[r] = "erase" /\ UNCHANGED inst
               /\ \E s \in Reason : row' = [row EXCEPT ![r] = s]
         /\ AtWork(r)' => AtWork(r) /\ UNCHANGED row
  BY DEF AtWork, TypeOK, DbTypes, WorkTypes, Worker, Keep, Decide,
     Unregister,
     UnregisterFails, Destroy, DestroyFails, Erase, EraseFails, ReadErr,
     WriteErr, NoErr, Goto, Settle, ToReason, Reason

\* Recorded is inductive.
LEMMA NextRecorded ==
  ASSUME TypeOK, Slots, Recorded, Next
  PROVE  Recorded'
<1> USE DEF Recorded, AtWork
<1>1. CASE Listing
  <2>1. UNCHANGED <<row, work>>
    BY <1>1, RoundFrame, WorkFrame
  <2>2. \A r \in Runner : r \in todo' => r \in todo \/ row[r] = "running"
    BY <1>1 DEF Listing, ListTargets, ListRows, ListPage, ListLastPage,
       ListNobody, ListFails, Return
  <2> QED
    BY <2>1, <2>2
<1>2. CASE Spawning
  <2>1. UNCHANGED row
    BY <1>2, RoundFrame
  <2>2. \A r \in Runner : r \in todo' \/ AtWork(r)'
                            => r \in todo \/ AtWork(r)
    BY <1>2 DEF Spawning, Spawn, Ignore, AcquireFails, SpawnedAll, TypeOK,
       WorkTypes
  <2> QED
    BY <2>1, <2>2
<1>3. CASE Finishing
  <2>1. UNCHANGED <<row, work>>
    BY <1>3, RoundFrame, WorkFrame
  <2>2. \A r \in Runner : r \in todo' => r \in todo
    BY <1>3 DEF Finishing, Wait, AfterWait, ReadTarget, WriteTarget,
       UpdateFails, LoopExit, Return
  <2> QED
    BY <2>1, <2>2
<1>4. ASSUME NEW r \in Runner, Worker(r) PROVE Recorded'
  <2>1. pc[r] # "none" /\ UNCHANGED todo
    BY <1>4, WorkerFrame, WorkerMoves DEF TypeOK
  <2>2. ASSUME NEW q \in Runner \ {r}
        PROVE  q \in todo' \/ AtWork(q)' => row'[q] = "running"
    BY <1>4, <2>1, WorkerElsewhere
  <2>3. r \in todo' \/ AtWork(r)' => row'[r] = "running"
    BY <1>4, <2>1, WorkerEffect DEF Slots
  <2> QED
    BY <2>2, <2>3
<1>5. CASE Environment
  BY <1>5, EnvironmentFrame, EnvironmentForward
<1>6. CASE Stop
  BY <1>6 DEF Stop
<1>7. CASE Reboot \/ Crash
  BY <1>7, RestartFrame DEF Restart
<1> QED
  BY <1>1, <1>2, <1>3, <1>4, <1>5, <1>6, <1>7 DEF Next, Round

\* Recorded is invariant.
LEMMA RecordedInvariant == Spec => []Recorded
<1>1. Init => Recorded
  BY DEF Init, Recorded, AtWork
<1>2. TypeOK /\ Slots /\ Recorded /\ [Next]_vars => Recorded'
  <2>1. ASSUME Recorded, UNCHANGED vars PROVE Recorded'
    BY <2>1 DEF vars, Recorded, AtWork
  <2> QED
    BY <2>1, NextRecorded
<1> QED
  BY <1>1, <1>2, SlotsInvariant, PTL DEF Spec

\* A step of a goroutine is a step of the abstract runner.
LEMMA WorkerRefines ==
  ASSUME TypeOK, Recorded, AllRemoval, NEW r \in Runner, Worker(r)
  PROVE  [Lifecycle!Next]_<<record, inst>>
<1>1. pc[r] \in {"destroy", "erase"} => row[r] = "running"
  BY DEF Recorded, AtWork
<1>2. CASE UNCHANGED <<row, inst>>
  BY <1>2 DEF record, Removed
<1>3. CASE /\ pc[r] = "destroy" /\ UNCHANGED row
           /\ inst' = inst \ {r} /\ r \in inst
  <2>1. record[r] = "running" /\ UNCHANGED record
    BY <1>1, <1>3 DEF record, Removed, Reason
  <2> QED
    BY <1>3, <2>1 DEF Lifecycle!Next, Lifecycle!Destroy
<1>4. ASSUME NEW s \in Reason, row' = [row EXCEPT ![r] = s],
             pc[r] = "erase", UNCHANGED inst
      PROVE  Lifecycle!Erase(r)
  <2>1. r \notin inst
    BY <1>4 DEF AllRemoval, Removal
  <2>2. record[r] = "running"
    BY <1>1, <1>4 DEF record, Removed, Reason
  <2>3. record' = [record EXCEPT ![r] = "removed"]
    BY <1>4 DEF record, Removed, TypeOK, DbTypes, Reason
  <2> QED
    BY <1>4, <2>1, <2>2, <2>3 DEF Lifecycle!Erase, Lifecycle!Changes
<1>5. inst' = inst \ {r} /\ r \notin inst => UNCHANGED inst
  OBVIOUS
<1> QED
  BY <1>2, <1>3, <1>4, <1>5, WorkerEffect DEF Lifecycle!Next

\* So is every other step.
LEMMA NextRefines ==
  ASSUME TypeOK, Recorded, AllRemoval, Next
  PROVE  [Lifecycle!Next]_<<record, inst>>
<1>1. CASE Listing \/ Spawning \/ Finishing
  BY <1>1, RoundFrame DEF record, Removed
<1>2. CASE Stop
  BY <1>2 DEF Stop, record, Removed
<1>3. CASE Reboot \/ Crash
  BY <1>3, RestartFrame DEF Restart, record, Removed
<1>4. CASE Environment
  <2>1. CASE UNCHANGED <<row, inst>>
    BY <2>1 DEF record, Removed
  <2>2. ASSUME NEW r \in Runner, Record(r) PROVE Lifecycle!Record(r)
    <3>1. record[r] = "none"
      BY <2>2 DEF Record, record, Removed, Reason
    <3>2. record' = [record EXCEPT ![r] = "running"]
      BY <2>2 DEF Record, record, Removed, TypeOK, DbTypes, Reason
    <3> QED
      BY <2>2, <3>1, <3>2 DEF Record, Lifecycle!Record, Lifecycle!Changes
  <2>3. UNCHANGED <<row, inst>> \/ \E r \in Runner : Record(r)
    BY <1>4 DEF Environment, Register, Live, Grow, OtherWriter
  <2> QED
    BY <2>1, <2>2, <2>3 DEF Lifecycle!Next
<1> QED
  BY <1>1, <1>2, <1>3, <1>4, WorkerRefines DEF Next, Round

\* The runner manager implements RunnerLifecycle in every configuration:
\* whatever fails, however rounds are cut short, an instance is deleted only
\* while its row is there and the row goes only after the instance.
THEOREM LifecycleImplemented == Spec => ImplementsLifecycle
<1>1. Init => Lifecycle!Init
  BY DEF Init, record, Removed, Reason, Lifecycle!Init
<1>2. TypeOK /\ Recorded /\ AllRemoval /\ [Next]_vars
        => [Lifecycle!Next]_<<record, inst>>
  <2>1. UNCHANGED vars => UNCHANGED <<record, inst>>
    BY DEF vars, record, Removed
  <2> QED
    BY <2>1, NextRefines
<1> QED
  BY <1>1, <1>2, SlotsInvariant, RecordedInvariant, RemovalInvariant, PTL
     DEF Spec, ImplementsLifecycle, Lifecycle!Spec

----------------------------------------------------------------------------
(* Strict mode, with all runners on one page.                              *)

OnePage == Strict /\ Cardinality(Runner) <= PerPage

\* Handled by the round: waiting for a goroutine, or with one.
Handled(r) == pc[r] # "none" \/ (r \in todo /\ mpc = "spawn")

Strictly(r) ==
  /\ row[r] = "running" \/ r \in todo \/ pc[r] # "none" => gh[r] # "booting"
  /\ Handled(r) /\ listed[r] = "absent" => gh[r] = "gone"
  /\ pc[r] \in {"destroy", "erase"} => gh[r] = "gone"
  /\ Removed(r) => gh[r] = "gone"

AllStrictly ==
  /\ page = 0 /\ killed = {}
  /\ \A r \in Runner : Strictly(r)

\* The runners registered with GitHub are finitely many, and no more than
\* there are runners.
LEMMA RegisteredFinite ==
  /\ IsFiniteSet(Registered)
  /\ Cardinality(Registered) <= Cardinality(Runner)
  /\ Cardinality(Registered) \in Nat /\ Cardinality(Runner) \in Nat
  BY ConstantsAssumption, FS_Subset, FS_CardinalityType DEF Registered

\* There is one page, and every registered runner is on it.
LEMMA OnePageHasAll ==
  ASSUME OnePage, page = 0
  PROVE  ~NextPage /\ \A r \in Registered : OnPage(r)
<1>1. ~NextPage
  BY RegisteredFinite, ConstantsAssumption DEF OnePage, NextPage
<1>2. ASSUME NEW r \in Registered PROVE OnPage(r)
  <2> DEFINE Before == {q \in Registered : q < r}
  <2>1. Before \subseteq Registered \ {r}
    BY ConstantsAssumption DEF Registered
  <2>2. IsFiniteSet(Registered \ {r})
        /\ Cardinality(Registered \ {r}) = Cardinality(Registered) - 1
    BY RegisteredFinite, FS_RemoveElement
  <2>3. Cardinality(Before) <= Cardinality(Registered) - 1
        /\ Cardinality(Before) \in Nat
    BY <2>1, <2>2, FS_Subset, FS_CardinalityType
  <2>4. Position(r) \in 0 .. PerPage - 1
    BY <2>3, RegisteredFinite, ConstantsAssumption DEF Position, OnePage
  <2>5. page * PerPage = 0 /\ (page + 1) * PerPage = PerPage
    BY ConstantsAssumption
  <2> QED
    BY <2>4, <2>5 DEF OnPage
<1> QED
  BY <1>1, <1>2

\* Hence a runner that the answer lacks has left GitHub or is booting.
LEMMA UnheardIsGone ==
  ASSUME OnePage, TypeOK, page = 0, NEW r \in Runner, Heard[r] = "absent"
  PROVE  gh[r] \in {"gone", "booting"}
<1>1. r \in Registered => OnPage(r)
  BY OnePageHasAll
<1>2. r \notin Registered
  BY <1>1 DEF Heard, Registered
<1> QED
  BY <1>2 DEF Registered, TypeOK, WorldTypes, Life

\* The listing keeps the bargain: its one page is read at once.
LEMMA ListingStrictly ==
  ASSUME OnePage, TypeOK, Slots, AllStrictly, Listing
  PROVE  AllStrictly'
<1> USE DEF AllStrictly, Strictly, Handled, Removed
<1>1. UNCHANGED <<row, age, world, proc, killed, work>>
  BY RoundFrame, WorkFrame
<1>2. CASE ListTargets
  BY <1>1, <1>2 DEF ListTargets
<1>3. ASSUME ~ListTargets
      PROVE  \A r \in Runner : pc[r] = "none"
  BY <1>3 DEF Slots, Quiet, Active, Listing, ListRows, ListPage, ListLastPage,
     ListNobody, ListFails
<1>4. CASE ListRows
  BY <1>1, <1>3, <1>4 DEF ListRows, ListTargets
<1>5. CASE ListPage
  BY <1>5, OnePageHasAll DEF ListPage
<1>6. CASE ListLastPage
  <2>1. ASSUME NEW r \in Runner PROVE Strictly(r)'
    <3>1. r \in todo' => r \in todo
      BY <1>6 DEF ListLastPage
    <3>2. r \in todo /\ listed'[r] = "absent" => gh[r] = "gone"
      BY <1>6, UnheardIsGone DEF ListLastPage
    <3>3. pc[r] = "none"
      BY <1>3, <1>6 DEF ListLastPage, ListTargets
    <3> QED
      BY <1>1, <3>1, <3>2, <3>3
  <2> QED
    BY <1>1, <1>6, <2>1 DEF ListLastPage
<1>7. CASE ListNobody /\ ~Return
  BY <1>1, <1>3, <1>7 DEF ListNobody, ListTargets
<1>8. CASE (ListNobody \/ ListFails) /\ Return
  BY <1>1, <1>3, <1>8 DEF ListNobody, ListFails, ListTargets, Return
<1> QED
  BY <1>2, <1>4, <1>5, <1>6, <1>7, <1>8 DEF Listing, ListFails

\* So do the spawning and the end of the round.
LEMMA RoundStrictly ==
  ASSUME TypeOK, Slots, AllStrictly, Spawning \/ Finishing
  PROVE  AllStrictly'
<1> USE DEF AllStrictly, Strictly, Handled, Removed
<1>1. UNCHANGED <<row, age, world, proc, killed>>
  BY RoundFrame
<1>2. CASE Spawning
  BY <1>1, <1>2
     DEF Spawning, Spawn, Ignore, AcquireFails, SpawnedAll, TypeOK, WorkTypes
<1>3. CASE LoopExit
  BY <1>1, <1>3 DEF LoopExit
<1>4. CASE Finishing /\ ~LoopExit
  <2>1. \A r \in Runner : pc[r] = "none"
    BY <1>4 DEF Finishing, Wait, ReadTarget, WriteTarget, UpdateFails, Slots,
       Quiet, Active
  <2>2. UNCHANGED work
    BY <1>4, WorkFrame
  <2>3. page' = 0 /\ todo' \subseteq todo /\ mpc' # "spawn"
    BY <1>4 DEF Finishing, Wait, AfterWait, ReadTarget, WriteTarget,
       UpdateFails, Return
  <2> QED
    BY <1>1, <2>1, <2>2, <2>3
<1> QED
  BY <1>2, <1>3, <1>4

\* A goroutine deletes only the instances of runners that have left GitHub.
LEMMA WorkerStrictly ==
  ASSUME TypeOK, AllStrictly, NEW r \in Runner, Worker(r)
  PROVE  AllStrictly'
<1> USE DEF AllStrictly, Strictly, Handled, Removed
<1>1. UNCHANGED <<mpc, todo, listed, page>>
  BY WorkerFrame
<1>2. ASSUME NEW q \in Runner \ {r} PROVE Strictly(q)'
  BY <1>1, <1>2, WorkerElsewhere
<1>3. pc[r] # "none" /\ gh[r] # "booting"
  BY WorkerMoves DEF TypeOK
<1>4. Strictly(r)' /\ killed' = {}
  <2> USE DEF TypeOK, WorkTypes
  <2>1. CASE Keep(r)
    BY <1>1, <1>3, <2>1 DEF Keep, Settle
  <2>2. CASE Decide(r)
    BY <1>1, <1>3, <2>2 DEF Decide, Goto
  <2>3. CASE Unregister(r) \/ UnregisterFails(r)
    BY <1>1, <1>3, <2>3 DEF Unregister, UnregisterFails, Goto, WorldTypes
  <2>4. CASE Destroy(r) \/ DestroyFails(r)
    BY <1>1, <1>3, <2>4 DEF Destroy, DestroyFails, Goto, WorldTypes
  <2>5. CASE Erase(r)
    BY <1>1, <1>3, <2>5 DEF Erase, Settle, DbTypes
  <2>6. CASE EraseFails(r) \/ ReadErr(r)
    BY <1>1, <1>3, <2>6 DEF EraseFails, ReadErr, Goto
  <2>7. CASE WriteErr(r) \/ NoErr(r)
    BY <1>1, <1>3, <2>7 DEF WriteErr, NoErr, Settle
  <2> QED
    BY <2>1, <2>2, <2>3, <2>4, <2>5, <2>6, <2>7 DEF Worker
<1> QED
  BY <1>1, <1>2, <1>4

\* Recording a runner requires that it has registered.
LEMMA EnvironmentStrictly ==
  ASSUME OnePage, TypeOK, AllStrictly, Environment
  PROVE  AllStrictly'
<1> USE DEF AllStrictly, Strictly, Handled, Removed
<1>1. UNCHANGED <<inst, proc, round, work, killed>>
  BY EnvironmentFrame
<1>2. ASSUME NEW r \in Runner PROVE Strictly(r)'
  <2>1. /\ gh[r] = "gone" => gh'[r] = "gone"
        /\ gh[r] # "booting" => gh'[r] # "booting"
        /\ row'[r] # row[r] => row'[r] = "running" /\ gh'[r] # "booting"
    BY DEF OnePage, TypeOK, DbTypes, WorldTypes, Environment, Register, Record,
       Live, Grow, OtherWriter
  <2> QED
    BY <1>1, <2>1 DEF Reason
<1> QED
  BY <1>1, <1>2

\* AllStrictly is inductive.
LEMMA NextStrictly ==
  ASSUME OnePage, TypeOK, Slots, AllStrictly, Next
  PROVE  AllStrictly'
<1>1. CASE Stop
  BY <1>1 DEF Stop, AllStrictly, Strictly, Handled, Removed
<1>2. CASE Reboot \/ Crash
  BY <1>2, RestartFrame DEF Restart, AllStrictly, Strictly, Handled, Removed
<1> QED
  BY <1>1, <1>2, ListingStrictly, RoundStrictly, WorkerStrictly,
     EnvironmentStrictly DEF Next, Round

\* AllStrictly is invariant.
LEMMA StrictlyInvariant == ASSUME OnePage PROVE Spec => []AllStrictly
<1>1. Init => AllStrictly
  BY DEF Init, AllStrictly, Strictly, Handled, Removed, Reason
<1>2. TypeOK /\ Slots /\ AllStrictly /\ [Next]_vars => AllStrictly'
  <2>1. ASSUME AllStrictly, UNCHANGED vars PROVE AllStrictly'
    BY <2>1 DEF vars, AllStrictly, Strictly, Handled, Removed
  <2> QED
    BY <2>1, NextStrictly
<1> QED
  BY <1>1, <1>2, SlotsInvariant, PTL DEF Spec

\* In strict mode, with all runners on one page of GitHub's list, no instance
\* is deleted while it runs a job, however long the removal waited since the
\* list was made.
THEOREM JobsCorrect == OnePage => (Spec => []NoJobKilled)
<1> SUFFICES ASSUME OnePage PROVE Spec => []NoJobKilled
  OBVIOUS
<1>1. AllStrictly => NoJobKilled
  BY DEF AllStrictly, NoJobKilled
<1> QED
  BY <1>1, StrictlyInvariant, PTL

\* Under the same assumption, an erased row leaves neither an instance nor a
\* registration behind, whatever failed or crashed on the way.
THEOREM NothingLeftCorrect == OnePage => (Spec => []NothingLeft)
<1> SUFFICES ASSUME OnePage PROVE Spec => []NothingLeft
  OBVIOUS
<1>1. AllStrictly /\ AllRemoval => NothingLeft
  BY DEF AllStrictly, Strictly, AllRemoval, Removal, NothingLeft
<1> QED
  BY <1>1, StrictlyInvariant, RemovalInvariant, PTL
=============================================================================
