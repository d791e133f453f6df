------------------------------ MODULE Services ------------------------------
(***************************************************************************)
(* The services around the starter and the runner manager, in one          *)
(* specification: the targets API, the lock of the database, the renewal   *)
(* of the targets' tokens, the two caches of pkg/gh, and the ways in which *)
(* a job comes into the table jobs.                                        *)
(*                                                                         *)
(* As they are modelled they share no variable, so that their steps        *)
(* commute: a behaviour follows one of them, and the others rest.          *)
(***************************************************************************)
EXTENDS Targets, ServerLock, TargetToken, RegistrationToken, Installations,
        Intake

VARIABLE active    \* the service that this behaviour follows

vars == <<active, tvars, lvars, kvars, gvars, ivars, nvars>>

Init ==
  /\ active \in {"targets", "lock", "tokens", "registration",
                 "installations", "intake"}
  /\ InitTargets
  /\ active # "targets" => Rows = {} /\ ~ghes /\ zero = "nothing"
  /\ InitServerLock /\ InitTargetToken /\ InitRegistrationToken
  /\ InitInstallations /\ InitIntake
  /\ active # "intake" =>
       mode = "workflow_job" /\ firstPage = GhJob /\ runs = "miss"

Next ==
  /\ UNCHANGED active
  /\ \/ /\ active = "targets" /\ NextTargets
        /\ UNCHANGED <<lvars, kvars, gvars, ivars, nvars>>
     \/ /\ active = "lock" /\ NextServerLock
        /\ UNCHANGED <<tvars, kvars, gvars, ivars, nvars>>
     \/ /\ active = "tokens" /\ NextTargetToken
        /\ UNCHANGED <<tvars, lvars, gvars, ivars, nvars>>
     \/ /\ active = "registration" /\ NextRegistrationToken
        /\ UNCHANGED <<tvars, lvars, kvars, ivars, nvars>>
     \/ /\ active = "installations" /\ NextInstallations
        /\ UNCHANGED <<tvars, lvars, kvars, gvars, nvars>>
     \/ /\ active = "intake" /\ NextIntake
        /\ UNCHANGED <<tvars, lvars, kvars, gvars, ivars>>

\* The loop of Run goes on, and MySQL notices that a client is gone.
FairServerLock ==
  /\ \A s \in Server : WF_lvars(active = "lock" /\ RunSteps(s))
  /\ WF_lvars(active = "lock" /\ GhostEnds)

\* The runner manager's ticker goes on.
FairTargetToken == WF_kvars(active = "tokens" /\ RoundSteps)

\* The rescue loop runs, its caches expire, time passes, and the starter
\* works on its rows (module Starter).
FairIntake ==
  /\ WF_nvars(active = "intake" /\ RescueSteps)
  /\ WF_nvars(active = "intake" /\ ExpireRuns)
  /\ WF_nvars(active = "intake" /\ ExpireJobs)
  /\ WF_nvars(active = "intake" /\ Age)
  /\ \A j \in GhJob, event \in {"workflow_job", "check_run"} :
       WF_nvars(active = "intake" /\ TakeRow(<<j, event>>))

Spec ==
  /\ Init /\ [][Next]_vars
  /\ FairManager /\ FairServerLock /\ FairTargetToken /\ FairIntake

TypeOK ==
  /\ TargetsTypeOK /\ ServerLockTypeOK /\ TargetTokenTypeOK
  /\ RegistrationTokenTypeOK /\ InstallationsTypeOK /\ IntakeTypeOK

=============================================================================
