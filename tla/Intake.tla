------------------------------- MODULE Intake -------------------------------
(***************************************************************************)
(* How a job of GitHub Actions gets into the table jobs: the webhook       *)
(* handler (pkg/web/webhook.go), or the rescue loop of the starter, which  *)
(* every ten seconds looks for workflow runs that have been queued for ten *)
(* minutes (starter.go reRunWorkflow, pkg/datastore/github.go) in the      *)
(* repositories that had a runner within the hour.                         *)
(*                                                                         *)
(* One repository with one workflow run of several jobs, a target for the  *)
(* repository and one for its organization.  What follows an insertion is  *)
(* module Starter; here a row is taken and a runner comes up.              *)
(***************************************************************************)
EXTENDS Integers, FiniteSets

CONSTANTS
  GhJob,        \* the jobs of the run
  Labelled,     \* those whose labels IsRequestedMyshoesLabel accepts
  MaxUpsets     \* bound: lost webhooks, failed calls, changed targets, a run
                \* that is one of the newest no more

ASSUME IntakeAssumption ==
  /\ Labelled \subseteq GhJob
  /\ MaxUpsets \in Nat

VARIABLES
  mode,      \* config.Config.ModeWebhookType
  live,      \* the targets, of "repo" and "org", that can receive jobs
  ghstatus,  \* the status of each job at GitHub; "taken": it has a runner
  aged,      \* the run was created ten minutes ago or more
  hook,      \* the webhook of each job and the handler it runs in
  rows,      \* the table jobs: a job and the event that its JSON holds; rows
             \* with the same job and event are one
  waiting,   \* runners that have no job yet
  recent,    \* a runner was created within the last hour
  rescue,    \* the rescue loop
  newest,    \* the run is among the hundred newest ones of the repository
  firstPage, \* its jobs on the first page of GitHub's list of them
  runs,      \* responseCache: the list of runs, if our run was queued in it
  jobsOf,    \* responseCache: the jobs of the run that were queued
  inserted,  \* history: jobs inserted since the rescue loop listed the rows,
             \* while it is working on the run
  upsets

nvars == <<mode, live, ghstatus, aged, hook, rows, waiting, recent, rescue,
           newest, firstPage, runs, jobsOf, inserted, upsets>>

\* The target that SearchRepo has found; history: the repository's own could
\* not receive jobs at some time since the search began.
NoSearch == [found |-> "none", off |-> FALSE]

\* The list of runs may have been cached before this run was created.  GitHub
\* lists the jobs of a run by pages of thirty, in an order of its own; of the
\* jobs of other runners the first page has all: a bound.
\* check_run events are followed without upsets: a bound.
InitIntake ==
  /\ mode \in {"workflow_job", "check_run"}
  /\ live = {"repo", "org"}
  /\ ghstatus = [j \in GhJob |-> "queued"] /\ aged = FALSE
  /\ hook = [j \in GhJob |-> [pc |-> "sent", search |-> NoSearch]]
  /\ rows = {}
  /\ waiting = 0 /\ recent = TRUE
  /\ rescue = [pc |-> "tick", jobs |-> {}, search |-> NoSearch]
  /\ newest = TRUE
  /\ firstPage \in {GhJob \ beyond : beyond \in SUBSET Labelled} \ {{}}
  /\ mode = "check_run" => firstPage = GhJob
  /\ runs \in {"miss", "other"} /\ jobsOf = {"miss"}
  /\ inserted = {}
  /\ upsets = IF mode = "check_run" THEN MaxUpsets ELSE 0

IntakeTypeOK ==
  /\ live \subseteq {"repo", "org"}
  /\ ghstatus \in [GhJob -> {"queued", "taken"}]
  /\ \A j \in GhJob :
       hook[j].pc \in {"sent", "lost", "org", "enqueue", "over"}
  /\ rows \subseteq GhJob \X {"workflow_job", "check_run"}
  /\ rescue.pc \in {"tick", "runs", "list", "repo", "org", "jobs", "enqueue"}
  /\ rescue.jobs \subseteq GhJob
  /\ firstPage \subseteq GhJob
  /\ runs \in {"miss", "queued", "other"}
  /\ jobsOf = {"miss"} \/ jobsOf \subseteq GhJob
  /\ upsets \in 0 .. MaxUpsets

Upset == upsets < MaxUpsets /\ upsets' = upsets + 1

\* GitHub's status of the run: queued until one of its jobs has started.
RunStatus ==
  IF \A j \in GhJob : ghstatus[j] = "queued" THEN "queued" ELSE "other"

----------------------------------------------------------------------------
(* SearchRepo: the repository's target if it can receive jobs, else the    *)
(* organization's; two queries.                                            *)

Searched(search, t) ==
  [found |-> t, off |-> search.off \/ "repo" \notin live]

\* Mutant: the target of the organization is taken when there is one.
OrgFirst == "org" \notin live

RepoReceives == "repo" \in live

\* EnqueueJob
EnqueueRow(j, event) == rows' = rows \cup {<<j, event>>}

----------------------------------------------------------------------------
(* The webhook of a job, and its handler.                                  *)

Rescuing(pc) == pc \in {"repo", "org", "jobs", "enqueue"}

Hooked(j, pc, search) ==
  /\ hook' = [hook EXCEPT ![j] = [pc |-> pc, search |-> search]]
  /\ UNCHANGED <<mode, live, ghstatus, aged, waiting, recent, rescue, newest,
                 firstPage, runs, jobsOf>>

\* The delivery fails, or is refused: GitHub does not repeat it.
Lose(j) ==
  /\ hook[j].pc = "sent" /\ Upset
  /\ Hooked(j, "lost", NoSearch)
  /\ UNCHANGED <<rows, inserted>>

\* receiveWorkflowJobWebhook takes the jobs whose labels ask for myshoes,
\* receiveCheckRunWebhook takes every check run.
Requested(j) == mode = "check_run" \/ j \in Labelled

Ignore(j) ==
  /\ hook[j].pc = "sent" /\ ~Requested(j)
  /\ Hooked(j, "over", NoSearch)
  /\ UNCHANGED <<rows, inserted, upsets>>

\* processCheckRun up to SearchRepo's first query.
Receive(j) ==
  /\ hook[j].pc = "sent" /\ Requested(j)
  /\ IF RepoReceives
     THEN Hooked(j, "enqueue", Searched(NoSearch, "repo"))
     ELSE Hooked(j, "org", Searched(NoSearch, "none"))
  /\ UNCHANGED <<rows, inserted, upsets>>

\* Its second query; no target that can receive jobs: 500.
ReceiveOrg(j) ==
  /\ hook[j].pc = "org"
  /\ IF "org" \in live
     THEN Hooked(j, "enqueue", Searched(hook[j].search, "org"))
     ELSE Hooked(j, "lost", NoSearch)
  /\ UNCHANGED <<rows, inserted, upsets>>

WebhookEnqueues(j) ==
  /\ hook[j].pc = "enqueue"
  /\ EnqueueRow(j, mode)
  /\ inserted' = IF Rescuing(rescue.pc) THEN inserted \cup {j} ELSE {}
  /\ Hooked(j, "over", NoSearch)
  /\ UNCHANGED upsets

\* The insertion fails: 500, and GitHub does not repeat the delivery.
WebhookFails(j) ==
  /\ hook[j].pc = "enqueue" /\ Upset
  /\ Hooked(j, "lost", NoSearch)
  /\ UNCHANGED <<rows, inserted>>

----------------------------------------------------------------------------
(* The rescue loop.                                                        *)

Rescue(pc, jobs, search) ==
  /\ rescue' = [pc |-> pc, jobs |-> jobs, search |-> search]
  /\ inserted' = IF Rescuing(pc) THEN inserted \cup (rescue.jobs \ jobs)
                 ELSE {}
  /\ UNCHANGED <<mode, live, ghstatus, aged, hook, waiting, recent, newest,
                 firstPage>>

GiveUp == Rescue("tick", {}, NoSearch)

\* A tick: getRecentRepositories, and a client for the repository, for which
\* it needs a target (NewClientInstallationByRepo).
RescueTick ==
  /\ rescue.pc = "tick" /\ recent /\ live # {}
  /\ Rescue("runs", {}, NoSearch)
  /\ UNCHANGED <<rows, runs, jobsOf, upsets>>

\* ListWorkflowRunsNewest, from the cache or from GitHub: the newest page of
\* a hundred, as that is over the limit of fifty.  getPendingRunByRepo takes
\* the runs in it that are queued and old enough.
ListRuns ==
  LET fetched == IF newest THEN RunStatus ELSE "other"
      list == IF runs = "miss" THEN fetched ELSE runs IN
  /\ rescue.pc = "runs"
  /\ runs' = list
  /\ IF list = "queued" /\ aged THEN Rescue("list", {}, NoSearch) ELSE GiveUp
  /\ UNCHANGED <<rows, jobsOf, upsets>>

\* Mutant: the rows are compared by the id of the job.
NeverKnown == FALSE

\* The run of a row is known from the JSON of a workflow_job event, that of a
\* check_run event says nothing (its run id is 0).
RunHasRow == \E row \in rows : row[2] = "workflow_job"

\* GetPendingWorkflowRunByRecentRepositories: ListJobs, and a run with a row
\* in the table is ignored.
CompareRows ==
  /\ rescue.pc = "list"
  /\ IF RunHasRow THEN GiveUp ELSE Rescue("repo", {}, NoSearch)
  /\ UNCHANGED <<rows, runs, jobsOf, upsets>>

\* enqueueRescueRun searches the target again.
RescueSearch ==
  /\ rescue.pc = "repo"
  /\ IF RepoReceives THEN Rescue("jobs", {}, Searched(NoSearch, "repo"))
                     ELSE Rescue("org", {}, Searched(NoSearch, "none"))
  /\ UNCHANGED <<rows, runs, jobsOf, upsets>>

RescueSearchOrg ==
  /\ rescue.pc = "org"
  /\ IF "org" \in live
     THEN Rescue("jobs", {}, Searched(rescue.search, "org"))
     ELSE GiveUp
  /\ UNCHANGED <<rows, runs, jobsOf, upsets>>

\* Mutant: the labels of the jobs are not looked at.
AnyLabel(jobs) == jobs

Wanted(jobs) == jobs \cap Labelled

\* ListWorkflowJobByRunID, from the cache or from GitHub, one page only; the
\* jobs in it that are queued and have a label of myshoes.
ListRunJobs ==
  LET list == IF jobsOf = {"miss"}
              THEN {j \in firstPage : ghstatus[j] = "queued"} ELSE jobsOf IN
  /\ rescue.pc = "jobs"
  /\ jobsOf' = list
  /\ IF Wanted(list) # {}
     THEN Rescue("enqueue", Wanted(list), rescue.search) ELSE GiveUp
  /\ UNCHANGED <<rows, runs, upsets>>

\* enqueueRescueJob, for one job after the other.
RescueEnqueues(j) ==
  /\ rescue.pc = "enqueue" /\ j \in rescue.jobs
  /\ EnqueueRow(j, "workflow_job")
  /\ IF rescue.jobs = {j} THEN GiveUp
     ELSE Rescue("enqueue", rescue.jobs \ {j}, rescue.search)
  /\ UNCHANGED <<runs, jobsOf, upsets>>

\* A call fails: this run is left until the next tick, with the jobs that
\* were enqueued already.
RescueFails ==
  /\ rescue.pc # "tick" /\ Upset
  /\ GiveUp
  /\ UNCHANGED <<rows, runs, jobsOf>>

\* Mutant: the list of runs is cached for ever.
KeepsRuns == UNCHANGED nvars

\* Three minutes after it was cached, the list of runs is dropped ...
ExpireRuns ==
  /\ runs # "miss" /\ runs' = "miss"
  /\ UNCHANGED <<mode, live, ghstatus, aged, hook, rows, waiting, recent,
                 rescue, newest, firstPage, jobsOf, inserted, upsets>>

\* ... and that of the jobs after one.
ExpireJobs ==
  /\ jobsOf # {"miss"} /\ jobsOf' = {"miss"}
  /\ UNCHANGED <<mode, live, ghstatus, aged, hook, rows, waiting, recent,
                 rescue, newest, firstPage, runs, inserted, upsets>>

----------------------------------------------------------------------------
(* The surroundings.                                                       *)

\* The starter creates a runner for a row and deletes the row (ProcessJob).
TakeRow(row) ==
  /\ row \in rows /\ rows' = rows \ {row}
  /\ waiting' = IF waiting < Cardinality(Labelled)
                THEN waiting + 1 ELSE waiting
  /\ recent' = TRUE
  /\ UNCHANGED <<mode, live, ghstatus, aged, hook, rescue, newest, firstPage,
                 runs, jobsOf, inserted, upsets>>

\* A runner takes any queued job that has its labels.
JobRuns(j) ==
  /\ waiting > 0 /\ ghstatus[j] = "queued" /\ j \in Labelled
  /\ waiting' = waiting - 1
  /\ ghstatus' = [ghstatus EXCEPT ![j] = "taken"]
  /\ UNCHANGED <<mode, live, aged, hook, rows, recent, rescue, newest,
                 firstPage, runs, jobsOf, inserted, upsets>>

\* Ten minutes pass; an hour passes without a new runner.
Age ==
  /\ ~aged /\ aged' = TRUE
  /\ UNCHANGED <<mode, live, ghstatus, hook, rows, waiting, recent, rescue,
                 newest, firstPage, runs, jobsOf, inserted, upsets>>

Forget ==
  /\ recent /\ aged /\ recent' = FALSE
  /\ UNCHANGED <<mode, live, ghstatus, aged, hook, rows, waiting, rescue,
                 newest, firstPage, runs, jobsOf, inserted, upsets>>

\* A hundred newer runs have been created.
Bury ==
  /\ newest /\ Upset /\ newest' = FALSE
  /\ UNCHANGED <<mode, live, ghstatus, aged, hook, rows, waiting, recent,
                 rescue, firstPage, runs, jobsOf, inserted>>

\* History of a search that has begun: the repository's target is off now.
Notices(search, next) ==
  IF search.found = "none" /\ ~search.off THEN search
  ELSE [search EXCEPT !.off = @ \/ "repo" \notin next]

\* A target is deleted, or created (module Targets).
Toggle(t) ==
  LET next == IF t \in live THEN live \ {t} ELSE live \cup {t} IN
  /\ Upset
  /\ live' = next
  /\ hook' = [j \in GhJob |-> [hook[j] EXCEPT !.search = Notices(@, next)]]
  /\ rescue' = [rescue EXCEPT !.search = Notices(@, next)]
  /\ UNCHANGED <<mode, ghstatus, aged, rows, waiting, recent, newest,
                 firstPage, runs, jobsOf, inserted>>

WebhookSteps(j) ==
  \/ Receive(j) \/ Ignore(j) \/ ReceiveOrg(j) \/ WebhookEnqueues(j)
  \/ WebhookFails(j)

RescueSteps ==
  \/ RescueTick \/ ListRuns \/ CompareRows \/ RescueSearch
  \/ RescueSearchOrg \/ ListRunJobs \/ RescueFails
  \/ \E j \in GhJob : RescueEnqueues(j)

NextIntake ==
  \/ \E j \in GhJob : \/ Lose(j) \/ WebhookSteps(j) \/ JobRuns(j)
  \/ \E row \in rows : TakeRow(row)
  \/ RescueSteps \/ ExpireRuns \/ ExpireJobs
  \/ Age \/ Forget \/ Bury \/ \E t \in {"repo", "org"} : Toggle(t)

----------------------------------------------------------------------------

\* "We ignore the pending run if the job is already queued" (github.go:57):
\* when the rescue loop enqueues a job, every row of the run has come into
\* the table since the loop listed it.  Rows of check_run events are not
\* recognized.
QueuedRunsIgnored ==
  [][\A j \in GhJob :
       RescueEnqueues(j) =>
         \A w \in rows : w[2] = "workflow_job" => w[1] \in inserted
    ]_nvars

\* Whichever way a job comes in, it has a label of myshoes: the rescue loop
\* looks at whole runs, with jobs for other runners.
OnlyLabelled == \A row \in rows : row[1] \in Labelled \/ row[2] = "check_run"

\* A job is enqueued for the target of the organization only if that of the
\* repository could not receive jobs at some time since its handler, or the
\* rescue loop, began to search.
RightTarget ==
  [][\A j \in GhJob :
       /\ WebhookEnqueues(j) /\ hook[j].search.found = "org"
            => hook[j].search.off
       /\ RescueEnqueues(j) /\ rescue.search.found = "org"
            => rescue.search.off]_nvars

\* A job whose webhook is lost gets a row, or GitHub gives it a runner, in
\* workflow_job mode, if it is on the first page of the run's jobs
\* (workflow_job.go:24): as long as its run has not started in part (a run that
\* is in progress is not rescued, github.go:143) and is among the newest ones
\* (workflow_run.go:46), the repository had a runner within the hour, and
\* there is a target.
LostIsRescued ==
  \A j \in Labelled :
    j \in firstPage /\ hook[j].pc = "lost" /\ ghstatus[j] = "queued"
      /\ mode = "workflow_job"
      ~> \/ <<j, "workflow_job">> \in rows \/ RunStatus # "queued"
         \/ ~recent \/ ~newest \/ live = {}

=============================================================================
