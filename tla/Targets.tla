------------------------------ MODULE Targets ------------------------------
(***************************************************************************)
(* The targets API (pkg/web/target.go, target_create.go) on the rows of    *)
(* the table targets (pkg/datastore/mysql/target.go), and the two services *)
(* that write the status of a target: the starter and the runner manager   *)
(* (datastore.UpdateTargetStatus).                                         *)
(*                                                                         *)
(* One scope.  Each handler of the HTTP server runs in a goroutine of its  *)
(* own and makes one database call per step; nothing is in a transaction.  *)
(* The checks of a creation against GitHub come before its first call of   *)
(* the database (modules Installations and TargetToken).                  *)
(***************************************************************************)
EXTENDS Integers, ResourceTypes

CONSTANTS
  Request,      \* the requests that can be in flight at once
  Target,       \* the UUIDs of the rows that can be created for the scope
  TypeNames,    \* resource types in bodies; "" stands for a field left out
  Url,          \* provider URLs
  Start,        \* statuses the first row may have to begin with, or "none"
  Writers,      \* the services that run, of "starter" and "manager"
  MaxWork,      \* bound: requests that write and jobs in a behaviour
  MaxRunners,   \* bound: runners of a target
  MaxFaults     \* bound: failed database calls in a behaviour

\* 0 stands for no row, "null" for SQL's NULL, "" for an empty string.
ASSUME TargetsAssumption ==
  /\ 1 \in Target /\ 0 \notin Target
  /\ Url \cap {"", "null"} = {}
  /\ Start \subseteq {"none", "active", "running", "suspend", "deleted",
                     "error"}
  /\ Writers \subseteq {"starter", "manager"}
  /\ MaxWork \in Nat /\ MaxRunners \in Nat /\ MaxFaults \in Nat

VARIABLES
  ghes,      \* config.Config.IsGHES(): ghe_domain is set in new rows
  zero,      \* what is special with a target without runners: nothing; its
             \* runners are "once" (RUNNER_VERSION is an old one), which makes
             \* it an error; GitHub has "others" in its scope
  row,       \* the rows of the table targets
  runners,   \* number of runners of each target
  req,       \* the requests: where they are and what they know
  svc,       \* the services: where they are and what they know
  work, faults   \* how many so far

tvars == <<ghes, zero, row, runners, req, svc, work, faults>>

TargetStatus == {"active", "running", "suspend", "deleted", "error"}

NoRow == [status |-> "none", type |-> "", url |-> "null"]

Rows == {t \in Target : row[t].status # "none"}

\* A body of POST /target or POST /target/:id; url is null when left out.
Body == [scope : {"", "owner/repo"}, type : TypeNames \cup {""},
         url : {"null", ""} \cup Url]

\* The parameters of a body, its type decoded.
Asked(b) == [type |-> UnmarshalJSON(b.type), url |-> b.url]
NoParam  == [type |-> Unknown, url |-> "null"]

\* CanReceiveJob
CanReceiveJob(t) == row[t].status \notin {"suspend", "deleted"}

\* What the goroutine of a request knows: the row it works on, what the body
\* asks for and the parameters the row had when it was read.  History: the
\* rows there were when a creation came in, and whether another request has
\* written the parameters of the row since they were read.
NoRequest == [pc |-> "idle", kind |-> "none", id |-> 0, asked |-> NoParam,
              old |-> NoParam, before |-> {}, disturbed |-> FALSE]

\* What a service knows: the status it is about to write, in a round of the
\* manager the one the target was listed with.  History, deleted: whether its
\* row was deleted since it read the status.
NoWrite == [pc |-> "idle", id |-> 0, new |-> "active", deleted |-> FALSE]

TargetsTypeOK ==
  /\ ghes \in BOOLEAN /\ zero \in {"nothing", "once", "others"}
  /\ \A t \in Rows : /\ row[t].status \in TargetStatus
                     /\ row[t].type \in Enum
                     /\ row[t].url \in Url \cup {"null"}
  /\ runners \in [Target -> 0 .. MaxRunners]
  /\ \A r \in Request :
       /\ req[r].pc \in {"idle", "insert", "revive", "param", "erase",
                         "answer"}
       /\ req[r].pc \in {"revive", "param", "erase", "answer"}
            => req[r].id \in Rows
  /\ \A s \in Writers :
       /\ svc[s].pc \in {"idle", "read", "write", "add", "list", "sweep"}
       /\ svc[s].new \in TargetStatus
  /\ work \in 0 .. MaxWork /\ faults \in 0 .. MaxFaults

\* Nothing is inserted where there is a row already: ghes does not matter.
\* zero is anything where a runner can run at once: a bound.
InitTargets ==
  /\ \E s \in Start :
       /\ zero \in IF s \in {"none", "deleted"} THEN {"nothing"}
                   ELSE {"nothing", "once", "others"}
       /\ ghes \in IF s = "none" THEN BOOLEAN ELSE {FALSE}
       /\ row = [t \in Target |->
                   IF t = 1 /\ s # "none"
                   THEN [status |-> s, type |-> "nano", url |-> "null"]
                   ELSE NoRow]
       /\ runners = [t \in Target |-> IF t = 1 /\ s = "running"
                                      THEN MaxRunners ELSE 0]
  /\ req = [r \in Request |-> NoRequest]
  /\ svc = [s \in Writers |-> NoWrite]
  /\ work = 0 /\ faults = 0

----------------------------------------------------------------------------
(* What every step has in common.                                          *)

\* A call fails, or its answer is lost although what it asks for is done.
DbFails ==
  /\ faults < MaxFaults
  /\ faults' = faults + 1

\* Request r goes on as q, the table becomes rows; history of the others.
Step(r, q, rows) ==
  /\ row' = rows
  /\ req' = [o \in Request |->
       LET k == IF o = r THEN q ELSE req[o] IN
         [k EXCEPT !.disturbed = @ \/ /\ o # r /\ k.id # 0
                                      /\ \/ rows[k.id].type # row[k.id].type
                                         \/ rows[k.id].url # row[k.id].url]]
  /\ svc' = [s \in Writers |->
       [svc[s] EXCEPT !.deleted = @ \/ /\ svc[s].pc = "write"
                                       /\ rows[svc[s].id] # row[svc[s].id]
                                       /\ rows[svc[s].id].status = "deleted"]]
  /\ UNCHANGED <<ghes, zero, runners>>

\* The handler answers without having changed anything in this step: with an
\* error, 400 or 500, or as a handler that only reads.
Ends(r) == Step(r, NoRequest, row)

Idle(r) == req[r].pc = "idle"

\* A request that will write comes in, on a goroutine of its own.
Comes(r) ==
  /\ Idle(r) /\ work < MaxWork
  /\ work' = work + 1

Goes == UNCHANGED work

\* A handler writes, and goes on as q.  If the answer of the database is lost
\* (the context of the request ends, the connection breaks) the rows are
\* written and the client gets a 500.
Writes(r, q, rows) ==
  /\ Goes
  /\ \/ Step(r, q, rows) /\ UNCHANGED faults
     \/ Step(r, NoRequest, rows) /\ DbFails

\* The parameters of row t.
ParamOf(t) == [type |-> Scan(row[t].type), url |-> row[t].url]

\* A creation that has looked, a request that has read row t.
Creation(pc, t, b) ==
  [pc |-> pc, kind |-> "create", id |-> t, asked |-> Asked(b),
   old |-> IF t = 0 THEN NoParam ELSE ParamOf(t),
   before |-> Rows, disturbed |-> FALSE]
Reading(t, b) ==
  [pc |-> "param", kind |-> "update", id |-> t, asked |-> Asked(b),
   old |-> ParamOf(t), before |-> {}, disturbed |-> FALSE]

----------------------------------------------------------------------------
(* POST /target                                                            *)

\* isValidTargetCreateParam
ValidCreate(b) == b.scope # "" /\ UnmarshalJSON(b.type) # Unknown

\* An invalid body (400), or one of the calls that come before the database
\* fails (400 or 500): the purge of the cache, the installation, its token,
\* isValidScopeAndToken.
CreateRefused(r) == Idle(r) /\ Ends(r) /\ UNCHANGED <<work, faults>>

\* Mutant: the scope is taken to be unknown.
LookupIgnored(r, b) ==
  /\ Comes(r) /\ ValidCreate(b)
  /\ Step(r, Creation("insert", 0, b), row)
  /\ UNCHANGED faults

\* GetTargetByScope and the switch on what it found.  The query has no
\* ORDER BY: with two rows of the scope, it is either.
Lookup(r, b) ==
  /\ Comes(r) /\ ValidCreate(b)
  /\ \/ Rows = {} /\ Step(r, Creation("insert", 0, b), row)
     \/ \E t \in Rows : /\ row[t].status = "deleted"
                        /\ Step(r, Creation("revive", t, b), row)
  /\ UNCHANGED faults

\* "already registered" (400), or the query fails (500).
LookupEnds(r) ==
  /\ Idle(r)
  /\ \/ (\E t \in Rows : row[t].status # "deleted") /\ UNCHANGED faults
     \/ DbFails
  /\ Ends(r) /\ Goes

toNullString(url) == IF url = "" THEN "null" ELSE url

\* The unique key (ghe_domain, scope) lets rows without a domain pass: in
\* MySQL two NULLs are different.
KeyFree == ~ghes \/ Rows = {}

\* CreateTarget; the status is the column's default.  That there is a UUID
\* left is a bound.
Insert(r) ==
  /\ req[r].pc = "insert" /\ KeyFree /\ Rows # Target
  /\ LET t == CHOOSE t \in Target \ Rows : TRUE IN
       Writes(r, [req[r] EXCEPT !.pc = "answer", !.id = t],
              [row EXCEPT ![t] =
                 [status |-> "active", type |-> Value(req[r].asked.type),
                  url |-> toNullString(req[r].asked.url)]])

InsertFails(r) ==
  /\ req[r].pc = "insert"
  /\ \/ KeyFree /\ DbFails
     \/ ~KeyFree /\ UNCHANGED faults
  /\ Ends(r) /\ Goes

\* ds.UpdateTargetStatus(Active, ""): the raw statement, without a check.
Revive(r) ==
  /\ req[r].pc = "revive"
  /\ Writes(r, [req[r] EXCEPT !.pc = "param"],
            [row EXCEPT ![req[r].id].status = "active"])

----------------------------------------------------------------------------
(* POST /target/:id                                                        *)

\* No such row, a body that names another scope (validateUpdateTarget; the
\* scope cannot be left out) or a failed call: 400.
UpdateRefused(r) ==
  /\ Idle(r) /\ Ends(r) /\ Goes
  /\ UNCHANGED faults \/ DbFails

UpdateBegins(r, t, b) ==
  /\ Comes(r) /\ t \in Rows /\ b.scope # ""
  /\ Step(r, Reading(t, b), row)
  /\ UNCHANGED faults

getWillUpdateTargetVariable(old, asked) ==
  [type |-> IF asked.type = Unknown THEN old.type ELSE asked.type,
   url |-> IF asked.url = "null" THEN old.url ELSE toNullString(asked.url)]

\* UpdateTargetParam, for an update and for a creation that revives a row:
\* both columns, from the row read before.
Param(r) ==
  /\ req[r].pc = "param"
  /\ LET new == getWillUpdateTargetVariable(req[r].old, req[r].asked) IN
       /\ Value(new.type) \in Enum
       /\ Writes(r, [req[r] EXCEPT !.pc = "answer"],
                 [row EXCEPT ![req[r].id].type = Value(new.type),
                             ![req[r].id].url = new.url])

\* GetTarget after the write: 201 for a creation, 200 for an update, with the
\* row as it is now.
AnswerWithRow(r) ==
  /\ req[r].pc = "answer"
  /\ Ends(r) /\ Goes /\ UNCHANGED faults

\* Mutant: a call that fails is only logged.
CallIgnored(r) ==
  /\ req[r].pc \in {"revive", "param"}
  /\ DbFails
  /\ Step(r, [req[r] EXCEPT !.pc = IF @ = "revive" THEN "param" ELSE "answer"],
          row)
  /\ Goes

\* Revive, Param, the last GetTarget and DeleteTarget answer 500 if they
\* fail: what the request has written so far stays, with this call or not
\* (Writes).
CallFails(r) ==
  /\ req[r].pc \in {"revive", "param", "answer", "erase"}
  /\ DbFails /\ Ends(r) /\ Goes

----------------------------------------------------------------------------
(* GET /target, GET /target/:id and DELETE /target/:id                     *)

\* handleTargetRead and handleTargetList, which answers with the targets that
\* can receive jobs; if its query fails it goes on, but 500 has been sent.
Read(r) ==
  /\ Idle(r) /\ Ends(r) /\ Goes
  /\ UNCHANGED faults \/ DbFails

\* No such row, a running or a deleted one, or a failed call: 400.
DeleteRefused(r, t) ==
  /\ Idle(r) /\ Ends(r) /\ Goes
  /\ \/ /\ row[t].status \in {"none", "running", "deleted"}
        /\ UNCHANGED faults
     \/ DbFails

DeleteBegins(r, t) ==
  /\ Comes(r)
  /\ row[t].status \notin {"none", "running", "deleted"}
  /\ Step(r, [NoRequest EXCEPT !.pc = "erase", !.kind = "delete", !.id = t],
          row)
  /\ UNCHANGED faults

\* Mutant: the row is deleted instead of marked.
EraseForGood(r) ==
  /\ req[r].pc = "erase"
  /\ Step(r, NoRequest, [row EXCEPT ![req[r].id] = NoRow])
  /\ Goes /\ UNCHANGED faults

\* DeleteTarget: 204.
Erase(r) ==
  /\ req[r].pc = "erase"
  /\ Writes(r, NoRequest, [row EXCEPT ![req[r].id].status = "deleted"])

----------------------------------------------------------------------------
(* The services that write the status.                                     *)

Serves(s, next) ==
  /\ svc' = [svc EXCEPT ![s] = next]
  /\ UNCHANGED <<ghes, zero, req>>

\* ProcessJob takes a job of the target; the job may have been enqueued
\* before the target was deleted.
JobStarts(t) ==
  /\ svc["starter"].pc = "idle" /\ work < MaxWork /\ t \in Rows
  /\ work' = work + 1
  /\ Serves("starter",
            [NoWrite EXCEPT !.pc = "read", !.id = t, !.new = "running"])
  /\ UNCHANGED <<row, runners, faults>>

\* The instance is created and CreateRunner inserts its row; if its answer
\* is lost, or DeleteJob fails, ProcessJob marks the target.
RunnerStarts ==
  LET w == svc["starter"] IN
  /\ w.pc = "add" /\ runners[w.id] < MaxRunners
  /\ runners' = [runners EXCEPT ![w.id] = @ + 1]
  /\ \/ Serves("starter", NoWrite) /\ UNCHANGED faults
     \/ /\ Serves("starter", [NoWrite EXCEPT !.pc = "read", !.id = w.id,
                                !.new = "error"])
        /\ DbFails
  /\ UNCHANGED <<row, work>>

\* It is not: ProcessJob marks the target.
JobFails ==
  /\ svc["starter"].pc = "add"
  /\ Serves("starter", [NoWrite EXCEPT !.pc = "read",
                          !.id = svc["starter"].id, !.new = "error"])
  /\ UNCHANGED <<row, runners, work, faults>>

\* A job whose labels are invalid is deleted, and the status of the target
\* left as it is; so it is when GetTarget fails, or the process ends here.
JobRejected ==
  /\ svc["starter"].pc = "add"
  /\ Serves("starter", NoWrite)
  /\ UNCHANGED <<row, runners, work, faults>>

\* A round of the manager reads a target with ListTargets.
RoundBegins(t) ==
  /\ svc["manager"].pc = "idle" /\ t \in Rows /\ CanReceiveJob(t)
  /\ Serves("manager",
            [NoWrite EXCEPT !.pc = "list", !.id = t, !.new = row[t].status])
  /\ UNCHANGED <<row, runners, work, faults>>

\* removeRunners lists the runners of the target in the table and those of
\* the scope at GitHub, and there are some.  One that has registered may have
\* no row yet.
RoundFindsSome ==
  LET w == svc["manager"] IN
  /\ w.pc = "list"
  /\ \/ zero = "others"
     \/ \E t \in Target : runners[t] > 0
     \/ \E s \in Writers : svc[s].pc = "add"
  /\ Serves("manager", [w EXCEPT !.pc = "sweep"])
  /\ UNCHANGED <<row, runners, work, faults>>

\* There are none, here or there: the round ends before it marks the target.
\* It is an error if the runners are not ephemeral; else this very error is
\* taken back (the description of an error is left out).
RoundFindsNone ==
  LET w == svc["manager"] IN
  /\ w.pc = "list" /\ runners[w.id] = 0
  /\ \/ /\ zero = "once"
        /\ Serves("manager", [w EXCEPT !.pc = "read", !.new = "error"])
     \/ /\ zero = "nothing" /\ w.new = "error"
        /\ Serves("manager", [w EXCEPT !.pc = "read", !.new = "active"])
     \/ /\ zero = "nothing"
        /\ Serves("manager", NoWrite)
  /\ UNCHANGED <<row, runners, work, faults>>

\* One of the lists fails: so does the round, for this target.
RoundFails ==
  /\ svc["manager"].pc = "list"
  /\ DbFails
  /\ Serves("manager", NoWrite)
  /\ UNCHANGED <<row, runners, work>>

\* removeRunner of a runner that has ended; the others stay.
RunnerEnds ==
  LET t == svc["manager"].id IN
  /\ svc["manager"].pc = "sweep" /\ runners[t] > 0
  /\ runners' = [runners EXCEPT ![t] = @ - 1]
  /\ Serves("manager", svc["manager"])
  /\ UNCHANGED <<row, work, faults>>

\* Mutant: the target is made active once its last runner is gone.
RoundEndsEmpty ==
  LET w == svc["manager"] IN
  /\ w.pc = "sweep"
  /\ Serves("manager", IF w.new = "running" /\ runners[w.id] = 0
                       THEN [w EXCEPT !.pc = "read", !.new = "active"]
                       ELSE NoWrite)
  /\ UNCHANGED <<row, runners, work, faults>>

\* The round's goroutines are done; if the target was running when it was
\* listed, it is made active.
RoundEnds ==
  LET w == svc["manager"] IN
  /\ w.pc = "sweep"
  /\ Serves("manager", IF w.new = "running"
                       THEN [w EXCEPT !.pc = "read", !.new = "active"]
                       ELSE NoWrite)
  /\ UNCHANGED <<row, runners, work, faults>>

\* Mutant: UpdateTargetStatus writes whatever it has read.
ReadsAnyStatus(s) ==
  /\ svc[s].pc = "read"
  /\ Serves(s, [svc[s] EXCEPT !.pc = "write", !.deleted = FALSE])
  /\ UNCHANGED <<row, runners, work, faults>>

\* After UpdateTargetStatus the starter creates the instance, if this was
\* not the end of a job that failed.
AfterStatus(s) ==
  IF svc[s].new = "running" THEN [svc[s] EXCEPT !.pc = "add"] ELSE NoWrite

\* datastore.UpdateTargetStatus: GetTarget and CanReceiveJob ...
ReadStatus(s) ==
  /\ svc[s].pc = "read"
  /\ Serves(s, IF CanReceiveJob(svc[s].id)
               THEN [svc[s] EXCEPT !.pc = "write", !.deleted = FALSE]
               ELSE AfterStatus(s))
  /\ UNCHANGED <<row, runners, work, faults>>

\* ... and the UPDATE.  If its answer is lost, it is done and goes for failed.
WriteStatus(s) ==
  /\ svc[s].pc = "write"
  /\ row' = [row EXCEPT ![svc[s].id].status = svc[s].new]
  /\ \/ Serves(s, AfterStatus(s)) /\ UNCHANGED faults
     \/ Serves(s, NoWrite) /\ DbFails
  /\ UNCHANGED <<runners, work>>

\* Either call fails: the starter gives the job up for this time, the
\* manager logs it.
StatusFails(s) ==
  /\ svc[s].pc \in {"read", "write"}
  /\ DbFails
  /\ Serves(s, NoWrite)
  /\ UNCHANGED <<row, runners, work>>

----------------------------------------------------------------------------

Handlers ==
  \E r \in Request :
    \/ CreateRefused(r) \/ LookupEnds(r) \/ UpdateRefused(r) \/ Read(r)
    \/ \E b \in Body :
         Lookup(r, b) \/ \E t \in Target : UpdateBegins(r, t, b)
    \/ \E t \in Target : DeleteRefused(r, t) \/ DeleteBegins(r, t)
    \/ Insert(r) \/ InsertFails(r) \/ Revive(r) \/ Param(r) \/ Erase(r)
    \/ AnswerWithRow(r) \/ CallFails(r)

StarterSteps ==
  /\ "starter" \in Writers
  /\ \/ \E t \in Target : JobStarts(t)
     \/ RunnerStarts \/ JobFails \/ JobRejected
     \/ ReadStatus("starter") \/ WriteStatus("starter")
     \/ StatusFails("starter")

ManagerSteps ==
  /\ "manager" \in Writers
  /\ \/ \E t \in Target : RoundBegins(t)
     \/ RoundFindsSome \/ RoundFindsNone \/ RoundFails
     \/ RunnerEnds \/ RoundEnds
     \/ ReadStatus("manager") \/ WriteStatus("manager")
     \/ StatusFails("manager")

NextTargets == Handlers \/ StarterSteps \/ ManagerSteps

SpecTargets == InitTargets /\ [][NextTargets]_tvars

\* Every round of the manager visits every target that can receive jobs, and
\* its goroutines end.
FairManager ==
  /\ WF_tvars(ManagerSteps)
  /\ \A t \in Target :
       SF_tvars("manager" \in Writers /\ RoundBegins(t))

----------------------------------------------------------------------------

\* A second row of the scope is inserted only by a creation that came in
\* before the first one was there, and never where the unique key of
\* (ghe_domain, scope) holds: handleTargetCreate looks for a row and inserts
\* one without a transaction (target_create.go:69).
OneTargetPerScope ==
  [][\A t \in Target :
       row[t].status = "none" /\ row'[t].status # "none" =>
         \E r \in Request : /\ req[r].pc = "insert"
                            /\ req[r].before \cap Rows = {}
                            /\ ghes => Rows = {}]_tvars

\* A deleted target comes back only when a creation revives it, or when a
\* service writes a status for which it read the target before the deletion
\* (datastore.UpdateTargetStatus reads and writes in two statements).
DeletedStaysDeleted ==
  [][\A t \in Target :
       row[t].status = "deleted" /\ row'[t].status # "deleted" =>
         \/ \E r \in Request : req[r].pc = "revive" /\ req[r].id = t
         \/ \E s \in Writers : svc[s].pc = "write" /\ svc[s].id = t
                                /\ svc[s].deleted]_tvars

\* The target in the answer 200 or 201 is what the body asks for: the type
\* and the URL it names, and those it leaves out as the handler read them; so
\* a call that failed on the way is never passed over.  Another request that
\* writes the parameters in between is the only excuse (a lost update).
AnsweredAsAsked ==
  [][\A r \in Request :
       AnswerWithRow(r) /\ ~req[r].disturbed =>
         LET q == req[r]  view == row[q.id] IN
           /\ Scan(view.type) = IF q.asked.type # Unknown
                                THEN q.asked.type ELSE q.old.type
           /\ q.asked.url = "null" => view.url = q.old.url
           /\ q.asked.url = "" => view.url = "null"
           /\ q.asked.url \in Url => view.url = q.asked.url]_tvars

\* A target is marked otherwise than running again and again, whatever the
\* starter writes meanwhile, as long as it has runners, or GitHub lists some
\* of others, or they are not ephemeral: it is not beyond DELETE /target/:id
\* for ever (target.go:203).
RunningSettles ==
  \A t \in Target : \/ []<>(row[t].status # "running")
                     \/ <>[](runners[t] = 0 /\ zero = "nothing")

\* "target has running runner now, please stop all runner"
\* (pkg/web/target.go:205): a target is deleted when it has no runner.
StopAllRunners ==
  [][\A t \in Target :
       row[t].status # "deleted" /\ row'[t].status = "deleted"
         => runners[t] = 0]_tvars

=============================================================================
