---------------------------- MODULE TargetsProofs ----------------------------
(***************************************************************************)
(* Theorems about Targets and ResourceTypes, for every value of their      *)
(* constants: any number of requests in flight, of rows and of runners.    *)
(***************************************************************************)
EXTENDS Targets, TLAPS

----------------------------------------------------------------------------
(* The sizes of a runner machine.                                          *)

LEMMA NamesDiffer ==
  /\ \A q, r \in 1 .. 9 : Names[q] = Names[r] => q = r
  /\ \A q, r \in 1 .. 9 : PbNames[q] = PbNames[r] => q = r
<1>1. \A q, r \in 1 .. 9 : Names[q] = Names[r] => q = r
  BY DEF Names
<1>2. \A q, r \in 1 .. 9 : PbNames[q] = PbNames[r] => q = r
  BY DEF PbNames
<1> QED
  BY <1>1, <1>2

\* A resource type that goes to MySQL, to a client of the API or to the shoes
\* plugin comes back as it was (pkg/datastore/resource_type.go).
THEOREM TypesSurvive ==
  ASSUME NEW r \in 1 .. 9
  PROVE  /\ Scan(Value(r)) = r
         /\ UnmarshalJSON(MarshalJSON(r)) = r
         /\ UnmarshalResourceTypePb(ToPb(r)) = r
<1>1. UnmarshalResourceTypeString(String(r)) = r
  <2>1. String(r) = Names[r]
    BY DEF String
  <2>2. Names[r] \in Enum
    BY DEF Enum
  <2>3. (CHOOSE q \in 1 .. 9 : Names[q] = Names[r]) = r
    BY NamesDiffer
  <2> QED
    BY <2>1, <2>2, <2>3 DEF UnmarshalResourceTypeString
<1>2. UnmarshalResourceTypePb(ToPb(r)) = r
  <2>1. ToPb(r) = PbNames[r]
    BY DEF ToPb
  <2>2. (CHOOSE q \in 1 .. 9 : PbNames[q] = PbNames[r]) = r
    BY NamesDiffer
  <2> QED
    BY <2>1, <2>2 DEF UnmarshalResourceTypePb
<1> QED
  BY <1>1, <1>2 DEF Scan, Value, UnmarshalJSON, MarshalJSON

\* Whatever a string says, it is read as some resource type.
LEMMA StringReads ==
  ASSUME NEW in PROVE UnmarshalResourceTypeString(in) \in ResourceType
<1>1. CASE in \in Enum
  <2>1. \E r \in 1 .. 9 : Names[r] = in
    BY <1>1 DEF Enum
  <2>2. (CHOOSE r \in 1 .. 9 : Names[r] = in) \in 1 .. 9
    BY <2>1
  <2> QED
    BY <1>1, <2>2 DEF UnmarshalResourceTypeString, ResourceType
<1>2. CASE in \notin Enum
  BY <1>2 DEF UnmarshalResourceTypeString, ResourceType, Unknown
<1> QED
  BY <1>1, <1>2

\* The column takes every resource type but the unknown one.
LEMMA KnownTypes ==
  ASSUME NEW r \in ResourceType
  PROVE  /\ Value(r) \in Enum <=> r # Unknown
         /\ r # Unknown => Scan(Value(r)) = r
<1>1. CASE r # Unknown
  <2>1. r \in 1 .. 9
    BY <1>1 DEF ResourceType, Unknown
  <2>2. Value(r) = Names[r] /\ Names[r] \in Enum
    BY <2>1 DEF Value, String, Enum
  <2> QED
    BY <1>1, <2>1, <2>2, TypesSurvive
<1>2. CASE r = Unknown
  <2>1. Value(r) = "unknown"
    BY <1>2 DEF Value, String, Unknown
  <2>2. \A i \in 1 .. 9 : Names[i] # "unknown"
    BY DEF Names
  <2> QED
    BY <1>2, <2>1, <2>2 DEF Enum
<1> QED
  BY <1>1, <1>2

----------------------------------------------------------------------------
(* The inductive invariant.                                                *)

RowType ==
  [status : TargetStatus \cup {"none"}, type : Enum \cup {""},
   url : Url \cup {"null"}]

Params == [type : ResourceType, url : Url \cup {"", "null"}]

RequestType ==
  [pc : {"idle", "insert", "revive", "param", "erase", "answer"},
   kind : {"none", "create", "update", "delete"}, id : Target \cup {0},
   asked : Params, old : [type : ResourceType, url : Url \cup {"null"}],
   before : SUBSET Target, disturbed : BOOLEAN]

ServiceType ==
  [pc : {"idle", "read", "write", "add", "list", "sweep"},
   id : Target \cup {0},
   new : {"active", "running", "error"}, deleted : BOOLEAN]

TargetTypes ==
  /\ ghes \in BOOLEAN /\ zero \in {"nothing", "once", "others"}
  /\ row \in [Target -> RowType]
  /\ runners \in [Target -> 0 .. MaxRunners]
  /\ req \in [Request -> RequestType]
  /\ svc \in [Writers -> ServiceType]
  /\ work \in 0 .. MaxWork /\ faults \in 0 .. MaxFaults

\* The rows of table rows.
RowsOf(rows) == {t \in Target : rows[t].status # "none"}

\* Row view has the parameters that request q asks for, or had read.
Shown(q, view) ==
  /\ Scan(view.type) = IF q.asked.type # Unknown
                       THEN q.asked.type ELSE q.old.type
  /\ view.url = IF q.asked.url = "null" THEN q.old.url
                ELSE toNullString(q.asked.url)

\* What request q knows is true of table rows.
Knows(q, rows) ==
  /\ q.pc \in {"revive", "param", "erase", "answer"} => q.id \in RowsOf(rows)
  /\ q.pc = "insert" => /\ q.kind = "create" /\ q.before = {}
                        /\ q.asked.type # Unknown /\ q.old = NoParam
  /\ q.pc = "answer" /\ ~q.disturbed => Shown(q, rows[q.id])

\* What a service knows.
Follows(w, rows) ==
  /\ w.pc # "idle" => w.id \in RowsOf(rows)
  /\ w.pc = "write" /\ rows[w.id].status = "deleted" => w.deleted

\* A row has a size.
Sound(rows) == \A t \in RowsOf(rows) : rows[t].type \in Enum

TargetsInv ==
  /\ TargetTypes
  /\ Sound(row)
  /\ \A r \in Request : Knows(req[r], row)
  /\ \A s \in Writers : Follows(svc[s], row)

\* What the proofs use of the assumption on the constants.
LEMMA Bounds ==
  /\ 1 \in Target /\ 0 \notin Target
  /\ MaxWork \in Nat /\ MaxRunners \in Nat /\ MaxFaults \in Nat
BY ZenonT(20), TargetsAssumption DEF TargetsAssumption

----------------------------------------------------------------------------
(* What a step of a request does.                                          *)

Other(r, q, o) == IF o = r THEN q ELSE req[o]

\* Each request knows what it knew, and the history.
LEMMA StepRequest ==
  ASSUME TargetTypes, NEW r \in Request, NEW q \in RequestType, NEW rows,
         Step(r, q, rows), NEW o \in Request
  PROVE  LET k == Other(r, q, o)  n == req'[o] IN
         /\ n \in RequestType
         /\ n.pc = k.pc /\ n.kind = k.kind /\ n.id = k.id
         /\ n.asked = k.asked /\ n.old = k.old /\ n.before = k.before
         /\ n.disturbed <=> k.disturbed \/
              /\ o # r /\ k.id # 0
              /\ \/ rows[k.id].type # row[k.id].type
                 \/ rows[k.id].url # row[k.id].url
<1> DEFINE k == Other(r, q, o)
           d == k.disturbed \/ /\ o # r /\ k.id # 0
                               /\ \/ rows[k.id].type # row[k.id].type
                                  \/ rows[k.id].url # row[k.id].url
           n == req'[o]
<1>1. k \in RequestType
  BY DEF TargetTypes, Other
<1>2. n = [k EXCEPT !.disturbed = d]
  BY DEF Step, Other
<1> HIDE DEF k, n
<1>3. d \in BOOLEAN
  BY <1>1 DEF RequestType
<1> HIDE DEF d
<1>4. /\ n \in RequestType /\ n.pc = k.pc /\ n.kind = k.kind /\ n.id = k.id
      /\ n.asked = k.asked /\ n.old = k.old /\ n.before = k.before
      /\ n.disturbed = d
  BY <1>1, <1>2, <1>3 DEF RequestType
<1> QED
  BY <1>4 DEF n, k, d

\* And so does each service.
LEMMA StepService ==
  ASSUME TargetTypes, NEW r \in Request, NEW q, NEW rows,
         Step(r, q, rows), NEW s \in Writers
  PROVE  LET w == svc[s]  n == svc'[s] IN
         /\ n \in ServiceType
         /\ n.pc = w.pc /\ n.id = w.id /\ n.new = w.new
         /\ n.deleted <=> w.deleted \/ /\ w.pc = "write"
                                       /\ rows[w.id] # row[w.id]
                                       /\ rows[w.id].status = "deleted"
<1> DEFINE w == svc[s]
           n == svc'[s]
           d == w.deleted \/ /\ w.pc = "write" /\ rows[w.id] # row[w.id]
                             /\ rows[w.id].status = "deleted"
<1>1. w \in ServiceType
  BY DEF TargetTypes
<1>2. n = [w EXCEPT !.deleted = d]
  BY DEF Step
<1>3. d \in BOOLEAN
  BY <1>1 DEF ServiceType
<1> HIDE DEF w, n, d
<1>4. n \in ServiceType /\ n.pc = w.pc /\ n.id = w.id /\ n.new = w.new
      /\ n.deleted = d
  BY <1>1, <1>2, <1>3 DEF ServiceType
<1> QED
  BY <1>4 DEF w, n, d

\* A table in which request r has written row t, or nothing.
Written(rows, t) ==
  /\ rows \in [Target -> RowType]
  /\ \A u \in Target \ {t} : rows[u] = row[u]
  /\ rows[t].status # "none" /\ rows[t].type \in Enum

\* Rows do not go, and there is at most one more.
LEMMA WrittenSound ==
  ASSUME TargetsInv, NEW t \in Target, NEW rows, Written(rows, t)
  PROVE  /\ Sound(rows) /\ RowsOf(rows) = Rows \cup {t}
         /\ RowsOf(row) = Rows
<1>1. RowsOf(rows) = RowsOf(row) \cup {t} /\ RowsOf(row) = Rows
  BY DEF Written, RowsOf, Rows
<1>2. ASSUME NEW u \in RowsOf(rows) PROVE rows[u].type \in Enum
  <2>1. CASE u = t
    BY <2>1 DEF Written
  <2>2. CASE u # t
    BY <1>1, <2>2 DEF TargetsInv, Sound, Written, RowsOf
  <2> QED
    BY <2>1, <2>2
<1> QED
  BY <1>1, <1>2 DEF Sound

\* A step preserves the invariant if its request knows the truth and the rows
\* are sound.
LEMMA StepInv ==
  ASSUME TargetsInv, NEW r \in Request, NEW q \in RequestType, NEW rows,
         Step(r, q, rows), Sound(rows), rows \in [Target -> RowType],
         RowsOf(row) \subseteq RowsOf(rows),
         Knows(q, rows),
         work' \in 0 .. MaxWork, faults' \in 0 .. MaxFaults
  PROVE  TargetsInv'
<1>1. TargetTypes
  BY DEF TargetsInv
<1>2. /\ ghes' = ghes /\ zero' = zero
      /\ runners' = runners /\ row' = rows
  BY DEF Step
<1>3. req' \in [Request -> RequestType]
  <2>1. req' = [o \in Request |-> req'[o]]
    BY DEF Step
  <2> QED
    BY <1>1, <2>1, StepRequest
<1>4. svc' \in [Writers -> ServiceType]
  <2>1. svc' = [s \in Writers |-> svc'[s]]
    BY DEF Step
  <2> QED
    BY <1>1, <2>1, StepService
<1>5. TargetTypes'
  BY <1>1, <1>2, <1>3, <1>4 DEF TargetTypes
<1>6. ASSUME NEW o \in Request PROVE Knows(req'[o], rows)
  <2> DEFINE n == req'[o]
  <2>1. CASE o = r
    <3>1. /\ n.pc = q.pc /\ n.kind = q.kind /\ n.id = q.id
          /\ n.asked = q.asked /\ n.old = q.old /\ n.before = q.before
          /\ n.disturbed <=> q.disturbed
      BY <1>1, <2>1, StepRequest DEF Other
    <3> HIDE DEF n
    <3> QED
      BY <3>1 DEF Knows, Shown, n
  <2>2. CASE o # r
    <3> DEFINE k == req[o]
    <3>1. /\ n.pc = k.pc /\ n.kind = k.kind /\ n.id = k.id
          /\ n.asked = k.asked /\ n.old = k.old /\ n.before = k.before
          /\ n.disturbed <=> k.disturbed \/
               /\ k.id # 0
               /\ \/ rows[k.id].type # row[k.id].type
                  \/ rows[k.id].url # row[k.id].url
      BY <1>1, <2>2, StepRequest DEF Other
    <3>2. Knows(k, row)
      BY DEF TargetsInv
    <3> HIDE DEF n, k
    <3>3. n.pc \in {"revive", "param", "erase", "answer"}
            => n.id \in RowsOf(rows)
      BY <3>1, <3>2 DEF Knows
    <3>4. n.pc = "insert" => /\ n.kind = "create" /\ n.before = {}
                             /\ n.asked.type # Unknown /\ n.old = NoParam
      BY <3>1, <3>2 DEF Knows
    <3>5. ASSUME n.pc = "answer", ~n.disturbed PROVE Shown(n, rows[n.id])
      <4>1. k.id \in Target /\ k.id # 0
        BY <3>1, <3>2, <3>5, Bounds DEF Knows, RowsOf
      <4>2. Shown(k, row[k.id])
        BY <3>1, <3>2, <3>5 DEF Knows
      <4>3. rows[k.id].type = row[k.id].type /\ rows[k.id].url = row[k.id].url
        BY <3>1, <3>5, <4>1
      <4> QED
        BY <3>1, <4>2, <4>3 DEF Shown
    <3> QED
      BY <3>3, <3>4, <3>5 DEF Knows, n
  <2> QED
    BY <2>1, <2>2
<1>7. ASSUME NEW s \in Writers PROVE Follows(svc'[s], rows)
  <2> DEFINE w == svc[s]
             n == svc'[s]
  <2>1. /\ n.pc = w.pc /\ n.id = w.id
        /\ n.deleted <=> w.deleted \/ /\ w.pc = "write"
                                      /\ rows[w.id] # row[w.id]
                                      /\ rows[w.id].status = "deleted"
    BY <1>1, StepService
  <2>2. Follows(w, row)
    BY DEF TargetsInv
  <2> HIDE DEF w, n
  <2> QED
    BY <2>1, <2>2 DEF Follows, n
<1> QED
  BY <1>2, <1>5, <1>6, <1>7 DEF TargetsInv

----------------------------------------------------------------------------
(* The handlers.                                                           *)

LEMMA AskedParams ==
  ASSUME NEW b \in Body
  PROVE  /\ Asked(b) \in Params
         /\ Asked(b).type = UnmarshalJSON(b.type) /\ Asked(b).url = b.url
<1>1. UnmarshalJSON(b.type) \in ResourceType
  BY StringReads DEF UnmarshalJSON
<1> QED
  BY <1>1 DEF Asked, Params, Body

LEMMA RowParams ==
  ASSUME TargetTypes, NEW t \in Target
  PROVE  /\ ParamOf(t) \in [type : ResourceType, url : Url \cup {"null"}]
         /\ ParamOf(t).type = Scan(row[t].type)
         /\ ParamOf(t).url = row[t].url
<1>1. row[t].url \in Url \cup {"null"}
  BY DEF TargetTypes, RowType
<1>2. Scan(row[t].type) \in ResourceType
  BY StringReads DEF Scan
<1> QED
  BY <1>1, <1>2 DEF ParamOf

LEMMA NoParamType ==
  /\ NoParam \in Params
  /\ NoParam \in [type : ResourceType, url : Url \cup {"null"}]
BY DEF NoParam, Params, ResourceType, Unknown

LEMMA NoRequestType ==
  NoRequest \in RequestType /\ \A rows : Knows(NoRequest, rows)
<1>1. NoRequest \in RequestType
  BY NoParamType DEF NoRequest, RequestType
<1>2. NoRequest.pc = "idle" /\ NoRequest.kind = "none"
  BY DEF NoRequest
<1> QED
  BY <1>1, <1>2 DEF Knows

\* A handler answers, and the row stays.
LEMMA EndsInv ==
  ASSUME TargetsInv, NEW r \in Request, Ends(r),
         work' \in 0 .. MaxWork, faults' \in 0 .. MaxFaults
  PROVE  TargetsInv'
<1>1. Sound(row) /\ row \in [Target -> RowType]
  BY DEF TargetsInv, TargetTypes
<1> QED
  BY <1>1, StepInv, NoRequestType DEF Ends

\* What a request does to the counters of the bounds.
LEMMA Counters ==
  ASSUME TargetsInv
  PROVE  /\ work \in 0 .. MaxWork /\ faults \in 0 .. MaxFaults
         /\ DbFails => faults' \in 0 .. MaxFaults
         /\ \A r \in Request : Comes(r) => work' \in 0 .. MaxWork
         /\ Goes => work' \in 0 .. MaxWork
         /\ UNCHANGED faults => faults' \in 0 .. MaxFaults
<1>1. /\ work \in 0 .. MaxWork /\ faults \in 0 .. MaxFaults
      /\ MaxWork \in Nat /\ MaxFaults \in Nat
  BY Bounds DEF TargetsInv, TargetTypes
<1>2. DbFails => faults' \in 0 .. MaxFaults
  BY <1>1 DEF DbFails
<1>3. \A r \in Request : Comes(r) => work' \in 0 .. MaxWork
  BY <1>1 DEF Comes
<1>4. Goes => work' \in 0 .. MaxWork
  BY <1>1 DEF Goes
<1> QED
  BY <1>1, <1>2, <1>3, <1>4

\* A handler writes rows, whether its answer is lost or not.
LEMMA WritesInv ==
  ASSUME TargetsInv, NEW r \in Request, NEW q \in RequestType, NEW rows,
         Writes(r, q, rows), Sound(rows), rows \in [Target -> RowType],
         RowsOf(row) \subseteq RowsOf(rows), Knows(q, rows)
  PROVE  TargetsInv'
<1>1. CASE Step(r, q, rows) /\ UNCHANGED faults
  BY <1>1, Counters, StepInv DEF Writes
<1>2. CASE Step(r, NoRequest, rows) /\ DbFails
  BY <1>2, Counters, NoRequestType, StepInv DEF Writes
<1> QED
  BY <1>1, <1>2 DEF Writes

LEMMA AnswersInv ==
  ASSUME TargetsInv, NEW r \in Request,
         \/ CreateRefused(r) \/ LookupEnds(r) \/ UpdateRefused(r) \/ Read(r)
         \/ \E t \in Target : DeleteRefused(r, t)
         \/ InsertFails(r) \/ AnswerWithRow(r) \/ CallFails(r)
  PROVE  TargetsInv'
<1>1. Ends(r) /\ (DbFails \/ UNCHANGED faults) /\ UNCHANGED work
  BY DEF CreateRefused, LookupEnds, UpdateRefused, Read, DeleteRefused,
         InsertFails, AnswerWithRow, CallFails, Goes
<1> QED
  BY <1>1, EndsInv, Counters

LEMMA LookupInv ==
  ASSUME TargetsInv, NEW r \in Request, NEW b \in Body, Lookup(r, b)
  PROVE  TargetsInv'
<1>1. /\ work' \in 0 .. MaxWork /\ faults' \in 0 .. MaxFaults
      /\ Sound(row) /\ row \in [Target -> RowType] /\ TargetTypes
      /\ RowsOf(row) = Rows
  BY Counters DEF Lookup, TargetsInv, TargetTypes, RowsOf, Rows
<1>2. CASE Rows = {} /\ Step(r, Creation("insert", 0, b), row)
  <2> DEFINE q == Creation("insert", 0, b)
  <2>1. q = [pc |-> "insert", kind |-> "create", id |-> 0,
             asked |-> Asked(b), old |-> NoParam, before |-> {},
             disturbed |-> FALSE]
    BY <1>2 DEF Creation
  <2>2. Asked(b).type # Unknown
    BY <1>2, AskedParams DEF Lookup, ValidCreate
  <2> HIDE DEF q
  <2>3. q \in RequestType
    BY <2>1, <2>2, AskedParams, NoParamType DEF RequestType
  <2>4. Knows(q, row)
    BY <2>1, <2>2 DEF Knows
  <2> QED
    BY <1>1, <1>2, <2>3, <2>4, StepInv DEF q
<1>3. ASSUME NEW t \in Rows, row[t].status = "deleted",
             Step(r, Creation("revive", t, b), row)
      PROVE  TargetsInv'
  <2> DEFINE q == Creation("revive", t, b)
  <2>1. t \in Target /\ t # 0
    BY Bounds DEF Rows
  <2>2. q = [pc |-> "revive", kind |-> "create", id |-> t,
             asked |-> Asked(b), old |-> ParamOf(t), before |-> Rows,
             disturbed |-> FALSE]
    BY <2>1 DEF Creation
  <2>3. Rows \in SUBSET Target
    BY DEF Rows
  <2> HIDE DEF q
  <2>4. q \in RequestType
    BY <1>1, <2>1, <2>2, <2>3, AskedParams, RowParams DEF RequestType
  <2>5. Knows(q, row)
    BY <1>1, <1>3, <2>2 DEF Knows
  <2> QED
    BY <1>1, <1>3, <2>4, <2>5, StepInv DEF q
<1> QED
  BY <1>2, <1>3 DEF Lookup

LEMMA InsertInv ==
  ASSUME TargetsInv, NEW r \in Request, Insert(r) PROVE TargetsInv'
<1> DEFINE t == CHOOSE t \in Target \ Rows : TRUE
           p == req[r]
           new == [status |-> "active", type |-> Value(p.asked.type),
                   url |-> toNullString(p.asked.url)]
           rows == [row EXCEPT ![t] = new]
           m == [p EXCEPT !.pc = "answer"]
           q == [m EXCEPT !.id = t]
<1>1. t \in Target \ Rows
  BY DEF Insert, Rows
<1>2. Writes(r, q, rows) /\ p.pc = "insert"
  BY DEF Insert
<1> HIDE DEF t
<1>3. /\ p \in RequestType /\ Knows(p, row) /\ row \in [Target -> RowType]
      /\ p.asked \in Params /\ p.asked.type \in ResourceType
      /\ p.asked.url \in Url \cup {"", "null"}
  BY DEF TargetsInv, TargetTypes, RequestType, Params
<1>4. /\ p.kind = "create" /\ p.before = {} /\ p.old = NoParam
      /\ p.asked.type # Unknown
  BY <1>2, <1>3 DEF Knows
<1>5. /\ m \in RequestType /\ m.pc = "answer" /\ m.kind = p.kind
      /\ m.asked = p.asked /\ m.old = p.old
  BY <1>3 DEF RequestType
<1> HIDE DEF m
<1>6. /\ q \in RequestType /\ q.pc = "answer" /\ q.kind = p.kind
      /\ q.asked = p.asked /\ q.old = p.old /\ q.id = t
  BY <1>1, <1>5 DEF RequestType
<1>7. /\ new \in RowType /\ new.status = "active" /\ new.type \in Enum
      /\ Scan(new.type) = p.asked.type
      /\ new.url = toNullString(p.asked.url)
  <2>1. /\ Value(p.asked.type) \in Enum
        /\ Scan(Value(p.asked.type)) = p.asked.type
    BY <1>3, <1>4, KnownTypes
  <2>2. toNullString(p.asked.url) \in Url \cup {"null"}
    BY <1>3 DEF toNullString
  <2> QED
    BY <2>1, <2>2 DEF RowType, TargetStatus
<1> HIDE DEF p, new, q
<1>8. Written(rows, t) /\ rows[t] = new
  BY <1>1, <1>3, <1>7 DEF Written
<1>9. Sound(rows) /\ RowsOf(rows) = RowsOf(row) \cup {t}
  BY <1>1, <1>8, WrittenSound
<1>10. Shown(q, rows[q.id])
  <2>1. p.asked.url = "null" => p.old.url = "null"
                                /\ toNullString(p.asked.url) = "null"
    BY <1>4 DEF NoParam, toNullString
  <2> QED
    BY <1>4, <1>6, <1>7, <1>8, <2>1 DEF Shown
<1>11. Knows(q, rows)
  BY <1>2, <1>3, <1>6, <1>9, <1>10 DEF Knows
<1> HIDE DEF rows
<1> QED
  BY <1>2, <1>6, <1>8, <1>9, <1>11, WritesInv DEF Written

LEMMA ReviveInv ==
  ASSUME TargetsInv, NEW r \in Request, Revive(r) PROVE TargetsInv'
<1> DEFINE p == req[r]
           t == p.id
           rows == [row EXCEPT ![t].status = "active"]
           q == [p EXCEPT !.pc = "param"]
<1>1. Writes(r, q, rows) /\ p.pc = "revive"
  BY DEF Revive
<1>2. p \in RequestType /\ Knows(p, row) /\ row \in [Target -> RowType]
  BY DEF TargetsInv, TargetTypes
<1>3. t \in Target /\ row[t].status # "none" /\ row[t].type \in Enum
  BY <1>1, <1>2 DEF Knows, RowsOf, TargetsInv, Sound
<1>4. Written(rows, t)
  BY <1>2, <1>3 DEF Written, RowType, TargetStatus
<1>5. Sound(rows) /\ RowsOf(rows) = RowsOf(row)
  BY <1>3, <1>4, WrittenSound DEF RowsOf
<1>6. /\ q \in RequestType /\ q.pc = "param" /\ q.kind = p.kind
      /\ q.id = p.id
  BY <1>2 DEF RequestType
<1> HIDE DEF q, p
<1>7. Knows(q, rows)
  BY <1>1, <1>2, <1>3, <1>5, <1>6 DEF Knows
<1> HIDE DEF rows
<1> QED
  BY <1>1, <1>4, <1>5, <1>6, <1>7, WritesInv DEF Written

LEMMA UpdateBeginsInv ==
  ASSUME TargetsInv, NEW r \in Request, NEW t \in Target, NEW b \in Body,
         UpdateBegins(r, t, b)
  PROVE  TargetsInv'
<1> DEFINE q == Reading(t, b)
<1>1. /\ work' \in 0 .. MaxWork /\ faults' \in 0 .. MaxFaults
      /\ Sound(row) /\ row \in [Target -> RowType] /\ TargetTypes
      /\ RowsOf(row) = Rows /\ Step(r, q, row) /\ t \in Rows
  BY Counters DEF UpdateBegins, TargetsInv, TargetTypes, RowsOf, Rows
<1>2. q = [pc |-> "param", kind |-> "update", id |-> t, asked |-> Asked(b),
           old |-> ParamOf(t), before |-> {}, disturbed |-> FALSE]
  BY DEF Reading
<1> HIDE DEF q
<1>3. q \in RequestType
  BY <1>1, <1>2, AskedParams, RowParams DEF RequestType
<1>4. Knows(q, row)
  BY <1>1, <1>2 DEF Knows
<1> QED
  BY <1>1, <1>3, <1>4, StepInv

LEMMA ParamInv ==
  ASSUME TargetsInv, NEW r \in Request, Param(r) PROVE TargetsInv'
<1> DEFINE p == req[r]
           t == p.id
           new == getWillUpdateTargetVariable(p.old, p.asked)
           view == [row[t] EXCEPT !.type = Value(new.type)]
           rows == [row EXCEPT ![t].type = Value(new.type),
                               ![t].url = new.url]
           q == [p EXCEPT !.pc = "answer"]
<1>1. /\ Writes(r, q, rows) /\ p.pc = "param"
      /\ Value(new.type) \in Enum
  BY DEF Param
<1>2. /\ p \in RequestType /\ Knows(p, row) /\ row \in [Target -> RowType]
      /\ p.asked.type \in ResourceType /\ p.old.type \in ResourceType
      /\ p.asked.url \in Url \cup {"", "null"}
      /\ p.old.url \in Url \cup {"null"}
  BY DEF TargetsInv, TargetTypes, RequestType, Params
<1>3. t \in Target /\ row[t] \in RowType /\ row[t].status # "none"
  BY <1>1, <1>2 DEF Knows, RowsOf
<1>4. /\ new.type = IF p.asked.type = Unknown THEN p.old.type
                    ELSE p.asked.type
      /\ new.url = IF p.asked.url = "null" THEN p.old.url
                   ELSE toNullString(p.asked.url)
      /\ new.url \in Url \cup {"null"} /\ new.type \in ResourceType
  BY <1>2 DEF getWillUpdateTargetVariable, toNullString
<1>5. q \in RequestType /\ q.pc = "answer" /\ q.kind = p.kind /\ q.id = t
      /\ q.asked = p.asked /\ q.old = p.old
  BY <1>2 DEF RequestType
<1> HIDE DEF p, q, new
<1>6. /\ view \in RowType /\ view.status = row[t].status
      /\ view.type = Value(new.type)
  BY <1>1, <1>3 DEF RowType
<1>7. rows = [row EXCEPT ![t] = [view EXCEPT !.url = new.url]]
  BY <1>2, <1>3
<1> HIDE DEF view
<1>8. /\ [view EXCEPT !.url = new.url] \in RowType
      /\ [view EXCEPT !.url = new.url].status = row[t].status
      /\ [view EXCEPT !.url = new.url].type = Value(new.type)
      /\ [view EXCEPT !.url = new.url].url = new.url
  BY <1>4, <1>6 DEF RowType
<1>9. /\ Written(rows, t) /\ rows[t].type = Value(new.type)
      /\ rows[t].url = new.url
  BY <1>1, <1>2, <1>3, <1>7, <1>8 DEF Written
<1> HIDE DEF rows, t
<1>10. Sound(rows) /\ RowsOf(rows) = RowsOf(row)
  BY <1>3, <1>9, WrittenSound DEF RowsOf
<1>11. Shown(q, rows[t])
  BY <1>1, <1>4, <1>5, <1>9, KnownTypes DEF Shown
<1>12. Knows(q, rows)
  BY <1>1, <1>2, <1>3, <1>5, <1>10, <1>11 DEF Knows, t, RowsOf
<1> QED
  BY <1>1, <1>5, <1>9, <1>10, <1>12, WritesInv DEF Written

LEMMA DeleteBeginsInv ==
  ASSUME TargetsInv, NEW r \in Request, NEW t \in Target, DeleteBegins(r, t)
  PROVE  TargetsInv'
<1> DEFINE l == [NoRequest EXCEPT !.pc = "erase"]
           m == [l EXCEPT !.kind = "delete"]
           q == [m EXCEPT !.id = t]
<1>1. /\ work' \in 0 .. MaxWork /\ faults' \in 0 .. MaxFaults
      /\ Sound(row) /\ row \in [Target -> RowType]
      /\ Step(r, q, row) /\ t \in RowsOf(row)
  BY Counters DEF DeleteBegins, TargetsInv, TargetTypes, RowsOf
<1>2. l \in RequestType /\ l.pc = "erase"
  BY NoRequestType DEF RequestType
<1> HIDE DEF l
<1>3. m \in RequestType /\ m.pc = "erase" /\ m.kind = "delete"
  BY <1>2 DEF RequestType
<1> HIDE DEF m
<1>4. q \in RequestType /\ q.pc = "erase" /\ q.kind = "delete" /\ q.id = t
  BY <1>3 DEF RequestType
<1> HIDE DEF q
<1>5. Knows(q, row)
  BY <1>1, <1>4 DEF Knows
<1> QED
  BY <1>1, <1>4, <1>5, StepInv

LEMMA EraseInv ==
  ASSUME TargetsInv, NEW r \in Request, Erase(r) PROVE TargetsInv'
<1> DEFINE t == req[r].id
           rows == [row EXCEPT ![t].status = "deleted"]
<1>1. Writes(r, NoRequest, rows) /\ req[r].pc = "erase"
  BY DEF Erase
<1>2. Knows(req[r], row) /\ row \in [Target -> RowType]
  BY DEF TargetsInv, TargetTypes
<1>3. t \in Target /\ row[t].status # "none" /\ row[t].type \in Enum
  BY <1>1, <1>2 DEF Knows, RowsOf, TargetsInv, Sound
<1>4. Written(rows, t)
  BY <1>2, <1>3 DEF Written, RowType, TargetStatus
<1>5. Sound(rows) /\ RowsOf(rows) = RowsOf(row)
  BY <1>3, <1>4, WrittenSound DEF RowsOf
<1> HIDE DEF rows
<1> QED
  BY <1>1, <1>4, <1>5, NoRequestType, WritesInv DEF Written

----------------------------------------------------------------------------
(* The services.                                                           *)

\* A step of a service that leaves the table and the requests alone: what the
\* service knows next must be true of the table.
LEMMA ServesInv ==
  ASSUME TargetsInv, NEW s \in Writers, NEW next \in ServiceType,
         Serves(s, next), Follows(next, row), UNCHANGED row,
         runners' \in [Target -> 0 .. MaxRunners],
         work' \in 0 .. MaxWork, faults' \in 0 .. MaxFaults
  PROVE  TargetsInv'
<1>1. /\ ghes' = ghes /\ zero' = zero /\ req' = req /\ row' = row
      /\ svc' = [svc EXCEPT ![s] = next]
  BY DEF Serves
<1>2. svc' \in [Writers -> ServiceType]
  BY <1>1 DEF TargetsInv, TargetTypes
<1>3. ASSUME NEW o \in Writers PROVE Follows(svc'[o], row)
  BY <1>1 DEF TargetsInv, TargetTypes
<1>4. TargetTypes'
  BY <1>1, <1>2 DEF TargetsInv, TargetTypes
<1> QED
  BY <1>1, <1>3, <1>4 DEF TargetsInv

\* A service that has nothing to do, or goes on with row t and status new.
LEMMA NoWriteType == NoWrite \in ServiceType /\ NoWrite.pc = "idle"
BY DEF NoWrite, ServiceType

LEMMA WriteTypes ==
  ASSUME NEW t \in Target, NEW n \in {"active", "running", "error"},
         NEW p \in {"read", "list"}
  PROVE  LET w == [NoWrite EXCEPT !.pc = p, !.id = t, !.new = n] IN
         w \in ServiceType /\ w.pc = p /\ w.id = t
BY DEF NoWrite, ServiceType

\* A service that goes on with the row it has.
LEMMA WriteGoesOn ==
  ASSUME NEW w \in ServiceType, NEW p \in {"read", "write", "add", "sweep"}
  PROVE  /\ LET v == [w EXCEPT !.pc = p] IN
              v \in ServiceType /\ v.pc = p /\ v.id = w.id
         /\ LET v == [w EXCEPT !.pc = p, !.deleted = FALSE] IN
              v \in ServiceType /\ v.pc = p /\ v.id = w.id
BY DEF ServiceType

LEMMA WriteNext ==
  ASSUME NEW w \in ServiceType, NEW n \in {"active", "error"}
  PROVE  LET v == [w EXCEPT !.pc = "read", !.new = n] IN
         v \in ServiceType /\ v.pc = "read" /\ v.id = w.id
BY DEF ServiceType

LEMMA ServiceFacts ==
  ASSUME TargetsInv, NEW s \in Writers
  PROVE  /\ svc[s] \in ServiceType /\ Follows(svc[s], row)
         /\ svc[s].pc # "idle" =>
              svc[s].id \in RowsOf(row) /\ svc[s].id \in Target
         /\ RowsOf(row) = Rows
         /\ UNCHANGED runners => runners' \in [Target -> 0 .. MaxRunners]
         /\ UNCHANGED work => work' \in 0 .. MaxWork
         /\ UNCHANGED faults => faults' \in 0 .. MaxFaults
BY Counters DEF TargetsInv, TargetTypes, Follows, RowsOf, Rows

LEMMA RestInv ==
  ASSUME TargetsInv, NEW s \in Writers, Serves(s, NoWrite), UNCHANGED row,
         runners' \in [Target -> 0 .. MaxRunners],
         work' \in 0 .. MaxWork, faults' \in 0 .. MaxFaults
  PROVE  TargetsInv'
<1>1. Follows(NoWrite, row)
  BY NoWriteType DEF Follows
<1> QED
  BY <1>1, NoWriteType, ServesInv

LEMMA JobStartsInv ==
  ASSUME TargetsInv, "starter" \in Writers, NEW t \in Target, JobStarts(t)
  PROVE  TargetsInv'
<1> DEFINE w == [NoWrite EXCEPT !.pc = "read", !.id = t, !.new = "running"]
<1>1. w \in ServiceType /\ w.pc = "read" /\ w.id = t
  BY WriteTypes
<1>2. /\ Serves("starter", w) /\ UNCHANGED <<row, runners, faults>>
      /\ t \in Rows
  BY DEF JobStarts
<1>3. work' \in 0 .. MaxWork
  BY Bounds DEF JobStarts, TargetsInv, TargetTypes
<1> HIDE DEF w
<1>4. Follows(w, row)
  BY <1>1, <1>2, ServiceFacts DEF Follows
<1> QED
  BY <1>1, <1>2, <1>3, <1>4, ServesInv, ServiceFacts

\* A service that goes on with the row it has, and has not read its status.
LEMMA GoesOnInv ==
  ASSUME TargetsInv, NEW s \in Writers, NEW w \in ServiceType,
         Serves(s, w), svc[s].pc # "idle", w.pc # "write", w.id = svc[s].id,
         UNCHANGED row, runners' \in [Target -> 0 .. MaxRunners],
         work' \in 0 .. MaxWork, faults' \in 0 .. MaxFaults
  PROVE  TargetsInv'
<1>1. Follows(w, row)
  BY ServiceFacts DEF Follows
<1> QED
  BY <1>1, ServesInv

LEMMA RunnerStartsInv ==
  ASSUME TargetsInv, "starter" \in Writers, RunnerStarts
  PROVE  TargetsInv'
<1> DEFINE t == svc["starter"].id
           w == [NoWrite EXCEPT !.pc = "read", !.id = t, !.new = "error"]
<1>1. /\ \/ Serves("starter", NoWrite) /\ UNCHANGED faults
         \/ Serves("starter", w) /\ DbFails
      /\ UNCHANGED <<row, work>> /\ svc["starter"].pc # "idle"
      /\ runners[t] < MaxRunners /\ runners' = [runners EXCEPT ![t] = @ + 1]
  BY DEF RunnerStarts
<1>2. t \in Target /\ runners \in [Target -> 0 .. MaxRunners]
  BY <1>1, ServiceFacts DEF TargetsInv, TargetTypes
<1>3. runners' \in [Target -> 0 .. MaxRunners]
  BY <1>1, <1>2, Bounds
<1>4. w \in ServiceType /\ w.pc = "read" /\ w.id = t
  BY <1>2, WriteTypes
<1>5. work' \in 0 .. MaxWork /\ faults' \in 0 .. MaxFaults
  BY <1>1, ServiceFacts, Counters
<1> HIDE DEF w
<1>6. CASE Serves("starter", NoWrite)
  BY <1>1, <1>3, <1>5, <1>6, RestInv
<1>7. CASE Serves("starter", w)
  BY <1>1, <1>3, <1>4, <1>5, <1>7, GoesOnInv
<1> QED
  BY <1>1, <1>6, <1>7

LEMMA JobFailsInv ==
  ASSUME TargetsInv, "starter" \in Writers, JobFails \/ JobRejected
  PROVE  TargetsInv'
<1> DEFINE t == svc["starter"].id
           w == [NoWrite EXCEPT !.pc = "read", !.id = t, !.new = "error"]
<1>1. /\ Serves("starter", w) \/ Serves("starter", NoWrite)
      /\ UNCHANGED <<row, runners, work, faults>>
      /\ svc["starter"].pc # "idle"
  BY DEF JobFails, JobRejected
<1>2. t \in Target
  BY <1>1, ServiceFacts
<1>3. w \in ServiceType /\ w.pc = "read" /\ w.id = t
  BY <1>2, WriteTypes
<1> HIDE DEF w
<1>4. CASE Serves("starter", NoWrite)
  BY <1>1, <1>4, RestInv, ServiceFacts
<1>5. CASE Serves("starter", w)
  BY <1>1, <1>3, <1>5, GoesOnInv, ServiceFacts
<1> QED
  BY <1>1, <1>4, <1>5

LEMMA RoundBeginsInv ==
  ASSUME TargetsInv, "manager" \in Writers, NEW t \in Target, RoundBegins(t)
  PROVE  TargetsInv'
<1> DEFINE n == row[t].status
           w == [NoWrite EXCEPT !.pc = "list", !.id = t, !.new = n]
<1>1. /\ Serves("manager", w) /\ UNCHANGED <<row, runners, work, faults>>
      /\ t \in Rows /\ CanReceiveJob(t)
  BY DEF RoundBegins
<1>2. n \in {"active", "running", "error"}
  <2>1. t \in Target /\ row \in [Target -> RowType]
    BY <1>1 DEF Rows, TargetsInv, TargetTypes
  <2>2. row[t].status \in TargetStatus \cup {"none"}
    BY ZenonT(20), <2>1 DEF RowType
  <2> QED
    BY <1>1, <2>2 DEF Rows, CanReceiveJob, TargetStatus
<1>3. w \in ServiceType /\ w.pc = "list" /\ w.id = t
  <2>1. t \in Target
    BY <1>1 DEF Rows
  <2> HIDE DEF n
  <2> QED
    BY <1>2, <2>1 DEF NoWrite, ServiceType
<1> HIDE DEF w
<1>4. Follows(w, row)
  BY <1>1, <1>3 DEF Follows, Rows, RowsOf
<1> QED
  BY <1>1, <1>3, <1>4, ServesInv, ServiceFacts

LEMMA RoundListsInv ==
  ASSUME TargetsInv, "manager" \in Writers,
         RoundFindsSome \/ RoundFindsNone \/ RoundFails \/ RoundEnds
  PROVE  TargetsInv'
<1> DEFINE w == svc["manager"]
<1>1. /\ UNCHANGED <<row, runners, work>> /\ w.pc # "idle"
      /\ UNCHANGED faults \/ DbFails
  BY DEF RoundFindsSome, RoundFindsNone, RoundFails, RoundEnds
<1>2. /\ runners' \in [Target -> 0 .. MaxRunners]
      /\ work' \in 0 .. MaxWork /\ faults' \in 0 .. MaxFaults
      /\ w \in ServiceType
  BY <1>1, ServiceFacts, Counters
<1>3. CASE Serves("manager", NoWrite)
  BY <1>1, <1>2, <1>3, RestInv
<1>4. ASSUME NEW v \in ServiceType, v.pc # "write", v.id = w.id,
             Serves("manager", v)
      PROVE  TargetsInv'
  BY <1>1, <1>2, <1>4, GoesOnInv
<1>5. CASE Serves("manager", [w EXCEPT !.pc = "sweep"])
  <2> DEFINE v == [w EXCEPT !.pc = "sweep"]
  <2>1. v \in ServiceType /\ v.pc = "sweep" /\ v.id = w.id
    BY <1>2, WriteGoesOn
  <2> HIDE DEF v
  <2> QED
    BY <1>4, <1>5, <2>1 DEF v
<1>6. ASSUME NEW n \in {"active", "error"},
             Serves("manager", [w EXCEPT !.pc = "read", !.new = n])
      PROVE  TargetsInv'
  <2> DEFINE v == [w EXCEPT !.pc = "read", !.new = n]
  <2>1. v \in ServiceType /\ v.pc = "read" /\ v.id = w.id
    BY <1>2, WriteNext
  <2> HIDE DEF v
  <2> QED
    BY <1>4, <1>6, <2>1 DEF v
<1>7. CASE RoundFindsSome
  BY <1>5, <1>7 DEF RoundFindsSome
<1>8. CASE RoundFindsNone
  BY <1>3, <1>6, <1>8 DEF RoundFindsNone
<1>9. CASE RoundEnds
  BY <1>3, <1>6, <1>9 DEF RoundEnds
<1>10. CASE RoundFails
  BY <1>3, <1>10 DEF RoundFails
<1> QED
  BY <1>7, <1>8, <1>9, <1>10

LEMMA RunnerEndsInv ==
  ASSUME TargetsInv, "manager" \in Writers, RunnerEnds
  PROVE  TargetsInv'
<1> DEFINE t == svc["manager"].id
<1>1. /\ Serves("manager", svc["manager"]) /\ UNCHANGED <<row, work, faults>>
      /\ runners[t] > 0 /\ runners' = [runners EXCEPT ![t] = @ - 1]
  BY DEF RunnerEnds
<1>2. t \in Target /\ runners \in [Target -> 0 .. MaxRunners]
  BY ServiceFacts DEF RunnerEnds, TargetsInv, TargetTypes
<1>3. runners' \in [Target -> 0 .. MaxRunners]
  BY <1>1, <1>2, Bounds
<1> QED
  BY <1>1, <1>3, ServesInv, ServiceFacts

\* What the starter or the manager does after a status.
LEMMA AfterFacts ==
  ASSUME TargetsInv, NEW s \in Writers, svc[s].pc # "idle"
  PROVE  LET w == AfterStatus(s) IN
         /\ w \in ServiceType
         /\ w.pc = "idle" \/ (w.pc = "add" /\ w.id = svc[s].id)
<1>1. svc[s] \in ServiceType
  BY ServiceFacts
<1>2. LET v == [svc[s] EXCEPT !.pc = "add"] IN
      v \in ServiceType /\ v.pc = "add" /\ v.id = svc[s].id
  BY <1>1, WriteGoesOn
<1> QED
  BY <1>2, NoWriteType DEF AfterStatus

LEMMA ReadStatusInv ==
  ASSUME TargetsInv, NEW s \in Writers, ReadStatus(s)
  PROVE  TargetsInv'
<1> DEFINE w == IF CanReceiveJob(svc[s].id)
                THEN [svc[s] EXCEPT !.pc = "write", !.deleted = FALSE]
                ELSE AfterStatus(s)
<1>1. /\ Serves(s, w) /\ UNCHANGED <<row, runners, work, faults>>
      /\ svc[s].pc # "idle"
  BY DEF ReadStatus
<1>2. w \in ServiceType /\ Follows(w, row)
  <2>1. CASE CanReceiveJob(svc[s].id)
    <3>1. w \in ServiceType /\ w.pc = "write" /\ w.id = svc[s].id
      BY <2>1, ServiceFacts, WriteGoesOn
    <3>2. row[w.id].status # "deleted"
      BY <2>1, <3>1 DEF CanReceiveJob
    <3> HIDE DEF w
    <3> QED
      BY <1>1, <3>1, <3>2, ServiceFacts DEF Follows
  <2>2. CASE ~CanReceiveJob(svc[s].id)
    <3>1. w \in ServiceType /\ (w.pc = "idle" \/
                                (w.pc = "add" /\ w.id = svc[s].id))
      BY <1>1, <2>2, AfterFacts
    <3> HIDE DEF w
    <3> QED
      BY <1>1, <3>1, ServiceFacts DEF Follows
  <2> QED
    BY <2>1, <2>2
<1> QED
  BY <1>1, <1>2, ServesInv, ServiceFacts

LEMMA StatusFailsInv ==
  ASSUME TargetsInv, NEW s \in Writers, StatusFails(s)
  PROVE  TargetsInv'
BY RestInv, ServiceFacts, Counters DEF StatusFails

\* The UPDATE of a service: the row is there, and what it writes is not
\* "deleted".
LEMMA WriteStatusInv ==
  ASSUME TargetsInv, NEW s \in Writers, WriteStatus(s)
  PROVE  TargetsInv'
<1> DEFINE t == svc[s].id
           rows == [row EXCEPT ![t].status = svc[s].new]
<1>1. /\ row' = rows /\ svc[s].pc = "write"
      /\ UNCHANGED <<ghes, zero, req, runners, work>>
      /\ UNCHANGED faults \/ DbFails
  BY DEF WriteStatus, Serves
<1>2. /\ t \in Target /\ row[t].status # "none" /\ row[t].type \in Enum
      /\ svc[s].new \in {"active", "running", "error"}
      /\ row \in [Target -> RowType]
  BY <1>1, ServiceFacts
     DEF TargetsInv, TargetTypes, Sound, RowsOf, ServiceType
<1>3. Written(rows, t) /\ rows[t].status # "deleted"
      /\ rows[t].type = row[t].type /\ rows[t].url = row[t].url
  BY <1>2 DEF Written, RowType, TargetStatus
<1>4. Sound(rows) /\ RowsOf(rows) = RowsOf(row)
  BY <1>2, <1>3, WrittenSound DEF RowsOf
<1> HIDE DEF rows
<1>5. PICK w \in {AfterStatus(s), NoWrite} : svc' = [svc EXCEPT ![s] = w]
  BY DEF WriteStatus, Serves
<1>6. ASSUME NEW r \in Request PROVE Knows(req[r], rows)
  <2> DEFINE k == req[r]
  <2>1. Knows(k, row)
    BY DEF TargetsInv
  <2> HIDE DEF k
  <2>2. \A u \in Target : /\ rows[u].type = row[u].type
                          /\ rows[u].url = row[u].url
    BY <1>3 DEF Written
  <2>3. k.pc = "answer" /\ ~k.disturbed => Shown(k, rows[k.id])
    <3>1. SUFFICES ASSUME k.pc = "answer", ~k.disturbed
                   PROVE  Shown(k, rows[k.id])
      OBVIOUS
    <3>2. Shown(k, row[k.id]) /\ k.id \in Target
      BY <2>1, <3>1 DEF Knows, RowsOf
    <3> QED
      BY <2>2, <3>2 DEF Shown
  <2> QED
    BY <1>4, <2>1, <2>3 DEF Knows, k
<1>7. ASSUME NEW o \in Writers
      PROVE  svc'[o] \in ServiceType /\ Follows(svc'[o], rows)
  <2>1. CASE o = s
    <3>1. svc'[o] = w
      BY <1>5, <2>1 DEF TargetsInv, TargetTypes
    <3>2. w \in ServiceType
          /\ (w.pc = "idle" \/ (w.pc = "add" /\ w.id = svc[s].id))
      BY <1>1, <1>5, AfterFacts, NoWriteType
    <3> QED
      BY <1>1, <1>4, <3>1, <3>2, ServiceFacts DEF Follows
  <2>2. CASE o # s
    <3>1. svc'[o] = svc[o]
      BY <1>5, <2>2 DEF TargetsInv, TargetTypes
    <3>2. svc[o].pc = "write" => \/ rows[svc[o].id] = row[svc[o].id]
                                 \/ rows[svc[o].id].status # "deleted"
      BY <1>3, ServiceFacts DEF Written
    <3> QED
      BY <1>4, <3>1, <3>2, ServiceFacts DEF Follows
  <2> QED
    BY <2>1, <2>2
<1>8. TargetTypes'
  <2>1. svc' \in [Writers -> ServiceType]
    BY <1>5, <1>7 DEF TargetsInv, TargetTypes
  <2>2. row' \in [Target -> RowType]
    BY <1>1, <1>3 DEF Written
  <2>3. faults' \in 0 .. MaxFaults
    BY <1>1, Counters
  <2> QED
    BY <1>1, <2>1, <2>2, <2>3 DEF TargetsInv, TargetTypes
<1> QED
  BY <1>1, <1>4, <1>6, <1>7, <1>8 DEF TargetsInv

----------------------------------------------------------------------------
(* The specification.                                                      *)

LEMMA InitInv ==
  ASSUME InitTargets PROVE TargetsInv
<1>1. PICK s \in Start :
        /\ ghes \in IF s = "none" THEN BOOLEAN ELSE {FALSE}
        /\ zero \in {"nothing", "once", "others"}
        /\ row = [t \in Target |->
                    IF t = 1 /\ s # "none"
                    THEN [status |-> s, type |-> "nano", url |-> "null"]
                    ELSE NoRow]
        /\ runners = [t \in Target |-> IF t = 1 /\ s = "running"
                                       THEN MaxRunners ELSE 0]
  BY DEF InitTargets
<1>2. s \in TargetStatus \cup {"none"}
  BY ZenonT(20), TargetsAssumption DEF TargetsAssumption, TargetStatus
<1>3. "nano" \in Enum
  <2>1. Names[1] = "nano"
    BY DEF Names
  <2> QED
    BY <2>1 DEF Enum
<1> DEFINE first == [status |-> s, type |-> "nano", url |-> "null"]
<1>4. /\ first \in RowType /\ first.type \in Enum
      /\ NoRow \in RowType /\ NoRow.status = "none"
  BY <1>2, <1>3 DEF RowType, NoRow
<1>5. \A t \in Target : row[t] = IF t = 1 /\ s # "none" THEN first ELSE NoRow
  BY <1>1
<1>6. row \in [Target -> RowType]
  BY <1>1, <1>4
<1> HIDE DEF first
<1>7. Sound(row)
  <2>1. \A t \in RowsOf(row) : row[t] = first
    BY <1>4, <1>5 DEF RowsOf
  <2> QED
    BY <1>4, <2>1 DEF Sound
<1>8. runners \in [Target -> 0 .. MaxRunners]
  BY <1>1, Bounds
<1>9. /\ req = [r \in Request |-> NoRequest]
      /\ svc = [r \in Writers |-> NoWrite]
      /\ work \in 0 .. MaxWork /\ faults \in 0 .. MaxFaults
  BY Bounds DEF InitTargets
<1>10. TargetTypes
  BY <1>1, <1>6, <1>8, <1>9, NoWriteType, NoRequestType DEF TargetTypes
<1>11. \A r \in Request : Knows(req[r], row)
  BY <1>9, NoRequestType
<1>12. \A r \in Writers : Follows(svc[r], row)
  BY <1>9, NoWriteType DEF Follows
<1> QED
  BY <1>7, <1>10, <1>11, <1>12 DEF TargetsInv

LEMMA NextInv ==
  ASSUME TargetsInv, [NextTargets]_tvars PROVE TargetsInv'
<1>1. ASSUME NEW r \in Request,
             \/ CreateRefused(r) \/ LookupEnds(r) \/ UpdateRefused(r)
             \/ Read(r) \/ (\E t \in Target : DeleteRefused(r, t))
             \/ InsertFails(r) \/ AnswerWithRow(r) \/ CallFails(r)
      PROVE  TargetsInv'
  BY <1>1, AnswersInv
<1>2. ASSUME NEW r \in Request, NEW b \in Body,
             Lookup(r, b) \/ \E t \in Target : UpdateBegins(r, t, b)
      PROVE  TargetsInv'
  BY <1>2, LookupInv, UpdateBeginsInv
<1>3. ASSUME NEW r \in Request,
             \/ Insert(r) \/ Revive(r) \/ Param(r) \/ Erase(r)
             \/ \E t \in Target : DeleteBegins(r, t)
      PROVE  TargetsInv'
  BY <1>3, InsertInv, ReviveInv, ParamInv, EraseInv, DeleteBeginsInv
<1>4. ASSUME NEW s \in Writers,
             ReadStatus(s) \/ WriteStatus(s) \/ StatusFails(s)
      PROVE  TargetsInv'
  BY <1>4, ReadStatusInv, WriteStatusInv, StatusFailsInv
<1>5. CASE StarterSteps
  BY <1>4, <1>5, JobStartsInv, RunnerStartsInv, JobFailsInv DEF StarterSteps
<1>6. CASE ManagerSteps
  BY <1>4, <1>6, RoundBeginsInv, RoundListsInv, RunnerEndsInv
     DEF ManagerSteps
<1>7. CASE UNCHANGED tvars
  BY <1>7 DEF tvars, TargetsInv, TargetTypes
<1>8. CASE Handlers
  BY <1>1, <1>2, <1>3, <1>8 DEF Handlers
<1> QED
  BY <1>5, <1>6, <1>7, <1>8 DEF NextTargets

LEMMA Invariance == SpecTargets => []TargetsInv
<1>1. InitTargets => TargetsInv
  BY InitInv
<1>2. TargetsInv /\ [NextTargets]_tvars => TargetsInv'
  BY NextInv
<1> QED
  BY <1>1, <1>2, PTL DEF SpecTargets

\* The rows, the requests and the services keep to their types: what a
\* handler goes on with is the id of a row that exists.
THEOREM TargetsTypeCorrect == SpecTargets => []TargetsTypeOK
<1>1. TargetsInv => TargetsTypeOK
  <2>1. SUFFICES ASSUME TargetsInv PROVE TargetsTypeOK
    OBVIOUS
  <2>2. /\ row \in [Target -> RowType] /\ req \in [Request -> RequestType]
        /\ svc \in [Writers -> ServiceType]
        /\ ghes \in BOOLEAN /\ zero \in {"nothing", "once", "others"}
        /\ runners \in [Target -> 0 .. MaxRunners]
        /\ work \in 0 .. MaxWork /\ faults \in 0 .. MaxFaults
    BY <2>1 DEF TargetsInv, TargetTypes
  <2>3. \A t \in Rows : /\ row[t].status \in TargetStatus
                        /\ row[t].type \in Enum
                        /\ row[t].url \in Url \cup {"null"}
    BY <2>1, <2>2 DEF TargetsInv, Sound, RowsOf, Rows, RowType
  <2>4. \A r \in Request :
          /\ req[r].pc \in {"idle", "insert", "revive", "param", "erase",
                            "answer"}
          /\ req[r].pc \in {"revive", "param", "erase", "answer"}
               => req[r].id \in Rows
    BY <2>1, <2>2 DEF TargetsInv, Knows, RowsOf, Rows, RequestType
  <2>5. \A s \in Writers :
          /\ svc[s].pc \in {"idle", "read", "write", "add", "list", "sweep"}
          /\ svc[s].new \in TargetStatus
    BY <2>2 DEF ServiceType, TargetStatus
  <2> QED
    BY <2>2, <2>3, <2>4, <2>5 DEF TargetsTypeOK
<1> QED
  BY <1>1, Invariance, PTL

----------------------------------------------------------------------------
(* What a step may do to the table.                                        *)

\* The steps that write a row, and what they write.
LEMMA RowChanges ==
  ASSUME [NextTargets]_tvars, row' # row
  PROVE  \/ \E r \in Request :
              \/ Insert(r) \/ Revive(r) \/ Param(r) \/ Erase(r)
         \/ \E s \in Writers : WriteStatus(s)
<1>1. ASSUME NEW r \in Request, Ends(r) PROVE row' = row
  BY <1>1 DEF Ends, Step
<1>2. ASSUME NEW s \in Writers, ReadStatus(s) \/ StatusFails(s)
      PROVE  row' = row
  BY <1>2 DEF ReadStatus, StatusFails
<1>3. CASE StarterSteps
  BY <1>2, <1>3 DEF StarterSteps, JobStarts, RunnerStarts, JobFails,
     JobRejected
<1>4. CASE ManagerSteps
  BY <1>2, <1>4 DEF ManagerSteps, RoundBegins, RoundFindsSome,
     RoundFindsNone, RoundFails, RunnerEnds, RoundEnds
<1>5. CASE Handlers
  <2>1. ASSUME NEW r \in Request,
               \/ CreateRefused(r) \/ LookupEnds(r) \/ UpdateRefused(r)
               \/ Read(r) \/ (\E t \in Target : DeleteRefused(r, t))
               \/ InsertFails(r) \/ AnswerWithRow(r) \/ CallFails(r)
        PROVE  row' = row
    BY <1>1, <2>1 DEF CreateRefused, LookupEnds, UpdateRefused, Read,
       DeleteRefused, InsertFails, AnswerWithRow, CallFails
  <2>2. ASSUME NEW r \in Request, NEW b \in Body,
               Lookup(r, b) \/ \E t \in Target : UpdateBegins(r, t, b)
        PROVE  row' = row
    BY <2>2 DEF Lookup, UpdateBegins, Step
  <2>3. ASSUME NEW r \in Request, NEW t \in Target, DeleteBegins(r, t)
        PROVE  row' = row
    BY <2>3 DEF DeleteBegins, Step
  <2> QED
    BY <1>5, <2>1, <2>2, <2>3 DEF Handlers
<1>6. CASE UNCHANGED tvars
  BY <1>6 DEF tvars
<1> QED
  BY <1>3, <1>4, <1>5, <1>6 DEF NextTargets

\* The row that a revival, a change of the parameters or a deletion writes is
\* there before, and the others stay.
LEMMA RowsWritten ==
  ASSUME TargetsInv, NEW r \in Request, NEW t \in Target, row'[t] # row[t]
  PROVE  /\ Insert(r) => t \notin Rows /\ row'[t].status = "active"
         /\ Revive(r) => t = req[r].id /\ t \in Rows
         /\ Param(r) => t \in Rows /\ row'[t].status = row[t].status
         /\ Erase(r) => t \in Rows /\ row'[t].status = "deleted"
<1>1. row \in [Target -> RowType] /\ Knows(req[r], row)
  BY DEF TargetsInv, TargetTypes
<1>2. Insert(r) => t \notin Rows /\ row'[t].status = "active"
  <2> DEFINE u == CHOOSE u \in Target \ Rows : TRUE
             new == [status |-> "active", type |-> Value(req[r].asked.type),
                     url |-> toNullString(req[r].asked.url)]
  <2>1. SUFFICES ASSUME Insert(r)
                 PROVE  t \notin Rows /\ row'[t].status = "active"
    OBVIOUS
  <2>2. u \in Target \ Rows /\ row' = [row EXCEPT ![u] = new]
    BY <2>1 DEF Insert, Writes, Step, Rows
  <2>3. new.status = "active"
    OBVIOUS
  <2> HIDE DEF u, new
  <2> QED
    BY <1>1, <2>2, <2>3
<1>3. Revive(r) => t = req[r].id /\ t \in Rows
  BY <1>1 DEF Revive, Writes, Step, Knows, RowsOf, Rows
<1>4. ASSUME Param(r) PROVE t \in Rows /\ row'[t].status = row[t].status
  <2> DEFINE new == getWillUpdateTargetVariable(req[r].old, req[r].asked)
             rows == [row EXCEPT ![req[r].id].type = Value(new.type),
                                 ![req[r].id].url = new.url]
             view == [row[t] EXCEPT !.type = Value(new.type)]
  <2>1. row' = rows /\ req[r].pc = "param"
    BY <1>4 DEF Param, Writes, Step
  <2>2. t = req[r].id
    BY <1>1, <2>1
  <2>3. rows[t] = [view EXCEPT !.url = new.url] /\ row[t] \in RowType
    BY <1>1, <2>2
  <2> HIDE DEF new
  <2>4. view.status = row[t].status /\ DOMAIN view = {"status", "type", "url"}
    BY <2>3 DEF RowType
  <2> HIDE DEF view, rows
  <2>5. [view EXCEPT !.url = new.url].status = view.status
    BY <2>4
  <2>6. t \in Rows
    BY <1>1, <2>1, <2>2 DEF Knows, RowsOf, Rows
  <2> QED
    BY <2>1, <2>3, <2>4, <2>5, <2>6
<1>5. Erase(r) => t \in Rows /\ row'[t].status = "deleted"
  <2>1. Erase(r) => /\ req[r].pc = "erase"
                    /\ row' = [row EXCEPT ![req[r].id].status = "deleted"]
    BY DEF Erase, Writes, Step
  <2>2. Erase(r) => t = req[r].id /\ t \in Rows
    BY <1>1, <2>1 DEF Knows, RowsOf, Rows
  <2>3. row[t] \in RowType
    BY <1>1
  <2>4. [row[t] EXCEPT !.status = "deleted"].status = "deleted"
    BY <2>3 DEF RowType
  <2> QED
    BY <1>1, <2>1, <2>2, <2>4
<1> QED
  BY <1>2, <1>3, <1>4, <1>5

----------------------------------------------------------------------------
(* What the table promises.                                                *)

\* A second row of the scope is inserted only by a creation that came in
\* before there was any, and none where the unique key holds
\* (target_create.go:69).
THEOREM OneTarget == SpecTargets => OneTargetPerScope
<1> DEFINE Ok == \A t \in Target :
                   row[t].status = "none" /\ row'[t].status # "none" =>
                     \E r \in Request : /\ req[r].pc = "insert"
                                        /\ req[r].before \cap Rows = {}
                                        /\ ghes => Rows = {}
<1>1. TargetsInv /\ [NextTargets]_tvars => Ok
  <2>1. SUFFICES ASSUME TargetsInv, [NextTargets]_tvars, NEW t \in Target,
                        row[t].status = "none", row'[t].status # "none"
                 PROVE  \E r \in Request : /\ req[r].pc = "insert"
                                           /\ req[r].before \cap Rows = {}
                                           /\ ghes => Rows = {}
    OBVIOUS
  <2>2. row'[t] # row[t] /\ row' # row /\ t \notin Rows
    BY <2>1 DEF Rows
  <2>3. ASSUME NEW r \in Request, Insert(r)
        PROVE  /\ req[r].pc = "insert" /\ req[r].before \cap Rows = {}
               /\ ghes => Rows = {}
    <3>1. req[r].pc = "insert" /\ KeyFree
      BY <2>3 DEF Insert
    <3>2. Knows(req[r], row)
      BY <2>1 DEF TargetsInv
    <3> QED
      BY <3>1, <3>2 DEF Knows, KeyFree
  <2>4. ASSUME NEW r \in Request, Revive(r) \/ Param(r) \/ Erase(r)
        PROVE  FALSE
    BY <2>1, <2>2, <2>4, RowsWritten
  <2>5. ASSUME NEW s \in Writers, WriteStatus(s) PROVE FALSE
    <3>1. /\ svc[s].id \in Rows
          /\ row' = [row EXCEPT ![svc[s].id].status = svc[s].new]
          /\ row \in [Target -> RowType]
      BY <2>1, <2>5, ServiceFacts DEF WriteStatus, TargetsInv, TargetTypes
    <3> QED
      BY <2>2, <3>1
  <2> QED
    BY <2>1, <2>2, <2>3, <2>4, <2>5, RowChanges
<1> QED
  BY <1>1, Invariance, PTL DEF SpecTargets, OneTargetPerScope

\* A deleted target comes back only when a creation revives it, or by a
\* status for which the target was read before it was deleted
\* (datastore.UpdateTargetStatus).
THEOREM DeletedStays == SpecTargets => DeletedStaysDeleted
<1> DEFINE Ok == \A t \in Target :
                   row[t].status = "deleted" /\ row'[t].status # "deleted" =>
                     \/ \E r \in Request : req[r].pc = "revive"
                                            /\ req[r].id = t
                     \/ \E s \in Writers : svc[s].pc = "write"
                                            /\ svc[s].id = t
                                            /\ svc[s].deleted
<1>1. TargetsInv /\ [NextTargets]_tvars => Ok
  <2>1. SUFFICES ASSUME TargetsInv, [NextTargets]_tvars, NEW t \in Target,
                        row[t].status = "deleted", row'[t].status # "deleted"
                 PROVE  \/ \E r \in Request : req[r].pc = "revive"
                                               /\ req[r].id = t
                        \/ \E s \in Writers : svc[s].pc = "write"
                                               /\ svc[s].id = t
                                               /\ svc[s].deleted
    OBVIOUS
  <2>2. row'[t] # row[t] /\ row' # row /\ t \in Rows
    BY <2>1 DEF Rows
  <2>3. ASSUME NEW r \in Request, Insert(r) \/ Param(r) \/ Erase(r)
        PROVE  FALSE
    BY <2>1, <2>2, <2>3, RowsWritten
  <2>4. ASSUME NEW r \in Request, Revive(r)
        PROVE  req[r].pc = "revive" /\ req[r].id = t
    BY <2>1, <2>2, <2>4, RowsWritten DEF Revive
  <2>5. ASSUME NEW s \in Writers, WriteStatus(s)
        PROVE  svc[s].pc = "write" /\ svc[s].id = t /\ svc[s].deleted
    <3>1. svc[s].pc = "write" /\ Follows(svc[s], row)
      BY <2>1, <2>5, ServiceFacts DEF WriteStatus
    <3>2. svc[s].id = t
      <4>1. /\ row' = [row EXCEPT ![svc[s].id].status = svc[s].new]
            /\ row \in [Target -> RowType]
        BY <2>1, <2>5 DEF WriteStatus, TargetsInv, TargetTypes
      <4> QED
        BY <2>2, <4>1
    <3> QED
      BY <2>1, <3>1, <3>2 DEF Follows
  <2> QED
    BY <2>1, <2>2, <2>3, <2>4, <2>5, RowChanges
<1> QED
  BY <1>1, Invariance, PTL DEF SpecTargets, DeletedStaysDeleted

\* The target in the answer is what the body asks for and, for what it leaves
\* out, what was read, unless another request wrote the parameters in between
\* (target.go and target_create.go, UpdateTargetParam).
THEOREM AnsweredRight == SpecTargets => AnsweredAsAsked
<1> DEFINE Ok == \A r \in Request :
                   AnswerWithRow(r) /\ ~req[r].disturbed =>
                     LET q == req[r]  view == row[q.id] IN
                       /\ Scan(view.type) = IF q.asked.type # Unknown
                                            THEN q.asked.type ELSE q.old.type
                       /\ q.asked.url = "null" => view.url = q.old.url
                       /\ q.asked.url = "" => view.url = "null"
                       /\ q.asked.url \in Url => view.url = q.asked.url
<1>1. TargetsInv => Ok
  <2>1. SUFFICES ASSUME TargetsInv, NEW r \in Request, AnswerWithRow(r),
                        ~req[r].disturbed
                 PROVE  LET q == req[r]  view == row[q.id] IN
                        /\ Scan(view.type) = IF q.asked.type # Unknown
                                             THEN q.asked.type ELSE q.old.type
                        /\ q.asked.url = "null" => view.url = q.old.url
                        /\ q.asked.url = "" => view.url = "null"
                        /\ q.asked.url \in Url => view.url = q.asked.url
    OBVIOUS
  <2>2. Shown(req[r], row[req[r].id])
    BY <2>1 DEF TargetsInv, Knows, AnswerWithRow
  <2>3. Url \cap {"", "null"} = {} /\ "" # "null"
    BY ZenonT(20), TargetsAssumption DEF TargetsAssumption
  <2>4. \A url \in Url : url # "" /\ url # "null"
    BY ZenonT(20), <2>3
  <2> QED
    BY ZenonT(20), <2>2, <2>3, <2>4 DEF Shown, toNullString
<1> QED
  BY <1>1, Invariance, PTL DEF SpecTargets, AnsweredAsAsked

=============================================================================
