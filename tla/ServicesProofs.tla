--------------------------- MODULE ServicesProofs ---------------------------
(***************************************************************************)
(* Theorems about Services, for every value of its constants.  Each        *)
(* service is proved about alone: a step of the composition is one of its  *)
(* own steps, or leaves its variables as they are.                         *)
(***************************************************************************)
EXTENDS Services, TargetsProofs, TLAPS

----------------------------------------------------------------------------
(* The composition.                                                        *)

\* What the composition does to the table of the targets.
LEMMA TargetsSteps == Spec => SpecTargets
<1>1. Init => InitTargets
  BY DEF Init
<1>2. [Next]_vars => [NextTargets]_tvars
  BY DEF Next, vars
<1> QED
  BY <1>1, <1>2, PTL DEF Spec, SpecTargets

\* What it does to the lock.
LEMMA LockSteps == Spec => InitServerLock /\ [][NextServerLock]_lvars
<1>1. Init => InitServerLock
  BY DEF Init
<1>2. [Next]_vars => [NextServerLock]_lvars
  BY DEF Next, vars
<1> QED
  BY <1>1, <1>2, PTL DEF Spec

\* What it does to the tokens of the targets.
LEMMA TokenSteps == Spec => InitTargetToken /\ [][NextTargetToken]_kvars
<1>1. Init => InitTargetToken
  BY DEF Init
<1>2. [Next]_vars => [NextTargetToken]_kvars
  BY DEF Next, vars
<1> QED
  BY <1>1, <1>2, PTL DEF Spec

\* What it does to the cache of registration tokens.
LEMMA RegistrationSteps ==
  Spec => InitRegistrationToken /\ [][NextRegistrationToken]_gvars
<1>1. Init => InitRegistrationToken
  BY DEF Init
<1>2. [Next]_vars => [NextRegistrationToken]_gvars
  BY DEF Next, vars
<1> QED
  BY <1>1, <1>2, PTL DEF Spec

\* What it does to the cache of installations.
LEMMA InstallationSteps ==
  Spec => InitInstallations /\ [][NextInstallations]_ivars
<1>1. Init => InitInstallations
  BY DEF Init
<1>2. [Next]_vars => [NextInstallations]_ivars
  BY DEF Next, vars
<1> QED
  BY <1>1, <1>2, PTL DEF Spec

\* What it does to the jobs that come in.
LEMMA IntakeSteps == Spec => InitIntake /\ [][NextIntake]_nvars
<1>1. Init => InitIntake
  BY DEF Init
<1>2. [Next]_vars => [NextIntake]_nvars
  BY DEF Next, vars
<1> QED
  BY <1>1, <1>2, PTL DEF Spec

----------------------------------------------------------------------------
(* One server at a time.                                                   *)

LockTypes ==
  /\ at \in [Server -> {"down", "check", "sleep", "get", "serve"}]
  /\ holder \in Server \cup {"none", "ghost"}
  /\ lock \in [Server -> {"no", "idle", "used"}]
  /\ idle \in [Server -> Nat] /\ used \in [Server -> Nat]
  /\ peak \in [Server -> Nat]
  /\ raced \in BOOLEAN /\ broken \in BOOLEAN

\* A pool has opened no more connections than were in use at once, and a
\* server that has not got so far has one at most.
Pool(s) ==
  /\ at[s] # "serve" => used[s] = 0 /\ lock[s] = "no"
  /\ at[s] = "down" => idle[s] = 0
  /\ at[s] = "get" => idle[s] <= 1 /\ peak[s] >= 1
  /\ idle[s] + used[s] + (IF lock[s] = "no" THEN 0 ELSE 1) <= peak[s]

\* Who serves without the lock has got by a race, or its connection is gone.
Keeps(s) ==
  /\ lock[s] # "no" <=> holder = s
  /\ at[s] = "serve" /\ holder # s => raced \/ broken \/ peak[s] > MaxIdle

\* Without a race, who is about to call GET_LOCK is alone, and the lock free.
Alone(s) ==
  at[s] = "get" /\ ~raced =>
    /\ holder = "none"
    /\ \A o \in Server : at[o] = "get" => o = s

LockInv ==
  /\ LockTypes
  /\ \A s \in Server : Pool(s) /\ Keeps(s) /\ Alone(s)

\* A server on its way to the lock preserves the invariant.
LEMMA RunLockInv ==
  ASSUME LockInv, NEW s \in Server, Boot(s) \/ RunSteps(s)
  PROVE  LockInv'
<1> USE ServerLockAssumption DEF LockInv, LockTypes
<1>1. CASE Boot(s)
  BY <1>1 DEF Boot, Pool, Keeps, Alone
<1>2. CASE IsLocked(s)
  <2>1. LockTypes' /\ \A p \in Server : Pool(p)' /\ Keeps(p)'
    BY <1>2 DEF IsLocked, Pool, Keeps
  <2>2. \A p \in Server : Alone(p)'
    BY <1>2 DEF IsLocked, Alone
  <2> QED
    BY <2>1, <2>2
<1>3. CASE Wake(s)
  BY <1>3 DEF Wake, Pool, Keeps, Alone
<1>4. CASE GetLock(s)
  BY <1>4 DEF GetLock, Pool, Keeps, Alone
<1>5. CASE GetLockTimesOut(s)
  BY <1>5 DEF GetLockTimesOut, Pool, Keeps, Alone
<1> QED
  BY <1>1, <1>2, <1>3, <1>4, <1>5 DEF RunSteps

\* So does the pool of a server, and the end of a process.
LEMMA PoolLockInv ==
  ASSUME LockInv, NEW s \in Server,
         Take(s) \/ GiveBack(s) \/ GiveLockBack(s) \/ LoseConnection(s)
           \/ Exit(s)
  PROVE  LockInv'
<1> USE ServerLockAssumption DEF LockInv, LockTypes
<1>1. CASE Take(s)
  BY <1>1 DEF Take, InUse, Pool, Keeps, Alone
<1>2. CASE GiveBack(s)
  BY <1>2 DEF GiveBack, Idles, Pool, Keeps, Alone
<1>3. CASE GiveLockBack(s)
  BY <1>3 DEF GiveLockBack, Idles, Pool, Keeps, Alone
<1>4. CASE Exit(s)
  <2>1. LockTypes' /\ \A p \in Server : Pool(p)' /\ Alone(p)'
    BY <1>4 DEF Exit, Pool, Keeps, Alone
  <2>2. \A p \in Server : Keeps(p)'
    BY <1>4 DEF Exit, Keeps
  <2> QED
    BY <2>1, <2>2
<1>5. CASE LoseConnection(s)
  <2>1. LockTypes' /\ Pool(s)'
    <3>1. CASE /\ lock[s] # "no" /\ lock' = [lock EXCEPT ![s] = "no"]
               /\ holder' \in {"none", "ghost"}
               /\ broken' = TRUE /\ UNCHANGED <<idle, used>>
      BY <1>5, <3>1 DEF LoseConnection, Pool
    <3>2. CASE /\ idle[s] > 0 /\ idle' = [idle EXCEPT ![s] = @ - 1]
               /\ UNCHANGED <<lock, holder, used, broken>>
      BY <1>5, <3>2 DEF LoseConnection, Pool
    <3>3. CASE /\ used[s] > 0 /\ used' = [used EXCEPT ![s] = @ - 1]
               /\ UNCHANGED <<lock, holder, idle, broken>>
      BY <1>5, <3>3 DEF LoseConnection, Pool
    <3> QED
      BY <1>5, <3>1, <3>2, <3>3 DEF LoseConnection
  <2>2. \A p \in Server \ {s} : Pool(p)'
    BY <1>5 DEF LoseConnection, Pool
  <2>3. \A p \in Server : Keeps(p)'
    BY <1>5 DEF LoseConnection, Keeps
  <2>4. \A p \in Server : Alone(p)'
    BY <1>5 DEF LoseConnection, Keeps, Alone, Pool
  <2> QED
    BY <2>1, <2>2, <2>3, <2>4
<1> QED
  BY <1>1, <1>2, <1>3, <1>4, <1>5

LEMMA LockCorrect == Spec => []LockInv
<1>1. InitServerLock => LockInv
  <2> SUFFICES ASSUME InitServerLock PROVE LockInv
    OBVIOUS
  <2>1. LockTypes
    BY DEF InitServerLock, LockTypes
  <2>2. ASSUME NEW s \in Server PROVE Pool(s) /\ Keeps(s) /\ Alone(s)
    BY ServerLockAssumption DEF InitServerLock, Pool, Keeps, Alone
  <2> QED
    BY <2>1, <2>2 DEF LockInv
<1>2. LockInv /\ [NextServerLock]_lvars => LockInv'
  <2>1. ASSUME LockInv, UNCHANGED lvars PROVE LockInv'
    BY <2>1 DEF lvars, LockInv, LockTypes, Pool, Keeps, Alone
  <2>2. ASSUME LockInv, GhostEnds PROVE LockInv'
    BY <2>2, ServerLockAssumption
       DEF GhostEnds, LockInv, LockTypes, Pool, Keeps, Alone
  <2> QED
    BY <2>1, <2>2, RunLockInv, PoolLockInv DEF NextServerLock
<1> QED
  BY <1>1, <1>2, LockSteps, PTL

\* However many servers there are and however they come and go: two work at
\* once only after a race for the lock, once a server has used more
\* connections than its pool keeps, or once one has lost the connection with
\* the lock.
THEOREM OneServerCorrect == Spec => []OneServer
<1>1. LockInv => OneServer
  BY DEF LockInv, Keeps, OneServer, Serving
<1> QED
  BY <1>1, LockCorrect, PTL

\* A pool keeps no more idle connections than it may, and the services use no
\* more than the bound at once.
PoolTypes ==
  /\ idle \in [Server -> 0 .. MaxIdle] /\ used \in [Server -> 0 .. MaxLoad]
  /\ starts \in 0 .. MaxStarts

LEMMA NextPoolTypes ==
  ASSUME LockInv, PoolTypes, [NextServerLock]_lvars PROVE PoolTypes'
<1> USE ServerLockAssumption DEF PoolTypes
<1>1. /\ lock \in [Server -> {"no", "idle", "used"}]
      /\ idle \in [Server -> 0 .. MaxIdle] /\ used \in [Server -> 0 .. MaxLoad]
  BY DEF LockInv, LockTypes
<1>2. ASSUME NEW s \in Server,
             Boot(s) \/ Wake(s) \/ GiveLockBack(s)
      PROVE  PoolTypes'
  BY <1>2 DEF Boot, Wake, GiveLockBack
<1>3. ASSUME NEW s \in Server,
             IsLocked(s) \/ GetLock(s) \/ GetLockTimesOut(s) \/ Exit(s)
      PROVE  PoolTypes'
  BY <1>3 DEF IsLocked, GetLock, GetLockTimesOut, Exit
<1>4. ASSUME NEW s \in Server, Take(s) PROVE PoolTypes'
  <2>1. used[s] + 1 \in 0 .. MaxLoad
    BY <1>1, <1>4 DEF Take, InUse
  <2> QED
    BY <1>1, <1>4, <2>1 DEF Take
<1>5. ASSUME NEW s \in Server, GiveBack(s) PROVE PoolTypes'
  <2>1. Idles(s) < MaxIdle => idle[s] + 1 \in 0 .. MaxIdle
    BY <1>1 DEF Idles
  <2> QED
    BY <1>1, <1>5, <2>1 DEF GiveBack
<1>6. ASSUME GhostEnds \/ UNCHANGED lvars PROVE PoolTypes'
  BY <1>6 DEF GhostEnds, lvars
<1>7. ASSUME NEW s \in Server, LoseConnection(s) PROVE PoolTypes'
  <2>1. \A n \in Nat : n > 0 => n - 1 \in Nat
    OBVIOUS
  <2> QED
    BY <1>1, <1>7, <2>1 DEF LoseConnection
<1> QED
  BY <1>2, <1>3, <1>4, <1>5, <1>6, <1>7 DEF NextServerLock, RunSteps

LEMMA ServerLockTypes == Spec => []ServerLockTypeOK
<1>1. InitServerLock => PoolTypes
  BY ServerLockAssumption DEF InitServerLock, PoolTypes
<1>2. LockInv /\ PoolTypes => ServerLockTypeOK
  BY DEF LockInv, LockTypes, PoolTypes, ServerLockTypeOK
<1>3. LockInv /\ PoolTypes /\ [NextServerLock]_lvars => PoolTypes'
  BY NextPoolTypes
<1> QED
  BY <1>1, <1>2, <1>3, LockCorrect, LockSteps, PTL

----------------------------------------------------------------------------
(* The tokens of the targets.                                              *)

\* A token loses an interval when a round begins and is looked at once in the
\* round: what it has lost of NeedRefreshToken, failures account for.
Accounted(t) ==
  LiveToken(t) /\ ~stale[t]
    => left[t] + failed[t] >= Need + (IF t \in todo THEN 0 ELSE 1)

TokenInv ==
  /\ left \in [Scope -> Nat] /\ failed \in [Scope -> Nat]
  /\ status \in [Scope -> {"none", "active", "error", "deleted"}]
  /\ stale \in [Scope -> BOOLEAN]
  /\ round = "wait" => todo = {}
  /\ \A t \in Scope : Accounted(t)

\* TokenInv is inductive.
LEMMA NextTokenInv == ASSUME TokenInv, NextTargetToken PROVE TokenInv'
<1> USE TargetTokenAssumption DEF TokenInv, Accounted, LiveToken
<1>1. CASE ListDue
  <2>1. left' \in [Scope -> Nat] /\ UNCHANGED <<failed, status, stale>>
      /\ round' = "go"
    BY <1>1 DEF ListDue, LeftAfter
  <2>2. ASSUME NEW t \in Scope PROVE Accounted(t)'
    <3>1. left'[t] = IF left[t] > 0 THEN left[t] - 1 ELSE 0
      BY <1>1, <2>1 DEF ListDue, LeftAfter
    <3>2. LiveToken(t) => t \in todo'
      BY <1>1 DEF ListDue
    <3>3. ASSUME LiveToken(t), ~stale[t]
          PROVE  left[t] + failed[t] >= Need + 1
      <4>1. /\ Accounted(t) /\ t \notin todo
            /\ left[t] \in Nat /\ failed[t] \in Nat
        BY <1>1 DEF ListDue
      <4> QED
        BY <3>3, <4>1
    <3>4. ASSUME LiveToken(t), ~stale[t]
          PROVE  left'[t] + failed[t] >= Need
      <4>1. left[t] \in Nat /\ failed[t] \in Nat
        OBVIOUS
      <4> QED
        BY <3>1, <3>3, <3>4, <4>1
    <3> QED
      BY <2>1, <3>2, <3>4
  <2> QED
    BY <2>1, <2>2
<1>11. CASE ListFails
  <2>1. left' \in [Scope -> Nat] /\ UNCHANGED <<status, stale, todo, round>>
    BY <1>11 DEF ListFails, LeftAfter
  <2>2. failed' \in [Scope -> Nat]
    BY <1>11 DEF ListFails
  <2>3. ASSUME NEW t \in Scope, LiveToken(t), ~stale[t]
        PROVE  left'[t] + failed'[t] >= Need + 1
    <3>1. /\ Accounted(t) /\ t \notin todo
          /\ left[t] \in Nat /\ failed[t] \in Nat
      BY <1>11 DEF ListFails
    <3>2. left'[t] = IF left[t] > 1 THEN left[t] - 1 ELSE 0
      BY <1>11 DEF ListFails, LeftAfter
    <3>3. failed'[t] = IF left'[t] <= Need THEN failed[t] + 1 ELSE failed[t]
      BY <1>11, <2>3 DEF ListFails
    <3> QED
      BY <2>3, <3>1, <3>2, <3>3
  <2>4. ASSUME NEW t \in Scope PROVE Accounted(t)'
    <3>1. left'[t] \in Nat /\ failed'[t] \in Nat
      BY <2>1, <2>2
    <3> QED
      BY <2>1, <2>3, <3>1
  <2> QED
    BY <2>1, <2>2, <2>4
<1>12. CASE Restart
  <2>1. left' \in [Scope -> Nat]
    BY <1>12 DEF Restart, LeftAfter
  <2> QED
    BY <1>12, <2>1 DEF Restart
<1>2. CASE RoundDone
  BY <1>2 DEF RoundDone
<1>3. ASSUME NEW t \in Scope, KeepToken(t) PROVE TokenInv'
  BY <1>3 DEF KeepToken, NeedsRefresh
<1>4. ASSUME NEW t \in Scope, RenewToken(t) PROVE TokenInv'
  BY <1>4 DEF RenewToken
<1>5. ASSUME NEW t \in Scope, RenewFails(t) PROVE TokenInv'
  BY <1>5 DEF RenewFails
<1>6. ASSUME NEW t \in Scope, CreateTarget(t) PROVE TokenInv'
  BY <1>6 DEF CreateTarget
<1>7. ASSUME NEW t \in Scope, DeleteTarget(t) PROVE TokenInv'
  BY <1>7 DEF DeleteTarget
<1>8. ASSUME NEW t \in Scope, RecreateTarget(t) PROVE TokenInv'
  BY <1>8 DEF RecreateTarget
<1>9. ASSUME NEW t \in Scope, MarkActive(t) PROVE TokenInv'
  BY <1>9 DEF MarkActive
<1> QED
  BY <1>1, <1>2, <1>3, <1>4, <1>5, <1>6, <1>7, <1>8, <1>9, <1>11, <1>12
     DEF NextTargetToken, RoundSteps

LEMMA TokensCorrect == Spec => []TokenInv
<1>1. InitTargetToken => TokenInv
  BY DEF InitTargetToken, TokenInv, Accounted, LiveToken
<1>2. TokenInv /\ [NextTargetToken]_kvars => TokenInv'
  <2>1. ASSUME TokenInv, UNCHANGED kvars PROVE TokenInv'
    BY <2>1 DEF kvars, TokenInv, Accounted, LiveToken
  <2> QED
    BY <2>1, NextTokenInv
<1> QED
  BY <1>1, <1>2, TokenSteps, PTL

\* Whatever GitHub's lifetime of a token and the margin are: a live target has
\* an expired token only after that many failed renewals in a row, or until the
\* first round after a restart or a new creation has come to it.
THEOREM ExpiryCorrect == Spec => []ExpiryExplained
<1>1. TokenInv => ExpiryExplained
  BY TargetTokenAssumption DEF TokenInv, Accounted, ExpiryExplained
<1> QED
  BY <1>1, TokensCorrect, PTL

\* No token has longer to live than GitHub gives it, and each failure is one
\* of the bound.
TroubleTypes ==
  /\ left \in [Scope -> 0 .. Life]
  /\ todo \subseteq Scope /\ round \in {"wait", "go"}
  /\ trouble \in 0 .. MaxTrouble
  /\ \A t \in Scope : failed[t] <= trouble

LEMMA NextTroubleTypes ==
  ASSUME TokenInv, TroubleTypes, [NextTargetToken]_kvars
  PROVE  TroubleTypes'
<1> USE TargetTokenAssumption DEF TroubleTypes
<1>1. /\ failed \in [Scope -> Nat] /\ Life \in Nat /\ trouble \in Nat
      /\ left \in [Scope -> 0 .. Life]
      /\ status \in [Scope -> {"none", "active", "error", "deleted"}]
  BY DEF TokenInv
<1>2. ASSUME Disturbs
      PROVE  trouble' = trouble + 1 /\ trouble' \in 0 .. MaxTrouble
  BY <1>2 DEF Disturbs
<1>3. \A n \in Nat : LeftAfter(n) \in [Scope -> 0 .. Life]
  BY <1>1 DEF LeftAfter
<1>4. CASE ListDue
  BY <1>1, <1>3, <1>4 DEF ListDue
<1>5. CASE ListFails
  <2>1. \A t \in Scope : failed'[t] \in {failed[t], failed[t] + 1}
    BY <1>5 DEF ListFails
  <2> QED
    BY <1>1, <1>2, <1>3, <1>5, <2>1 DEF ListFails
<1>6. CASE Restart
  <2>1. left' \in [Scope -> 0 .. Life]
    BY <1>1, <1>3, <1>6 DEF Restart
  <2> QED
    BY <1>1, <1>2, <1>6, <2>1 DEF Restart
<1>7. CASE RoundDone \/ UNCHANGED kvars
  BY <1>7 DEF RoundDone, kvars
<1>8. ASSUME NEW t \in Scope, KeepToken(t) \/ RenewToken(t)
      PROVE  TroubleTypes'
  BY <1>1, <1>8 DEF KeepToken, RenewToken
<1>9. ASSUME NEW t \in Scope, RenewFails(t) PROVE TroubleTypes'
  <2>1. \A u \in Scope : failed'[u] \in {failed[u], failed[u] + 1}
    BY <1>1, <1>9 DEF RenewFails
  <2> QED
    BY <1>1, <1>2, <1>9, <2>1 DEF RenewFails
<1>10. ASSUME NEW t \in Scope,
              CreateTarget(t) \/ RecreateTarget(t) \/ MarkActive(t)
       PROVE  TroubleTypes'
  BY <1>1, <1>10 DEF CreateTarget, RecreateTarget, MarkActive
<1>11. ASSUME NEW t \in Scope, DeleteTarget(t) PROVE TroubleTypes'
  BY <1>1, <1>2, <1>11 DEF DeleteTarget
<1> QED
  BY <1>4, <1>5, <1>6, <1>7, <1>8, <1>9, <1>10, <1>11
     DEF NextTargetToken, RoundSteps

LEMMA TargetTokenTypes == Spec => []TargetTokenTypeOK
<1>1. InitTargetToken => TroubleTypes
  BY TargetTokenAssumption DEF InitTargetToken, TroubleTypes
<1>2. TokenInv /\ TroubleTypes => TargetTokenTypeOK
  BY TargetTokenAssumption DEF TokenInv, TroubleTypes, TargetTokenTypeOK
<1>3. TokenInv /\ TroubleTypes /\ [NextTargetToken]_kvars => TroubleTypes'
  BY NextTroubleTypes
<1> QED
  BY <1>1, <1>2, <1>3, TokensCorrect, TokenSteps, PTL

----------------------------------------------------------------------------
(* The cache of registration tokens.                                       *)

\* An entry outlives no token: it goes the margin before.
EntryInv ==
  /\ calls \in [Setup -> [pc : {"none", "set"}, life : Nat]]
  /\ entry \in [full : BOOLEAN, life : Nat, for : Nat, never : BOOLEAN,
                short : BOOLEAN]
  /\ entry.full /\ ~entry.short
       => ~entry.never /\ entry.for > 0 /\ entry.life = entry.for + Margin
  /\ entry.never => entry.full /\ entry.for = 0

LEMMA EntryCorrect == Spec => []EntryInv
<1> USE RegistrationTokenAssumption DEF EntryInv
<1>1. InitRegistrationToken => EntryInv
  BY DEF InitRegistrationToken, NoEntry
<1>2. EntryInv /\ [NextRegistrationToken]_gvars => EntryInv'
  <2>1. ASSUME EntryInv, UNCHANGED gvars PROVE EntryInv'
    BY <2>1 DEF gvars
  <2>2. ASSUME EntryInv, NEW c \in Setup, Generate(c) PROVE EntryInv'
    BY <2>2 DEF Generate
  <2>3. ASSUME EntryInv, NEW c \in Setup, SetToken(c) PROVE EntryInv'
    <3> DEFINE life == calls[c].life
               d == Duration(life)
    <3>1. life \in Nat /\ d \in Int /\ d = life - Margin
      BY <2>3 DEF Duration
    <3>2. calls' \in [Setup -> [pc : {"none", "set"}, life : Nat]]
      BY <2>3 DEF SetToken
    <3>3. entry' = [full |-> TRUE, life |-> life, never |-> d < 0,
                    for |-> IF d = 0 THEN Default ELSE IF d > 0 THEN d ELSE 0,
                    short |-> life <= Margin]
      BY <2>3 DEF SetToken
    <3> HIDE DEF life, d
    <3>4. entry' \in [full : BOOLEAN, life : Nat, for : Nat, never : BOOLEAN,
                      short : BOOLEAN]
      BY <3>1, <3>3
    <3>5. ASSUME ~entry'.short
          PROVE  /\ ~entry'.never /\ entry'.for > 0
                 /\ entry'.life = entry'.for + Margin
      <4>1. (entry'.short <=> life <= Margin) /\ (entry'.never <=> d < 0)
        BY <3>3
      <4>2. entry'.life = life
            /\ entry'.for = IF d = 0 THEN Default ELSE IF d > 0 THEN d ELSE 0
        BY <3>3
      <4>3. life > Margin /\ d > 0
        BY <3>1, <3>5, <4>1
      <4> QED
        BY <3>1, <4>1, <4>2, <4>3
    <3>6. entry'.never => entry'.full /\ entry'.for = 0
      <4>1. (entry'.never <=> d < 0) /\ entry'.full
        BY <3>3
      <4>2. entry'.for = IF d = 0 THEN Default ELSE IF d > 0 THEN d ELSE 0
        BY <3>3
      <4> QED
        BY <3>1, <4>1, <4>2
    <3> QED
      BY <3>2, <3>4, <3>5, <3>6
  <2>4. ASSUME EntryInv, Passes PROVE EntryInv'
    <3>1. \A n \in Nat : Less(n) \in Nat /\ (n > 0 => Less(n) = n - 1)
      BY DEF Less
    <3>2. calls' \in [Setup -> [pc : {"none", "set"}, life : Nat]]
      BY <2>4, <3>1 DEF Passes
    <3>3. CASE entry' = NoEntry
      BY <2>4, <3>2, <3>3 DEF NoEntry
    <3>4. CASE /\ ~(entry.full /\ ~entry.never /\ entry.for <= 1)
               /\ entry' = [entry EXCEPT !.life = Less(@), !.for = Less(@)]
      <4>0. /\ entry \in [full : BOOLEAN, life : Nat, for : Nat,
                          never : BOOLEAN, short : BOOLEAN]
            /\ Less(entry.life) \in Nat /\ Less(entry.for) \in Nat
        BY <2>4, <3>1
      <4>1. /\ entry' \in [full : BOOLEAN, life : Nat, for : Nat,
                           never : BOOLEAN, short : BOOLEAN]
            /\ entry'.full = entry.full /\ entry'.short = entry.short
            /\ entry'.never = entry.never
            /\ entry'.life = Less(entry.life) /\ entry'.for = Less(entry.for)
        BY <3>4, <4>0
      <4>2. ASSUME entry.full, ~entry.short
            PROVE  /\ entry'.for > 0 /\ ~entry'.never
                   /\ entry'.life = entry'.for + Margin
        <5>1. ~entry.never /\ entry.life = entry.for + Margin
          BY <2>4, <4>2
        <5>2. entry.for \in Nat /\ entry.life \in Nat
          BY <4>0
        <5>3. entry.for > 1
          BY <3>4, <4>2, <5>1, <5>2
        <5> QED
          BY <3>1, <4>1, <5>1, <5>2, <5>3
      <4>3. entry'.never => entry'.full /\ entry'.for = 0
        BY <2>4, <4>1 DEF Less
      <4> QED
        BY <3>2, <4>1, <4>2, <4>3
    <3> QED
      BY <2>4, <3>3, <3>4 DEF Passes
  <2> QED
    BY <2>1, <2>2, <2>3, <2>4 DEF NextRegistrationToken
<1> QED
  BY <1>1, <1>2, RegistrationSteps, PTL

\* Whatever the margin and the lives of the tokens are: a token from the cache
\* lives for longer than the margin, unless it came with less.
THEOREM HandedTokenCorrect == Spec => []HandedTokenLives
<1>1. EntryInv => HandedTokenLives
  BY RegistrationTokenAssumption DEF EntryInv, HandedTokenLives
<1> QED
  BY <1>1, EntryCorrect, PTL

LEMMA RegistrationTokenTypes == Spec => []RegistrationTokenTypeOK
<1>1. EntryInv => RegistrationTokenTypeOK
  BY DEF EntryInv, RegistrationTokenTypeOK
<1> QED
  BY <1>1, EntryCorrect, PTL

----------------------------------------------------------------------------
(* The cache of installations.                                             *)

CallerType ==
  [pc : {"rest", "get", "set", "purge", "drop", "done"}, key : Key,
   got : Int, create : BOOLEAN, purged : BOOLEAN, since : Int, oldest : Int,
   overlap : BOOLEAN]

\* A creation, p, has deleted key k from the cache, and nobody was filling it.
Purged(p, k) ==
  p.create /\ ~p.overlap /\ (p.purged \/ (k = "repos" /\ p.pc = "drop"))

\* From then on neither the cache nor a fill has an older answer.
Fresh(p, k) ==
  Purged(p, k) =>
    /\ cached[k] = Miss \/ cached[k] >= p.since
    /\ \A o \in Caller :
         caller[o].pc = "set" /\ caller[o].key = k
           => caller[o].got >= p.since

\* And it works with no older answer.
Worked(p) ==
  p.since <= now /\ (p.create /\ ~p.overlap => p.oldest >= p.since)

CacheInv ==
  /\ caller \in [Caller -> CallerType]
  /\ now \in Nat /\ cached \in [Key -> Int]
  /\ \A c \in Caller :
       Worked(caller[c]) /\ \A k \in Key : Fresh(caller[c], k)

\* What a caller makes of an answer.
LEMMA UsesAnswer ==
  ASSUME NEW c \in Caller, caller[c] \in CallerType, NEW answer \in Int
  PROVE  LET n == Uses(c, answer)  p == caller[c] IN
         /\ n \in CallerType /\ n.pc \in {"get", "purge", "done"}
         /\ n.create = p.create /\ n.purged = p.purged
         /\ n.overlap = p.overlap /\ n.since = p.since /\ n.got = Miss
         /\ n.oldest = IF p.purged /\ answer < p.oldest THEN answer
                                                         ELSE p.oldest
<1> DEFINE p == caller[c]
           q == [p EXCEPT !.got = Miss]
           n == Uses(c, answer)
<1>1. p \in CallerType /\ Miss \in Int
  BY DEF Miss
<1>2. /\ q \in CallerType /\ q.got = Miss
      /\ q.create = p.create /\ q.purged = p.purged /\ q.since = p.since
      /\ q.overlap = p.overlap /\ q.oldest = p.oldest
  BY <1>1 DEF CallerType
<1>3. CASE ~p.purged
  <2>1. n = [q EXCEPT !.pc = "purge"]
    BY <1>1, <1>3 DEF Uses, CallerType
  <2> HIDE DEF n, q, p
  <2>2. /\ n \in CallerType /\ n.got = Miss /\ n.pc = "purge"
        /\ n.create = q.create /\ n.purged = q.purged /\ n.since = q.since
        /\ n.overlap = q.overlap /\ n.oldest = q.oldest
    BY <1>2, <2>1 DEF CallerType
  <2> QED
    BY <1>2, <1>3, <2>2 DEF n, p
<1>4. CASE p.purged
  <2> DEFINE oldest == IF answer < p.oldest THEN answer ELSE p.oldest
             seen == [q EXCEPT !.oldest = oldest]
             asks == [seen EXCEPT !.pc = "get"]
  <2>1. oldest \in Int
    BY <1>1 DEF CallerType
  <2>2. \/ n = [asks EXCEPT !.key = "repos"]
        \/ n = [seen EXCEPT !.pc = "done"]
    BY <1>4 DEF Uses
  <2> HIDE DEF n, q, p, oldest
  <2>3. /\ seen \in CallerType /\ seen.oldest = oldest /\ seen.got = Miss
        /\ seen.create = q.create /\ seen.purged = q.purged
        /\ seen.since = q.since /\ seen.overlap = q.overlap
    BY <1>2, <2>1 DEF CallerType
  <2> HIDE DEF seen
  <2>4. /\ asks \in CallerType /\ asks.pc = "get" /\ asks.got = Miss
        /\ asks.oldest = seen.oldest
        /\ asks.create = seen.create /\ asks.purged = seen.purged
        /\ asks.since = seen.since /\ asks.overlap = seen.overlap
    BY <2>3 DEF CallerType
  <2> HIDE DEF asks
  <2>5. /\ n \in CallerType /\ n.pc \in {"get", "done"} /\ n.got = Miss
        /\ n.oldest = seen.oldest
        /\ n.create = seen.create /\ n.purged = seen.purged
        /\ n.since = seen.since /\ n.overlap = seen.overlap
    BY <2>2, <2>3, <2>4 DEF CallerType, Key
  <2>6. oldest = IF p.purged /\ answer < p.oldest THEN answer ELSE p.oldest
    BY <1>4 DEF oldest
  <2> QED
    BY <1>2, <2>3, <2>5, <2>6 DEF n, p
<1> QED
  BY <1>3, <1>4

\* If the answer is fresh for the caller, so is what it has worked with.
LEMMA UsesFresh ==
  ASSUME NEW c \in Caller, caller[c] \in CallerType, NEW answer \in Int,
         Worked(caller[c]),
         Purged(caller[c], caller[c].key) => answer >= caller[c].since
  PROVE  LET n == Uses(c, answer) IN
         /\ n \in CallerType /\ n.pc \in {"get", "purge", "done"}
         /\ n.create = caller[c].create /\ n.purged = caller[c].purged
         /\ n.overlap = caller[c].overlap /\ n.since = caller[c].since
         /\ Worked(n)
<1> DEFINE p == caller[c]
           n == Uses(c, answer)
<1>1. /\ n \in CallerType /\ n.pc \in {"get", "purge", "done"}
      /\ n.create = p.create /\ n.purged = p.purged
      /\ n.overlap = p.overlap /\ n.since = p.since
      /\ n.oldest = IF p.purged /\ answer < p.oldest THEN answer ELSE p.oldest
  BY UsesAnswer
<1>2. /\ p.since <= now
      /\ p.create /\ ~p.overlap => p.oldest >= p.since
      /\ p.create /\ ~p.overlap /\ p.purged => answer >= p.since
  BY DEF Worked, Purged
<1> HIDE DEF n, p
<1>3. Worked(n)
  BY <1>1, <1>2 DEF Worked
<1> QED
  BY <1>1, <1>3 DEF n, p

\* One caller goes on to n; the cache stays fresh for all.
LEMMA CallerStep ==
  ASSUME CacheInv, NEW c \in Caller, NEW n \in CallerType, GoesOn(c, n),
         now' = now, cached' \in [Key -> Int], Worked(n),
         \A d \in Caller \ {c}, k \in Key : Purged(caller[d], k) =>
           /\ cached'[k] = Miss \/ cached'[k] >= caller[d].since
           /\ n.pc = "set" /\ n.key = k => n.got >= caller[d].since,
         \A k \in Key : Purged(n, k) =>
           /\ cached'[k] = Miss \/ cached'[k] >= n.since
           /\ n.pc = "set" /\ n.key = k => n.got >= n.since
           /\ \A o \in Caller \ {c} :
                caller[o].pc = "set" /\ caller[o].key = k
                  => caller[o].got >= n.since
  PROVE  CacheInv'
<1>1. caller' \in [Caller -> CallerType]
      /\ \A d \in Caller : caller'[d] = IF d = c THEN n ELSE caller[d]
  BY DEF CacheInv, GoesOn
<1>2. ASSUME NEW d \in Caller, NEW k \in Key, Purged(caller'[d], k)
      PROVE  /\ cached'[k] = Miss \/ cached'[k] >= caller'[d].since
             /\ \A o \in Caller :
                  caller'[o].pc = "set" /\ caller'[o].key = k
                    => caller'[o].got >= caller'[d].since
  <2>1. CASE d = c
    BY <1>1, <1>2, <2>1
  <2>2. CASE d # c
    <3>1. caller'[d] = caller[d] /\ Purged(caller[d], k)
      BY <1>1, <1>2, <2>2
    <3>2. \A o \in Caller : caller[o].pc = "set" /\ caller[o].key = k
                              => caller[o].got >= caller[d].since
      BY <3>1 DEF CacheInv, Fresh
    <3> QED
      BY <1>1, <2>2, <3>1, <3>2
  <2> QED
    BY <2>1, <2>2
<1>3. \A d \in Caller : Worked(caller'[d])
  BY <1>1 DEF CacheInv
<1>4. \A d \in Caller, k \in Key : Fresh(caller[d], k)'
  BY <1>2 DEF Fresh, Purged
<1>5. \A d \in Caller : Worked(caller[d])'
  BY <1>3 DEF Worked
<1> QED
  BY <1>1, <1>4, <1>5 DEF CacheInv

\* What CacheInv says of one caller.
LEMMA CacheFacts ==
  ASSUME CacheInv, NEW c \in Caller
  PROVE  /\ caller[c] \in CallerType /\ Worked(caller[c])
         /\ now \in Nat /\ cached \in [Key -> Int]
         /\ \A k \in Key : Purged(caller[c], k) =>
              /\ cached[k] = Miss \/ cached[k] >= caller[c].since
              /\ \A o \in Caller :
                   caller[o].pc = "set" /\ caller[o].key = k
                     => caller[o].got >= caller[c].since
BY DEF CacheInv, Fresh

LEMMA NextInstallationsInv ==
  CacheInv /\ [NextInstallations]_ivars => CacheInv'
<1> SUFFICES ASSUME CacheInv, [NextInstallations]_ivars PROVE CacheInv'
  OBVIOUS
<1>0. /\ caller \in [Caller -> CallerType] /\ now \in Nat
      /\ cached \in [Key -> Int]
  BY DEF CacheInv
<1>1. ASSUME Change PROVE CacheInv'
  <2>1. now' = now + 1 /\ UNCHANGED <<cached, caller>>
    BY <1>1 DEF Change
  <2>2. ASSUME NEW c \in Caller PROVE Worked(caller[c])'
    <3>1. caller[c].since \in Int /\ caller[c].since <= now
      BY CacheFacts DEF CallerType, Worked
    <3>2. caller[c].since <= now + 1
      BY <1>0, <3>1
    <3> QED
      BY <2>1, <3>2, CacheFacts DEF Worked
  <2> QED
    BY <1>0, <2>1, <2>2 DEF CacheInv, Fresh, Purged
<1>2. ASSUME NEW k \in Key, Expire(k) PROVE CacheInv'
  <2>1. cached' = [cached EXCEPT ![k] = Miss] /\ UNCHANGED <<now, caller>>
    BY <1>2 DEF Expire
  <2>2. cached' \in [Key -> Int]
        /\ \A l \in Key : cached'[l] = Miss \/ cached'[l] = cached[l]
    BY <1>0, <2>1 DEF Miss
  <2> QED
    BY <2>1, <2>2 DEF CacheInv, Fresh, Purged, Worked
<1>3. ASSUME NEW c \in Caller, NEW create \in BOOLEAN, Ask(c, create)
      PROVE  CacheInv'
  <2> DEFINE n == [pc |-> "get", key |-> "installations", got |-> Miss,
                   create |-> create, purged |-> ~create, since |-> now,
                   oldest |-> now, overlap |-> FALSE]
  <2>1. GoesOn(c, n) /\ UNCHANGED <<now, cached>>
    BY <1>3 DEF Ask
  <2>2. n \in CallerType /\ Worked(n) /\ n.pc = "get"
    BY <1>0 DEF CallerType, Worked, Key, Miss
  <2>3. \A k \in Key : ~Purged(n, k)
    BY DEF Purged
  <2> HIDE DEF n
  <2> QED
    BY <1>0, <2>1, <2>2, <2>3, CacheFacts, CallerStep
<1>4. ASSUME NEW c \in Caller, Hit(c) PROVE CacheInv'
  <2> DEFINE k == caller[c].key
             n == Uses(c, cached[k])
  <2>1. /\ caller[c].pc = "get" /\ cached[k] # Miss /\ GoesOn(c, n)
        /\ UNCHANGED <<now, cached>>
    BY <1>4 DEF Hit
  <2>2. k \in Key /\ cached[k] \in Int
    BY <1>0 DEF CallerType
  <2>3. Purged(caller[c], k) => cached[k] >= caller[c].since
    BY <2>1, <2>2, CacheFacts
  <2>4. /\ n \in CallerType /\ n.pc \in {"get", "purge", "done"}
        /\ n.create = caller[c].create /\ n.purged = caller[c].purged
        /\ n.overlap = caller[c].overlap /\ n.since = caller[c].since
        /\ Worked(n)
    BY <2>2, <2>3, CacheFacts, UsesFresh
  <2> HIDE DEF n, k
  <2>5. \A l \in Key : Purged(n, l) => Purged(caller[c], l)
    BY <2>4 DEF Purged
  <2> QED
    BY <1>0, <2>1, <2>4, <2>5, CacheFacts, CallerStep
<1>5. ASSUME NEW c \in Caller, Fetch(c) PROVE CacheInv'
  <2> DEFINE q == [caller[c] EXCEPT !.pc = "set"]
             n == [q EXCEPT !.got = now]
  <2>1. GoesOn(c, n) /\ UNCHANGED <<now, cached>> /\ caller[c].pc = "get"
    BY <1>5 DEF Fetch
  <2>2. /\ q \in CallerType /\ q.pc = "set" /\ q.key = caller[c].key
        /\ q.create = caller[c].create /\ q.purged = caller[c].purged
        /\ q.overlap = caller[c].overlap /\ q.since = caller[c].since
        /\ q.oldest = caller[c].oldest
    BY <1>0 DEF CallerType
  <2> HIDE DEF q
  <2>3. /\ n \in CallerType /\ n.pc = "set" /\ n.got = now
        /\ n.create = q.create /\ n.purged = q.purged
        /\ n.overlap = q.overlap /\ n.since = q.since
        /\ n.oldest = q.oldest
    BY <1>0, <2>2 DEF CallerType
  <2> HIDE DEF n
  <2>4. Worked(n) /\ n.got >= n.since
    <3>1. Worked(caller[c]) /\ n.since \in Int
      BY <2>3, CacheFacts DEF CallerType
    <3> QED
      BY <1>0, <2>2, <2>3, <3>1 DEF Worked
  <2>5. \A k \in Key : Purged(n, k) => Purged(caller[c], k)
    BY <2>2, <2>3 DEF Purged
  <2>6. \A d \in Caller : n.got >= caller[d].since
    <3> TAKE d \in Caller
    <3>1. caller[d].since \in Int /\ caller[d].since <= now
      BY CacheFacts DEF CallerType, Worked
    <3> QED
      BY <1>0, <2>3, <3>1
  <2>7. n.since = caller[c].since
    BY <2>2, <2>3
  <2> QED
    BY <1>0, <2>1, <2>3, <2>4, <2>5, <2>6, <2>7, CacheFacts, CallerStep
<1>6. ASSUME NEW c \in Caller, FetchFails(c) PROVE CacheInv'
  <2>1. GoesOn(c, AtRest) /\ UNCHANGED <<now, cached>>
    BY <1>6 DEF FetchFails
  <2>2. AtRest \in CallerType /\ Worked(AtRest) /\ AtRest.pc = "rest"
    BY <1>0 DEF AtRest, CallerType, Worked, Key, Miss
  <2>3. \A k \in Key : ~Purged(AtRest, k)
    BY DEF AtRest, Purged
  <2> QED
    BY <1>0, <2>1, <2>2, <2>3, CacheFacts, CallerStep
<1>7. ASSUME NEW c \in Caller, Set(c) PROVE CacheInv'
  <2> DEFINE k == caller[c].key
             got == caller[c].got
             n == Uses(c, got)
  <2>1. /\ caller[c].pc = "set" /\ GoesOn(c, n) /\ UNCHANGED now
        /\ cached' = [cached EXCEPT ![k] = got]
    BY <1>7 DEF Set
  <2>2. k \in Key /\ got \in Int
    BY <1>0 DEF CallerType
  <2>3. \A d \in Caller : Purged(caller[d], k) => got >= caller[d].since
    BY <2>1, <2>2, CacheFacts
  <2>4. /\ n \in CallerType /\ n.pc \in {"get", "purge", "done"}
        /\ n.create = caller[c].create /\ n.purged = caller[c].purged
        /\ n.overlap = caller[c].overlap /\ n.since = caller[c].since
        /\ Worked(n)
    BY <2>2, <2>3, CacheFacts, UsesFresh
  <2>5. /\ cached' \in [Key -> Int]
        /\ \A l \in Key : cached'[l] = IF l = k THEN got ELSE cached[l]
    BY <1>0, <2>1, <2>2
  <2> HIDE DEF n, k, got
  <2>6. \A l \in Key : Purged(n, l) => Purged(caller[c], l)
    BY <2>4 DEF Purged
  <2>7. \A d \in Caller, l \in Key : Purged(caller[d], l) =>
          cached'[l] = Miss \/ cached'[l] >= caller[d].since
    BY <2>3, <2>5, CacheFacts
  <2> QED
    BY <2>1, <2>4, <2>5, <2>6, <2>7, CacheFacts, CallerStep
<1>8. ASSUME NEW c \in Caller, PurgeRepos(c) PROVE CacheInv'
  <2> DEFINE q == [caller[c] EXCEPT !.pc = "drop"]
             n == [q EXCEPT !.overlap = @ \/ Filling(c, "repos")]
  <2>1. GoesOn(c, n) /\ UNCHANGED now
        /\ cached' = [cached EXCEPT !["repos"] = Miss]
    BY <1>8 DEF PurgeRepos
  <2>2. /\ q \in CallerType /\ q.pc = "drop"
        /\ q.create = caller[c].create /\ q.purged = caller[c].purged
        /\ q.overlap = caller[c].overlap /\ q.since = caller[c].since
        /\ q.oldest = caller[c].oldest
    BY <1>0 DEF CallerType
  <2> HIDE DEF q
  <2>3. /\ n \in CallerType /\ n.pc = "drop"
        /\ n.overlap <=> q.overlap \/ Filling(c, "repos")
        /\ n.create = q.create /\ n.purged = q.purged
        /\ n.since = q.since /\ n.oldest = q.oldest
    BY <2>2 DEF CallerType
  <2> HIDE DEF n
  <2>4. Worked(n)
    BY <2>2, <2>3, CacheFacts DEF Worked
  <2>5. /\ cached' \in [Key -> Int] /\ cached'["repos"] = Miss
        /\ \A k \in Key : cached'[k] = Miss \/ cached'[k] = cached[k]
    BY <1>0, <2>1 DEF Key, Miss
  <2>6. \A k \in Key : Purged(n, k) =>
          \/ k = "repos" /\ ~Filling(c, "repos")
          \/ Purged(caller[c], k)
    BY <2>2, <2>3 DEF Purged
  <2>7. n.since = caller[c].since
    BY <2>2, <2>3
  <2> QED
    BY <2>1, <2>3, <2>4, <2>5, <2>6, <2>7, CacheFacts, CallerStep
       DEF Filling
<1>9. ASSUME NEW c \in Caller, PurgeList(c) PROVE CacheInv'
  <2> DEFINE q == [caller[c] EXCEPT !.pc = "get"]
             r == [q EXCEPT !.key = "installations"]
             s == [r EXCEPT !.purged = TRUE]
             n == [s EXCEPT !.overlap = @ \/ Filling(c, "installations")]
  <2>1. /\ GoesOn(c, n) /\ UNCHANGED now /\ caller[c].pc = "drop"
        /\ cached' = [cached EXCEPT !["installations"] = Miss]
    BY <1>9 DEF PurgeList
  <2>2. /\ q \in CallerType /\ q.pc = "get"
        /\ q.create = caller[c].create
        /\ q.overlap = caller[c].overlap /\ q.since = caller[c].since
        /\ q.oldest = caller[c].oldest
    BY <1>0 DEF CallerType
  <2> HIDE DEF q
  <2>3. /\ r \in CallerType /\ r.pc = "get" /\ r.create = q.create
        /\ r.overlap = q.overlap /\ r.since = q.since /\ r.oldest = q.oldest
    BY <2>2 DEF CallerType, Key
  <2> HIDE DEF r
  <2>4. /\ s \in CallerType /\ s.pc = "get" /\ s.create = r.create
        /\ s.overlap = r.overlap /\ s.since = r.since /\ s.oldest = r.oldest
    BY <2>3 DEF CallerType
  <2> HIDE DEF s
  <2>5. /\ n \in CallerType /\ n.pc = "get" /\ n.create = s.create
        /\ n.overlap <=> s.overlap \/ Filling(c, "installations")
        /\ n.since = s.since /\ n.oldest = s.oldest
    BY <2>4 DEF CallerType
  <2> HIDE DEF n
  <2>6. /\ n.create = caller[c].create /\ n.since = caller[c].since
        /\ n.oldest = caller[c].oldest
        /\ n.overlap <=> caller[c].overlap \/ Filling(c, "installations")
    BY <2>2, <2>3, <2>4, <2>5
  <2>7. Worked(n)
    BY <2>6, CacheFacts DEF Worked
  <2>8. /\ cached' \in [Key -> Int] /\ cached'["installations"] = Miss
        /\ \A k \in Key : cached'[k] = Miss \/ cached'[k] = cached[k]
    BY <1>0, <2>1 DEF Key, Miss
  <2>9. \A k \in Key : Purged(n, k) =>
          \/ k = "installations" /\ ~Filling(c, "installations")
          \/ Purged(caller[c], k)
    BY <2>1, <2>6 DEF Purged, Key
  <2> QED
    BY <2>1, <2>5, <2>6, <2>7, <2>8, <2>9, CacheFacts, CallerStep
       DEF Filling
<1>10. ASSUME UNCHANGED ivars PROVE CacheInv'
  BY <1>10 DEF ivars, CacheInv, Fresh, Purged, Worked
<1> QED
  BY <1>1, <1>2, <1>3, <1>4, <1>5, <1>6, <1>7, <1>8, <1>9, <1>10
     DEF NextInstallations

LEMMA CacheCorrect == Spec => []CacheInv
<1>1. InitInstallations => CacheInv
  BY DEF InitInstallations, CacheInv, AtRest, CallerType, Key, Miss, Fresh,
         Purged, Worked
<1> QED
  BY <1>1, NextInstallationsInv, InstallationSteps, PTL

\* For any goroutines and any changes at GitHub: a creation works with answers
\* of GitHub that are no older than its request, unless another goroutine was
\* filling the cache when it purged it.
THEOREM CreationFreshCorrect == Spec => []CreationSeesFresh
<1>1. CacheInv => CreationSeesFresh
  BY DEF CacheInv, CreationSeesFresh, Worked
<1> QED
  BY <1>1, CacheCorrect, PTL

\* Nobody has an answer that GitHub has not given yet, and a goroutine that
\* is about to cache an answer has one.
Answered(p) ==
  /\ p.got \in Miss .. now /\ p.oldest \in 0 .. now
  /\ p.pc = "set" => p.got \in 0 .. now

AnswerTypes ==
  /\ now \in 0 .. MaxChanges /\ asked \in 0 .. MaxAsked
  /\ cached \in [Key -> Miss .. now]
  /\ \A c \in Caller : Answered(caller[c])

LEMMA AnswerStep ==
  ASSUME CacheInv, AnswerTypes, NEW c \in Caller, NEW n, GoesOn(c, n),
         Answered(n), now' = now, cached' \in [Key -> Miss .. now],
         asked' \in 0 .. MaxAsked
  PROVE  AnswerTypes'
<1>1. \A d \in Caller : caller'[d] = IF d = c THEN n ELSE caller[d]
  BY DEF CacheInv, GoesOn
<1>2. \A d \in Caller : Answered(caller'[d])
  BY <1>1 DEF AnswerTypes
<1> QED
  BY <1>2 DEF AnswerTypes, Answered

LEMMA NextAnswerTypes ==
  ASSUME CacheInv, AnswerTypes, [NextInstallations]_ivars
  PROVE  AnswerTypes'
<1>0. /\ caller \in [Caller -> CallerType] /\ now \in Nat
      /\ now \in 0 .. MaxChanges /\ asked \in 0 .. MaxAsked
      /\ cached \in [Key -> Miss .. now] /\ MaxChanges \in Nat
      /\ MaxAsked \in Nat /\ Miss = -1
      /\ \A c \in Caller : Answered(caller[c])
  BY InstallationsAssumption DEF CacheInv, AnswerTypes, Miss
<1>1. CASE Change
  <2>1. now' = now + 1 /\ now' \in 0 .. MaxChanges
        /\ UNCHANGED <<cached, caller, asked>>
    BY <1>0, <1>1 DEF Change
  <2>2. \A c \in Caller : Answered(caller[c])'
    <3> TAKE c \in Caller
    <3>1. caller[c].got \in Int /\ caller[c].oldest \in Int
      BY <1>0 DEF CallerType
    <3> QED
      BY <1>0, <2>1, <3>1 DEF Answered
  <2>3. cached' \in [Key -> Miss .. now']
    BY <1>0, <2>1
  <2> QED
    BY <1>0, <2>1, <2>2, <2>3 DEF AnswerTypes
<1>2. ASSUME NEW k \in Key, Expire(k) PROVE AnswerTypes'
  <2>1. cached' = [cached EXCEPT ![k] = Miss]
        /\ UNCHANGED <<now, caller, asked>>
    BY <1>2 DEF Expire
  <2>2. cached' \in [Key -> Miss .. now]
    BY <1>0, <2>1
  <2> QED
    BY <1>0, <2>1, <2>2 DEF AnswerTypes, Answered
<1>3. ASSUME NEW c \in Caller, NEW create \in BOOLEAN, Ask(c, create)
      PROVE  AnswerTypes'
  <2> DEFINE n == [pc |-> "get", key |-> "installations", got |-> Miss,
                   create |-> create, purged |-> ~create, since |-> now,
                   oldest |-> now, overlap |-> FALSE]
  <2>1. GoesOn(c, n) /\ UNCHANGED <<now, cached>>
        /\ asked' \in 0 .. MaxAsked
    BY <1>0, <1>3 DEF Ask
  <2>2. n.got = Miss /\ n.oldest = now /\ n.pc = "get"
    OBVIOUS
  <2> HIDE DEF n
  <2>3. Answered(n)
    BY <1>0, <2>2 DEF Answered
  <2> QED
    BY <1>0, <2>1, <2>3, AnswerStep
<1>4. ASSUME NEW c \in Caller, Hit(c) PROVE AnswerTypes'
  <2> DEFINE answer == cached[caller[c].key]
             n == Uses(c, answer)
  <2>1. GoesOn(c, n) /\ UNCHANGED <<now, cached, asked>> /\ answer # Miss
    BY <1>4 DEF Hit
  <2>2. caller[c] \in CallerType /\ caller[c].key \in Key
    BY <1>0 DEF CallerType
  <2>3. answer \in 0 .. now /\ answer \in Int
    BY <1>0, <2>1, <2>2
  <2> HIDE DEF answer
  <2>4. /\ n.got = Miss /\ n.pc \in {"get", "purge", "done"}
        /\ n.oldest \in {answer, caller[c].oldest}
    BY <2>2, <2>3, UsesAnswer
  <2> HIDE DEF n
  <2>5. Answered(n)
    BY <1>0, <2>3, <2>4 DEF Answered
  <2> QED
    BY <1>0, <2>1, <2>5, AnswerStep
<1>5. ASSUME NEW c \in Caller, Set(c) PROVE AnswerTypes'
  <2> DEFINE k == caller[c].key
             answer == caller[c].got
             n == Uses(c, answer)
  <2>1. /\ GoesOn(c, n) /\ UNCHANGED <<now, asked>>
        /\ cached' = [cached EXCEPT ![k] = answer] /\ caller[c].pc = "set"
    BY <1>5 DEF Set
  <2>2. caller[c] \in CallerType /\ k \in Key /\ answer \in Int
    BY <1>0 DEF CallerType
  <2>3. answer \in 0 .. now /\ cached' \in [Key -> Miss .. now]
    BY <1>0, <2>1, <2>2 DEF Answered
  <2> HIDE DEF answer
  <2>4. /\ n.got = Miss /\ n.pc \in {"get", "purge", "done"}
        /\ n.oldest \in {answer, caller[c].oldest}
    BY <2>2, UsesAnswer
  <2> HIDE DEF n, k
  <2>5. Answered(n)
    BY <1>0, <2>3, <2>4 DEF Answered
  <2> QED
    BY <1>0, <2>1, <2>3, <2>5, AnswerStep
<1>6. ASSUME NEW c \in Caller, Fetch(c) PROVE AnswerTypes'
  <2> DEFINE q == [caller[c] EXCEPT !.pc = "set"]
             n == [q EXCEPT !.got = now]
  <2>1. GoesOn(c, n) /\ UNCHANGED <<now, cached, asked>>
    BY <1>6 DEF Fetch
  <2>2. q \in CallerType /\ q.oldest = caller[c].oldest
    BY <1>0 DEF CallerType
  <2> HIDE DEF q
  <2>3. n.got = now /\ n.oldest = caller[c].oldest
    BY <2>2 DEF CallerType
  <2> HIDE DEF n
  <2>4. Answered(n)
    BY <1>0, <2>3 DEF Answered
  <2> QED
    BY <1>0, <2>1, <2>4, AnswerStep
<1>7. ASSUME NEW c \in Caller, FetchFails(c) PROVE AnswerTypes'
  <2>1. GoesOn(c, AtRest) /\ UNCHANGED <<now, cached, asked>>
    BY <1>7 DEF FetchFails
  <2>2. Answered(AtRest)
    BY <1>0 DEF AtRest, Answered
  <2> QED
    BY <1>0, <2>1, <2>2, AnswerStep
<1>8. ASSUME NEW c \in Caller, PurgeRepos(c) PROVE AnswerTypes'
  <2> DEFINE q == [caller[c] EXCEPT !.pc = "drop"]
             n == [q EXCEPT !.overlap = @ \/ Filling(c, "repos")]
  <2>1. GoesOn(c, n) /\ UNCHANGED <<now, asked>>
        /\ cached' = [cached EXCEPT !["repos"] = Miss]
    BY <1>8 DEF PurgeRepos
  <2>2. /\ q \in CallerType /\ q.pc = "drop"
        /\ q.got = caller[c].got /\ q.oldest = caller[c].oldest
    BY <1>0 DEF CallerType
  <2> HIDE DEF q
  <2>3. n.pc = "drop" /\ n.got = q.got /\ n.oldest = q.oldest
    BY <2>2 DEF CallerType
  <2> HIDE DEF n
  <2>4. Answered(n) /\ cached' \in [Key -> Miss .. now]
    BY <1>0, <2>1, <2>2, <2>3 DEF Answered, Key
  <2> QED
    BY <1>0, <2>1, <2>4, AnswerStep
<1>9. ASSUME NEW c \in Caller, PurgeList(c) PROVE AnswerTypes'
  <2> DEFINE q == [caller[c] EXCEPT !.pc = "get"]
             r == [q EXCEPT !.key = "installations"]
             s == [r EXCEPT !.purged = TRUE]
             n == [s EXCEPT !.overlap = @ \/ Filling(c, "installations")]
  <2>1. GoesOn(c, n) /\ UNCHANGED <<now, asked>>
        /\ cached' = [cached EXCEPT !["installations"] = Miss]
    BY <1>9 DEF PurgeList
  <2>2. /\ q \in CallerType /\ q.pc = "get"
        /\ q.got = caller[c].got /\ q.oldest = caller[c].oldest
    BY <1>0 DEF CallerType
  <2> HIDE DEF q
  <2>3. /\ r \in CallerType /\ r.pc = "get"
        /\ r.got = q.got /\ r.oldest = q.oldest
    BY <2>2 DEF CallerType, Key
  <2> HIDE DEF r
  <2>4. /\ s \in CallerType /\ s.pc = "get"
        /\ s.got = r.got /\ s.oldest = r.oldest
    BY <2>3 DEF CallerType
  <2> HIDE DEF s
  <2>5. n.pc = "get" /\ n.got = s.got /\ n.oldest = s.oldest
    BY <2>4 DEF CallerType
  <2> HIDE DEF n
  <2>6. Answered(n) /\ cached' \in [Key -> Miss .. now]
    BY <1>0, <2>1, <2>2, <2>3, <2>4, <2>5 DEF Answered, Key
  <2> QED
    BY <1>0, <2>1, <2>6, AnswerStep
<1>10. CASE UNCHANGED ivars
  BY <1>10 DEF ivars, AnswerTypes, Answered
<1> QED
  BY <1>1, <1>2, <1>3, <1>4, <1>5, <1>6, <1>7, <1>8, <1>9, <1>10
     DEF NextInstallations

LEMMA InstallationTypes == Spec => []InstallationsTypeOK
<1>1. InitInstallations => AnswerTypes
  BY InstallationsAssumption
     DEF InitInstallations, AnswerTypes, Answered, AtRest, Miss
<1>2. CacheInv /\ AnswerTypes /\ [NextInstallations]_ivars => AnswerTypes'
  BY NextAnswerTypes
<1>3. CacheInv /\ AnswerTypes => InstallationsTypeOK
  <2>1. SUFFICES ASSUME CacheInv, AnswerTypes PROVE InstallationsTypeOK
    OBVIOUS
  <2>2. \A k \in Key : cached[k] \in Miss .. MaxChanges
    BY <2>1, InstallationsAssumption DEF AnswerTypes, Miss
  <2>3. cached \in [Key -> Miss .. MaxChanges]
    BY <2>1, <2>2 DEF AnswerTypes
  <2> QED
    BY <2>1, <2>3
       DEF CacheInv, AnswerTypes, Answered, InstallationsTypeOK, CallerType
<1> QED
  BY <1>1, <1>2, <1>3, CacheCorrect, InstallationSteps, PTL

----------------------------------------------------------------------------
(* How a job comes in.                                                     *)

Search == [found : {"none", "repo", "org"}, off : BOOLEAN]

\* Once the organization's target is asked for or found, the repository's
\* could not receive jobs at some time.
Fair(pc, search) == pc = "org" \/ search.found = "org" => search.off

IntakeInv ==
  /\ hook \in [GhJob -> [pc : {"sent", "lost", "org", "enqueue", "over"},
                         search : Search]]
  /\ rescue \in [pc : {"tick", "runs", "list", "repo", "org", "jobs",
                       "enqueue"}, jobs : SUBSET Labelled, search : Search]
  /\ rows \subseteq GhJob \X {"workflow_job", "check_run"}
  /\ mode \in {"workflow_job", "check_run"}
  /\ \A j \in GhJob : /\ Fair(hook[j].pc, hook[j].search)
                      /\ hook[j].pc \in {"org", "enqueue"} => Requested(j)
  /\ Fair(rescue.pc, rescue.search)
  /\ OnlyLabelled
  /\ Rescuing(rescue.pc) =>
       \A w \in rows : w[2] = "workflow_job" => w[1] \in inserted

\* What Searched answers.
LEMMA SearchedFair ==
  ASSUME NEW search \in Search, NEW t \in {"none", "repo", "org"}
  PROVE  /\ Searched(search, t) \in Search
         /\ Searched(search, t).off <=> search.off \/ "repo" \notin live
         /\ Searched(search, t).found = t
BY DEF Searched, Search

\* A step of a webhook that inserts nothing.
LEMMA HookedInv ==
  ASSUME IntakeInv, NEW j \in GhJob,
         NEW pc \in {"sent", "lost", "org", "enqueue", "over"},
         NEW search \in Search,
         Hooked(j, pc, search), UNCHANGED <<rows, inserted>>,
         Fair(pc, search), pc \in {"org", "enqueue"} => Requested(j)
  PROVE  IntakeInv'
<1>1. hook' \in [GhJob -> [pc : {"sent", "lost", "org", "enqueue", "over"},
                           search : Search]]
  BY DEF IntakeInv, Hooked
<1>2. \A i \in GhJob : hook'[i] = IF i = j THEN [pc |-> pc, search |-> search]
                                           ELSE hook[i]
  BY DEF IntakeInv, Hooked
<1>3. UNCHANGED <<mode, rescue, rows, inserted>>
  BY DEF Hooked
<1>4. \A i \in GhJob : /\ Fair(hook'[i].pc, hook'[i].search)
                       /\ hook'[i].pc \in {"org", "enqueue"} => Requested(i)
  BY <1>2 DEF IntakeInv
<1> QED
  BY <1>1, <1>3, <1>4
     DEF IntakeInv, Fair, Requested, OnlyLabelled, Rescuing

\* A step of the rescue loop that inserts nothing.
LEMMA RescueInv ==
  ASSUME IntakeInv,
         NEW pc \in {"tick", "runs", "list", "repo", "org", "jobs",
                     "enqueue"},
         NEW jobs \in SUBSET Labelled, NEW search \in Search,
         Rescue(pc, jobs, search), UNCHANGED rows, Fair(pc, search),
         Rescuing(pc) => Rescuing(rescue.pc) \/ ~RunHasRow
  PROVE  IntakeInv'
<1>1. rescue' = [pc |-> pc, jobs |-> jobs, search |-> search]
      /\ UNCHANGED <<mode, hook, rows>>
  BY DEF Rescue
<1>2. Rescuing(pc) => inserted \subseteq inserted'
  BY DEF Rescue
<1>3. Rescuing(pc) =>
        \A w \in rows : w[2] = "workflow_job" => w[1] \in inserted'
  BY <1>2 DEF IntakeInv, RunHasRow
<1> QED
  BY <1>1, <1>3 DEF IntakeInv, Fair, Requested, OnlyLabelled, Rescuing

\* The loop gives up.
LEMMA GiveUpInv == ASSUME IntakeInv, GiveUp, UNCHANGED rows PROVE IntakeInv'
<1>1. NoSearch \in Search /\ Fair("tick", NoSearch) /\ ~Rescuing("tick")
  BY DEF NoSearch, Search, Fair, Rescuing
<1> QED
  BY <1>1, RescueInv DEF GiveUp

LEMMA NextIntakeInv == IntakeInv /\ [NextIntake]_nvars => IntakeInv'
<1> SUFFICES ASSUME IntakeInv, [NextIntake]_nvars PROVE IntakeInv'
  OBVIOUS
<1>0. NoSearch \in Search /\ ~NoSearch.off /\ NoSearch.found = "none"
  BY DEF NoSearch, Search
<1>1. ASSUME NEW j \in GhJob, Lose(j) \/ Ignore(j) \/ WebhookFails(j)
      PROVE  IntakeInv'
  <2>1. PICK pc \in {"lost", "over"} :
          Hooked(j, pc, NoSearch) /\ UNCHANGED <<rows, inserted>>
    BY <1>1 DEF Lose, Ignore, WebhookFails
  <2>2. Fair(pc, NoSearch)
    BY <1>0, <2>1 DEF Fair
  <2> QED
    BY <1>0, <2>1, <2>2, HookedInv
<1>2. ASSUME NEW j \in GhJob, Receive(j) PROVE IntakeInv'
  <2>1. CASE RepoReceives
    <3>1. Fair("enqueue", Searched(NoSearch, "repo"))
      BY <1>0, SearchedFair DEF Fair
    <3> QED
      BY <1>0, <1>2, <2>1, <3>1, SearchedFair, HookedInv DEF Receive
  <2>2. CASE ~RepoReceives
    <3>1. Fair("org", Searched(NoSearch, "none"))
      BY <1>0, <2>2, SearchedFair DEF Fair, RepoReceives
    <3> QED
      BY <1>0, <1>2, <2>2, <3>1, SearchedFair, HookedInv DEF Receive
  <2> QED
    BY <2>1, <2>2
<1>3. ASSUME NEW j \in GhJob, ReceiveOrg(j) PROVE IntakeInv'
  <2>1. /\ hook[j].search \in Search /\ hook[j].search.off
        /\ Requested(j) /\ UNCHANGED <<rows, inserted>>
    BY <1>3 DEF ReceiveOrg, IntakeInv, Fair
  <2>2. CASE "org" \in live
    <3>1. Fair("enqueue", Searched(hook[j].search, "org"))
      BY <2>1, SearchedFair DEF Fair
    <3> QED
      BY <1>3, <2>1, <2>2, <3>1, SearchedFair, HookedInv DEF ReceiveOrg
  <2>3. CASE "org" \notin live
    <3>1. Fair("lost", NoSearch)
      BY <1>0 DEF Fair
    <3> QED
      BY <1>0, <1>3, <2>1, <2>3, <3>1, HookedInv DEF ReceiveOrg
  <2> QED
    BY <2>2, <2>3
<1>4. ASSUME NEW j \in GhJob, WebhookEnqueues(j) PROVE IntakeInv'
  <2>1. /\ rows' = rows \cup {<<j, mode>>} /\ UNCHANGED <<mode, rescue>>
        /\ inserted' = IF Rescuing(rescue.pc) THEN inserted \cup {j} ELSE {}
        /\ hook' = [hook EXCEPT ![j] = [pc |-> "over", search |-> NoSearch]]
        /\ Requested(j)
    BY <1>4 DEF WebhookEnqueues, EnqueueRow, Hooked, IntakeInv
  <2>2. /\ hook' \in [GhJob -> [pc : {"sent", "lost", "org", "enqueue",
                                      "over"}, search : Search]]
        /\ \A i \in GhJob : /\ Fair(hook'[i].pc, hook'[i].search)
                            /\ hook'[i].pc \in {"org", "enqueue"}
                                 => Requested(i)
    BY <1>0, <2>1 DEF IntakeInv, Fair
  <2>3. rows' \subseteq GhJob \X {"workflow_job", "check_run"}
    BY <2>1 DEF IntakeInv
  <2>4. OnlyLabelled'
    BY <2>1 DEF IntakeInv, OnlyLabelled, Requested
  <2>5. Rescuing(rescue.pc) =>
          \A w \in rows' : w[2] = "workflow_job" => w[1] \in inserted'
    BY <2>1 DEF IntakeInv
  <2> QED
    BY <2>1, <2>2, <2>3, <2>4, <2>5 DEF IntakeInv, Fair, Requested, Rescuing
<1>5. ASSUME RescueTick PROVE IntakeInv'
  BY <1>0, <1>5, RescueInv DEF RescueTick, Fair, Rescuing
<1>6. ASSUME ListRuns PROVE IntakeInv'
  <2>1. Rescue("list", {}, NoSearch) \/ GiveUp
    BY <1>6 DEF ListRuns
  <2> QED
    BY <1>0, <1>6, <2>1, RescueInv, GiveUpInv DEF ListRuns, Fair, Rescuing
<1>7. ASSUME CompareRows PROVE IntakeInv'
  BY <1>0, <1>7, RescueInv, GiveUpInv DEF CompareRows, Fair, Rescuing
<1>8. ASSUME RescueSearch PROVE IntakeInv'
  <2>1. Rescuing(rescue.pc) /\ UNCHANGED rows
    BY <1>8 DEF RescueSearch, Rescuing
  <2>2. CASE RepoReceives
    <3>1. Fair("jobs", Searched(NoSearch, "repo"))
      BY <1>0, SearchedFair DEF Fair
    <3> QED
      BY <1>0, <1>8, <2>1, <2>2, <3>1, SearchedFair, RescueInv
         DEF RescueSearch
  <2>3. CASE ~RepoReceives
    <3>1. Fair("org", Searched(NoSearch, "none"))
      BY <1>0, <2>3, SearchedFair DEF Fair, RepoReceives
    <3> QED
      BY <1>0, <1>8, <2>1, <2>3, <3>1, SearchedFair, RescueInv
         DEF RescueSearch
  <2> QED
    BY <2>2, <2>3
<1>9. ASSUME RescueSearchOrg PROVE IntakeInv'
  <2>1. /\ rescue.search \in Search /\ rescue.search.off
        /\ Rescuing(rescue.pc) /\ UNCHANGED rows
    BY <1>9 DEF RescueSearchOrg, IntakeInv, Fair, Rescuing
  <2>2. Fair("jobs", Searched(rescue.search, "org"))
    BY <2>1, SearchedFair DEF Fair
  <2> QED
    BY <1>9, <2>1, <2>2, SearchedFair, RescueInv, GiveUpInv
       DEF RescueSearchOrg
<1>10. ASSUME ListRunJobs PROVE IntakeInv'
  <2>1. PICK jobs \in SUBSET Labelled :
          Rescue("enqueue", jobs, rescue.search) \/ GiveUp
    BY <1>10 DEF ListRunJobs, Wanted
  <2>2. /\ rescue.search \in Search /\ Fair("enqueue", rescue.search)
        /\ Rescuing(rescue.pc) /\ UNCHANGED rows
    BY <1>10 DEF ListRunJobs, IntakeInv, Fair, Rescuing
  <2> QED
    BY <2>1, <2>2, RescueInv, GiveUpInv
<1>11. ASSUME NEW j \in GhJob, RescueEnqueues(j) PROVE IntakeInv'
  <2> DEFINE others == rescue.jobs \ {j}
  <2>1. /\ rescue.pc = "enqueue" /\ j \in rescue.jobs
        /\ j \in Labelled /\ others \in SUBSET Labelled
        /\ rescue.search \in Search /\ Fair("enqueue", rescue.search)
    BY <1>11 DEF RescueEnqueues, IntakeInv, Fair
  <2>2. rows' = rows \cup {<<j, "workflow_job">>} /\ UNCHANGED <<mode, hook>>
    BY <1>11 DEF RescueEnqueues, EnqueueRow, Rescue, GiveUp
  <2>3. OnlyLabelled'
        /\ rows' \subseteq GhJob \X {"workflow_job", "check_run"}
    BY <2>1, <2>2 DEF OnlyLabelled, IntakeInv
  <2>4. CASE GiveUp
    <3>1. rescue' = [pc |-> "tick", jobs |-> {}, search |-> NoSearch]
      BY <2>4 DEF GiveUp, Rescue
    <3> QED
      BY <1>0, <2>2, <2>3, <3>1 DEF IntakeInv, Fair, Requested, Rescuing
  <2>5. CASE Rescue("enqueue", others, rescue.search)
    <3>1. /\ rescue' = [pc |-> "enqueue", jobs |-> others,
                        search |-> rescue.search]
          /\ inserted' = inserted \cup (rescue.jobs \ others)
      BY <2>5 DEF Rescue, Rescuing
    <3>2. \A w \in rows' : w[2] = "workflow_job" => w[1] \in inserted'
      BY <2>1, <2>2, <3>1 DEF IntakeInv, Rescuing
    <3> QED
      BY <2>1, <2>2, <2>3, <3>1, <3>2 DEF IntakeInv, Requested
  <2> QED
    BY <1>11, <2>4, <2>5 DEF RescueEnqueues
<1>12. ASSUME RescueFails PROVE IntakeInv'
  BY <1>12, GiveUpInv DEF RescueFails
<1>13. ASSUME NEW w \in rows, TakeRow(w) PROVE IntakeInv'
  BY <1>13
     DEF TakeRow, IntakeInv, Fair, Requested, Rescuing, OnlyLabelled
<1>14. ASSUME UNCHANGED <<mode, hook, rows, rescue, inserted>>
       PROVE  IntakeInv'
  BY <1>14 DEF IntakeInv, Fair, Requested, Rescuing, OnlyLabelled
<1>15. ASSUME NEW t \in {"repo", "org"}, Toggle(t) PROVE IntakeInv'
  <2>1. PICK next :
          /\ hook' = [j \in GhJob |->
                        [hook[j] EXCEPT !.search = Notices(@, next)]]
          /\ rescue' = [rescue EXCEPT !.search = Notices(@, next)]
          /\ UNCHANGED <<mode, rows, inserted>>
    BY <1>15 DEF Toggle
  <2>2. ASSUME NEW s \in Search
        PROVE  /\ Notices(s, next) \in Search
               /\ Notices(s, next).found = s.found
               /\ s.off => Notices(s, next).off
    BY DEF Search, Notices
  <2>3. \A j \in GhJob :
          /\ hook'[j] \in [pc : {"sent", "lost", "org", "enqueue", "over"},
                           search : Search]
          /\ hook'[j].pc = hook[j].pc
          /\ hook'[j].search.found = hook[j].search.found
          /\ hook[j].search.off => hook'[j].search.off
    <3> TAKE j \in GhJob
    <3>1. /\ hook[j] \in [pc : {"sent", "lost", "org", "enqueue", "over"},
                          search : Search]
          /\ hook'[j] = [hook[j] EXCEPT !.search = Notices(@, next)]
      BY <2>1 DEF IntakeInv
    <3>2. hook[j].search \in Search
      BY <3>1
    <3> QED
      BY <2>2, <3>1, <3>2
  <2>4. /\ rescue' \in [pc : {"tick", "runs", "list", "repo", "org", "jobs",
                              "enqueue"}, jobs : SUBSET Labelled,
                        search : Search]
        /\ rescue'.pc = rescue.pc
        /\ rescue'.search.found = rescue.search.found
        /\ rescue.search.off => rescue'.search.off
    <3>1. rescue \in [pc : {"tick", "runs", "list", "repo", "org", "jobs",
                            "enqueue"}, jobs : SUBSET Labelled,
                      search : Search]
      BY DEF IntakeInv
    <3>2. rescue.search \in Search
      BY <3>1
    <3> QED
      BY <2>1, <2>2, <3>1, <3>2
  <2>5. hook' \in [GhJob -> [pc : {"sent", "lost", "org", "enqueue", "over"},
                             search : Search]]
    BY <2>1, <2>3
  <2>6. UNCHANGED <<mode, rows, inserted>>
    BY <2>1
  <2>7. \A j \in GhJob : /\ Fair(hook'[j].pc, hook'[j].search)
                         /\ hook'[j].pc \in {"org", "enqueue"}
                              => Requested(j)
    BY <2>3 DEF IntakeInv, Fair
  <2>8. Fair(rescue'.pc, rescue'.search)
    BY <2>4 DEF IntakeInv, Fair
  <2>9. Rescuing(rescue'.pc) =>
          \A w \in rows : w[2] = "workflow_job" => w[1] \in inserted
    BY <2>4 DEF IntakeInv
  <2>10. OnlyLabelled' /\ \A j \in GhJob : Requested(j)' <=> Requested(j)
    BY <2>6 DEF IntakeInv, OnlyLabelled, Requested
  <2> QED
    BY <2>4, <2>5, <2>6, <2>7, <2>8, <2>9, <2>10
       DEF IntakeInv, Fair, Rescuing
<1> QED
  <2>1. ASSUME NEW j \in GhJob, JobRuns(j) PROVE IntakeInv'
    BY <1>14, <2>1 DEF JobRuns
  <2>2. ASSUME ExpireRuns \/ ExpireJobs \/ Age \/ Forget \/ Bury
        PROVE  IntakeInv'
    BY <1>14, <2>2 DEF ExpireRuns, ExpireJobs, Age, Forget, Bury
  <2>3. ASSUME UNCHANGED nvars PROVE IntakeInv'
    BY <1>14, <2>3 DEF nvars
  <2> QED
    BY <1>1, <1>2, <1>3, <1>4, <1>5, <1>6, <1>7, <1>8, <1>9, <1>10, <1>11,
       <1>12, <1>13, <1>15, <2>1, <2>2, <2>3
       DEF NextIntake, WebhookSteps, RescueSteps

\* The invariant, for any jobs and labels.
LEMMA IntakeCorrect == Spec => []IntakeInv
<1>1. InitIntake => IntakeInv
  BY DEF InitIntake, IntakeInv, NoSearch, Search, Fair, Rescuing,
         OnlyLabelled
<1> QED
  BY <1>1, NextIntakeInv, IntakeSteps, PTL

\* Whatever the jobs of the run and their labels: a row has a label of
\* myshoes, or comes from a check_run event.
THEOREM OnlyLabelledCorrect == Spec => []OnlyLabelled
<1>1. IntakeInv => OnlyLabelled
  BY DEF IntakeInv
<1> QED
  BY <1>1, IntakeCorrect, PTL

\* For any jobs: the rescue loop enqueues a job of a run only while every
\* recognized row of the run has come in since it listed the rows.
THEOREM QueuedRunsIgnoredCorrect == Spec => QueuedRunsIgnored
<1>1. IntakeInv =>
        [\A j \in GhJob :
           RescueEnqueues(j) =>
             \A w \in rows : w[2] = "workflow_job" => w[1] \in inserted
        ]_nvars
  BY DEF IntakeInv, RescueEnqueues, Rescuing
<1> QED
  BY <1>1, IntakeCorrect, PTL DEF QueuedRunsIgnored

\* For any jobs: a job goes to the organization's target only if the
\* repository's could not receive jobs at some time during the search.
THEOREM RightTargetCorrect == Spec => RightTarget
<1>1. IntakeInv =>
        [\A j \in GhJob :
           /\ WebhookEnqueues(j) /\ hook[j].search.found = "org"
                => hook[j].search.off
           /\ RescueEnqueues(j) /\ rescue.search.found = "org"
                => rescue.search.off]_nvars
  BY DEF IntakeInv, Fair
<1> QED
  BY <1>1, IntakeCorrect, PTL DEF RightTarget

\* What the caches hold are jobs of the run.
IntakeTypes ==
  /\ live \subseteq {"repo", "org"}
  /\ ghstatus \in [GhJob -> {"queued", "taken"}]
  /\ firstPage \subseteq GhJob
  /\ runs \in {"miss", "queued", "other"}
  /\ jobsOf = {"miss"} \/ jobsOf \subseteq GhJob
  /\ upsets \in 0 .. MaxUpsets

LEMMA NextIntakeTypes ==
  ASSUME IntakeTypes, [NextIntake]_nvars PROVE IntakeTypes'
<1> USE IntakeAssumption DEF IntakeTypes
<1>1. ASSUME Upset PROVE upsets' \in 0 .. MaxUpsets
  BY <1>1 DEF Upset
<1>2. ASSUME UNCHANGED <<live, ghstatus, firstPage, runs, jobsOf>>,
             upsets' \in 0 .. MaxUpsets
      PROVE  IntakeTypes'
  BY <1>2
<1>3. ASSUME NEW j \in GhJob, Lose(j) \/ WebhookSteps(j)
      PROVE  IntakeTypes'
  BY <1>1, <1>2, <1>3 DEF Lose, WebhookSteps, Receive, Ignore, ReceiveOrg,
     WebhookEnqueues, WebhookFails, Hooked
<1>4. ASSUME NEW j \in GhJob, JobRuns(j) PROVE IntakeTypes'
  BY <1>4 DEF JobRuns
<1>5. CASE ListRuns
  <2>1. runs' \in {"miss", "queued", "other"}
    BY <1>5 DEF ListRuns, RunStatus
  <2>2. UNCHANGED <<live, ghstatus, firstPage, jobsOf, upsets>>
    BY <1>5 DEF ListRuns, GiveUp, Rescue
  <2> QED
    BY <2>1, <2>2
<1>6. CASE ListRunJobs
  <2>1. jobsOf' = {"miss"} \/ jobsOf' \subseteq GhJob
    BY <1>6 DEF ListRunJobs
  <2>2. UNCHANGED <<live, ghstatus, firstPage, runs, upsets>>
    BY <1>6 DEF ListRunJobs, GiveUp, Rescue
  <2> QED
    BY <2>1, <2>2
<1>7. CASE RescueTick \/ CompareRows \/ RescueSearch \/ RescueSearchOrg
  BY <1>2, <1>7
     DEF RescueTick, CompareRows, RescueSearch, RescueSearchOrg, GiveUp, Rescue
<1>8. CASE RescueFails \/ \E j \in GhJob : RescueEnqueues(j)
  BY <1>1, <1>2, <1>8 DEF RescueFails, RescueEnqueues, GiveUp, Rescue
<1>9. CASE ExpireRuns \/ ExpireJobs
  BY <1>9 DEF ExpireRuns, ExpireJobs
<1>10. CASE Age \/ Forget \/ (\E w \in rows : TakeRow(w)) \/ UNCHANGED nvars
  BY <1>2, <1>10 DEF Age, Forget, TakeRow, nvars
<1>12. CASE Bury
  BY <1>1, <1>2, <1>12 DEF Bury
<1>11. ASSUME NEW t \in {"repo", "org"}, Toggle(t) PROVE IntakeTypes'
  BY <1>1, <1>11 DEF Toggle
<1> QED
  BY <1>3, <1>4, <1>5, <1>6, <1>7, <1>8, <1>9, <1>10, <1>11,
     <1>12 DEF NextIntake, RescueSteps

LEMMA IntakeTypeCorrect == Spec => []IntakeTypeOK
<1>1. InitIntake => IntakeTypes
  BY IntakeAssumption DEF InitIntake, IntakeTypes
<1>2. IntakeTypes /\ [NextIntake]_nvars => IntakeTypes'
  BY NextIntakeTypes
<1>3. IntakeInv /\ IntakeTypes => IntakeTypeOK
  BY IntakeAssumption DEF IntakeInv, IntakeTypes, IntakeTypeOK
<1> QED
  BY <1>1, <1>2, <1>3, IntakeCorrect, IntakeSteps, PTL

----------------------------------------------------------------------------
(* All services.                                                           *)

\* The services keep to their types, for any number of requests, servers,
\* targets, workers, goroutines and jobs: what a request goes on with is a
\* row, a pool keeps MaxIdle connections at most, no token outlives what
\* GitHub gives it, and no cache has an answer that GitHub has not given.
THEOREM TypeCorrect == Spec => []TypeOK
<1>1. /\ TargetsTypeOK /\ ServerLockTypeOK /\ TargetTokenTypeOK
      /\ RegistrationTokenTypeOK /\ InstallationsTypeOK /\ IntakeTypeOK
      => TypeOK
  BY DEF TypeOK
<1> QED
  BY <1>1, TargetsSteps, TargetsTypeCorrect, ServerLockTypes,
     TargetTokenTypes, RegistrationTokenTypes, InstallationTypes,
     IntakeTypeCorrect, PTL

\* What is promised of the table of the targets holds among the services.
THEOREM TableCorrect ==
  Spec => OneTargetPerScope /\ DeletedStaysDeleted /\ AnsweredAsAsked
BY TargetsSteps, OneTarget, DeletedStays, AnsweredRight

=============================================================================
