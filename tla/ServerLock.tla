----------------------------- MODULE ServerLock -----------------------------
(***************************************************************************)
(* How myshoes makes sure that one server works on a database at a time    *)
(* (cmd/server/cmd.go Run, pkg/datastore/mysql/lock.go): it asks           *)
(* IS_FREE_LOCK every second and, once the lock is free, calls GET_LOCK,   *)
(* whose result it does not look at.                                       *)
(*                                                                         *)
(* The lock belongs to a connection of MySQL, and the server's connections *)
(* to a pool (database/sql) that closes what comes back to it when it has  *)
(* MaxIdle idle ones already.  Any of them can also be lost while the      *)
(* server lives.  Nobody looks at the lock again.                          *)
(***************************************************************************)
EXTENDS Integers, FiniteSets

CONSTANTS
  Server,       \* the server processes of one database
  MaxIdle,      \* idle connections that a pool keeps (2 in database/sql)
  MaxLoad,      \* bound: connections in use at once
  MaxStarts     \* bound: starts of a server in a behaviour

ASSUME ServerLockAssumption ==
  /\ IsFiniteSet(Server)
  /\ {"none", "ghost"} \cap Server = {}
  /\ MaxIdle \in Nat \ {0}
  /\ MaxLoad \in Nat /\ MaxStarts \in Nat

VARIABLES
  at,       \* where Run is: down, check, sleep, get, serve
  holder,   \* whose connection holds the lock: none, a server, or ghost for
            \* that of a process that is gone
  lock,     \* the connection a server called GET_LOCK on: idle, used, or no
            \* if it does not hold the lock
  idle,     \* the other idle connections of a server
  used,     \* its other connections in use
  peak,     \* history: the most connections it has used at once
  raced,    \* history: two servers have seen the lock free before either
            \* got it
  broken,   \* history: a server has lost the connection with the lock
  starts

lvars == <<at, holder, lock, idle, used, peak, raced, broken, starts>>

ServerLockTypeOK ==
  /\ at \in [Server -> {"down", "check", "sleep", "get", "serve"}]
  /\ holder \in Server \cup {"none", "ghost"}
  /\ lock \in [Server -> {"no", "idle", "used"}]
  /\ idle \in [Server -> 0 .. MaxIdle]
  /\ used \in [Server -> 0 .. MaxLoad]
  /\ peak \in [Server -> Nat]
  /\ raced \in BOOLEAN /\ broken \in BOOLEAN
  /\ starts \in 0 .. MaxStarts

InitServerLock ==
  /\ at = [s \in Server |-> "down"]
  /\ holder = "none"
  /\ lock = [s \in Server |-> "no"]
  /\ idle = [s \in Server |-> 0]
  /\ used = [s \in Server |-> 0]
  /\ peak = [s \in Server |-> 0]
  /\ raced = FALSE /\ broken = FALSE
  /\ starts = 0

----------------------------------------------------------------------------

\* The process starts: main, newShoes (the pool opens no connection yet) and
\* Run up to its loop.
Boot(s) ==
  /\ at[s] = "down" /\ starts < MaxStarts
  /\ at' = [at EXCEPT ![s] = "check"]
  /\ peak' = [peak EXCEPT ![s] = 0]
  /\ starts' = starts + 1
  /\ UNCHANGED <<holder, lock, idle, used, raced, broken>>

\* Mutant: the lock is got without asking whether it is free.
DoesNotAsk(s) ==
  /\ at[s] = "check"
  /\ at' = [at EXCEPT ![s] = "get"]
  /\ idle' = [idle EXCEPT ![s] = 1]
  /\ peak' = [peak EXCEPT ![s] = 1]
  /\ UNCHANGED <<holder, lock, used, raced, broken, starts>>

\* IsLocked: the first query opens a connection, which is idle afterwards.
IsLocked(s) ==
  /\ at[s] = "check"
  /\ at' = [at EXCEPT ![s] = IF holder = "none" THEN "get" ELSE "sleep"]
  /\ idle' = [idle EXCEPT ![s] = 1]
  /\ peak' = [peak EXCEPT ![s] = 1]
  /\ raced' = (raced \/ /\ holder = "none"
                        /\ \E o \in Server \ {s} : at[o] = "get")
  /\ UNCHANGED <<holder, lock, used, broken, starts>>

\* Mutant: the answer of the first IsLocked is used for ever.
SleepsOn(s) ==
  /\ at[s] = "sleep"
  /\ UNCHANGED lvars

\* time.Sleep(time.Second)
Wake(s) ==
  /\ at[s] = "sleep"
  /\ at' = [at EXCEPT ![s] = "check"]
  /\ UNCHANGED <<holder, lock, idle, used, peak, raced, broken, starts>>

\* GET_LOCK answers 1, and the services start.
GetLock(s) ==
  /\ at[s] = "get" /\ holder = "none"
  /\ at' = [at EXCEPT ![s] = "serve"]
  /\ holder' = s
  /\ lock' = [lock EXCEPT ![s] = "idle"]
  /\ idle' = [idle EXCEPT ![s] = 0]
  /\ UNCHANGED <<used, peak, raced, broken, starts>>

\* It answers 0 after ten seconds, because another connection has the lock:
\* the services start all the same.
GetLockTimesOut(s) ==
  /\ at[s] = "get" /\ holder # "none"
  /\ at' = [at EXCEPT ![s] = "serve"]
  /\ idle' = [idle EXCEPT ![s] = 1]
  /\ UNCHANGED <<holder, lock, used, peak, raced, broken, starts>>

----------------------------------------------------------------------------
(* The pool of connections of a server.                                    *)

InUse(s) == used[s] + (IF lock[s] = "used" THEN 1 ELSE 0)

\* A goroutine of the services takes a connection: an idle one if there is
\* any (which one is the pool's business), else a new one.
Take(s) ==
  /\ at[s] = "serve" /\ InUse(s) < MaxLoad
  /\ \/ /\ lock[s] = "idle"
        /\ lock' = [lock EXCEPT ![s] = "used"]
        /\ UNCHANGED <<idle, used>>
     \/ /\ idle[s] > 0
        /\ idle' = [idle EXCEPT ![s] = @ - 1]
        /\ used' = [used EXCEPT ![s] = @ + 1]
        /\ UNCHANGED lock
     \/ /\ lock[s] # "idle" /\ idle[s] = 0
        /\ used' = [used EXCEPT ![s] = @ + 1]
        /\ UNCHANGED <<lock, idle>>
  /\ peak' = [peak EXCEPT ![s] = IF InUse(s) + 1 > @ THEN InUse(s) + 1 ELSE @]
  /\ UNCHANGED <<at, holder, raced, broken, starts>>

Idles(s) == idle[s] + (IF lock[s] = "idle" THEN 1 ELSE 0)

\* It comes back to the pool ...
GiveBack(s) ==
  /\ at[s] = "serve" /\ used[s] > 0
  /\ used' = [used EXCEPT ![s] = @ - 1]
  /\ idle' = [idle EXCEPT ![s] = IF Idles(s) < MaxIdle THEN @ + 1 ELSE @]
  /\ UNCHANGED <<at, holder, lock, peak, raced, broken, starts>>

\* ... and so does the one with the lock, which the server does not tell from
\* the others: if the pool closes it, MySQL frees the lock.
GiveLockBack(s) ==
  /\ at[s] = "serve" /\ lock[s] = "used"
  /\ lock' = [lock EXCEPT ![s] = IF Idles(s) < MaxIdle THEN "idle" ELSE "no"]
  /\ holder' = IF Idles(s) < MaxIdle THEN holder ELSE "none"
  /\ UNCHANGED <<at, idle, used, peak, raced, broken, starts>>

\* A connection is closed under a live server: by the driver, when the context
\* of its query ends (the handlers pass that of their request, the removal of
\* a runner one with a deadline), or because MySQL restarts, hands over or
\* drops it.  The query fails if there was one; the pool opens another
\* connection when it needs one.  MySQL may not notice at once.
LoseConnection(s) ==
  /\ at[s] # "down"
  /\ \/ /\ lock[s] # "no"
        /\ lock' = [lock EXCEPT ![s] = "no"]
        /\ holder' \in {"none", "ghost"}
        /\ broken' = TRUE
        /\ UNCHANGED <<idle, used>>
     \/ /\ idle[s] > 0
        /\ idle' = [idle EXCEPT ![s] = @ - 1]
        /\ UNCHANGED <<lock, holder, used, broken>>
     \/ /\ used[s] > 0
        /\ used' = [used EXCEPT ![s] = @ - 1]
        /\ UNCHANGED <<lock, holder, idle, broken>>
  /\ UNCHANGED <<at, peak, raced, starts>>

----------------------------------------------------------------------------

\* The process is gone: a query of the loop failed, a service returned an
\* error, or it was killed.  MySQL closes its connections now, or later if
\* nobody tells it.
Exit(s) ==
  /\ at[s] # "down"
  /\ at' = [at EXCEPT ![s] = "down"]
  /\ lock' = [lock EXCEPT ![s] = "no"]
  /\ idle' = [idle EXCEPT ![s] = 0]
  /\ used' = [used EXCEPT ![s] = 0]
  /\ IF holder = s THEN holder' \in {"none", "ghost"} ELSE UNCHANGED holder
  /\ UNCHANGED <<peak, raced, broken, starts>>

GhostEnds ==
  /\ holder = "ghost"
  /\ holder' = "none"
  /\ UNCHANGED <<at, lock, idle, used, peak, raced, broken, starts>>

RunSteps(s) == IsLocked(s) \/ Wake(s) \/ GetLock(s) \/ GetLockTimesOut(s)

NextServerLock ==
  \/ \E s \in Server : \/ Boot(s) \/ RunSteps(s) \/ Exit(s)
                       \/ Take(s) \/ GiveBack(s) \/ GiveLockBack(s)
                       \/ LoseConnection(s)
  \/ GhostEnds

SpecServerLock == InitServerLock /\ [][NextServerLock]_lvars

----------------------------------------------------------------------------

Serving == {s \in Server : at[s] = "serve"}

\* Two servers work on the database at once only in one of three ways: both
\* have seen the lock free before either got it (cmd.go:91 looks, then locks);
\* one has needed more connections at once than its pool keeps idle, so that
\* the pool may have closed the connection with the lock (lock.go:23); or one
\* has lost that connection otherwise.  A standby that waits, a server that
\* starts anew, one that ends and a slow MySQL do not suffice.
OneServer ==
  \A s, o \in Serving :
    s # o => raced \/ broken \/ \E p \in Server : peak[p] > MaxIdle

\* A server that waits for the lock starts to work when no other does, be it
\* that the other was killed: unless it is killed itself.
StandbyTakesOver ==
  \A s \in Server : at[s] = "sleep" ~> Serving # {} \/ at[s] = "down"

=============================================================================
