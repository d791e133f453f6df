--------------------------- MODULE Installations ---------------------------
(***************************************************************************)
(* The cache of what GitHub says of the installations of the GitHub App    *)
(* (pkg/gh/installation.go, jwt.go): the list of installations, and for an *)
(* installation that covers only selected repositories the list of those.  *)
(* Every goroutine that needs an installation asks IsInstalledGitHubApp;   *)
(* the creation of a target purges the cache first.  A miss is filled in   *)
(* two steps, the request to GitHub and the Set, without a lock.           *)
(*                                                                         *)
(* One installation, of selected repositories; one of all repositories     *)
(* ends after the list of installations.                                   *)
(*                                                                         *)
(* What GitHub would answer is a number that grows with every change of    *)
(* the installation, so that an answer is as fresh as its number is high.  *)
(***************************************************************************)
EXTENDS Integers

CONSTANTS
  Caller,       \* goroutines that call IsInstalledGitHubApp
  MaxChanges,   \* bound: changes of the installation at GitHub
  MaxAsked      \* bound: calls in a behaviour

ASSUME InstallationsAssumption ==
  /\ MaxChanges \in Nat /\ MaxAsked \in Nat

Key == {"installations", "repos"}
Miss == -1

VARIABLES
  now,       \* GitHub's present answer
  cached,    \* the answer each key of responseCache holds, or Miss
  caller,    \* what the goroutines do
  asked

ivars == <<now, cached, caller, asked>>

\* A goroutine at rest.  key is the list it is about to get, got the answer
\* of GitHub that it has not cached yet; create says that it is a creation,
\* purged that its purge is over.  History: GitHub's answer when the call
\* came in, the oldest answer it has worked with since its purge, and
\* whether another goroutine's fill was under way when a key was purged.
AtRest == [pc |-> "rest", key |-> "installations", got |-> Miss,
           create |-> FALSE, purged |-> FALSE, since |-> 0, oldest |-> 0,
           overlap |-> FALSE]

InstallationsTypeOK ==
  /\ now \in 0 .. MaxChanges
  /\ cached \in [Key -> Miss .. MaxChanges]
  /\ \A c \in Caller :
       /\ caller[c].pc \in {"rest", "get", "set", "purge", "drop", "done"}
       /\ caller[c].key \in Key
       /\ caller[c].got \in Miss .. now
       /\ caller[c].oldest \in 0 .. now
  /\ asked \in 0 .. MaxAsked

InitInstallations ==
  /\ now = 0
  /\ cached = [k \in Key |-> Miss]
  /\ caller = [c \in Caller |-> AtRest]
  /\ asked = 0

GoesOn(c, next) == caller' = [caller EXCEPT ![c] = next]

----------------------------------------------------------------------------

\* The user installs the App, selects a repository, suspends it ...
Change ==
  /\ now < MaxChanges
  /\ now' = now + 1
  /\ UNCHANGED <<cached, caller, asked>>

\* An item is an hour old.
Expire(k) ==
  /\ cached[k] # Miss
  /\ cached' = [cached EXCEPT ![k] = Miss]
  /\ UNCHANGED <<now, caller, asked>>

\* A creation begins with PurgeInstallationCache; the others (the setup
\* script, the rescue loop, the token refresh) with IsInstalledGitHubApp.
Ask(c, create) ==
  /\ caller[c].pc \in {"rest", "done"} /\ asked < MaxAsked
  /\ asked' = asked + 1
  /\ GoesOn(c, [pc |-> "get", key |-> "installations", got |-> Miss,
                create |-> create, purged |-> ~create, since |-> now,
                oldest |-> now, overlap |-> FALSE])
  /\ UNCHANGED <<now, cached>>

\* What a list is good for: the purge lists the installations to know which
\* keys to delete, a caller goes on to the selected repositories.
Uses(c, answer) ==
  LET p == caller[c]
      seen == [p EXCEPT !.got = Miss,
                 !.oldest = IF answer < @ THEN answer ELSE @] IN
  CASE ~p.purged -> [p EXCEPT !.got = Miss, !.pc = "purge"]
    [] p.purged /\ p.key = "installations" ->
         [seen EXCEPT !.pc = "get", !.key = "repos"]
    [] OTHER -> [seen EXCEPT !.pc = "done"]

\* listInstallations, listAppsInstalledRepo: a hit.
Hit(c) ==
  /\ caller[c].pc = "get" /\ cached[caller[c].key] # Miss
  /\ GoesOn(c, Uses(c, cached[caller[c].key]))
  /\ UNCHANGED <<now, cached, asked>>

\* A miss: page after page from GitHub ...
Fetch(c) ==
  /\ caller[c].pc = "get" /\ cached[caller[c].key] = Miss
  /\ GoesOn(c, [caller[c] EXCEPT !.pc = "set", !.got = now])
  /\ UNCHANGED <<now, cached, asked>>

\* ... and the Set, for an hour.
Set(c) ==
  /\ caller[c].pc = "set"
  /\ cached' = [cached EXCEPT ![caller[c].key] = caller[c].got]
  /\ GoesOn(c, Uses(c, caller[c].got))
  /\ UNCHANGED <<now, asked>>

\* The request fails: the caller gives up, with nothing cached.
FetchFails(c) ==
  /\ caller[c].pc = "get" /\ cached[caller[c].key] = Miss
  /\ GoesOn(c, AtRest)
  /\ UNCHANGED <<now, cached, asked>>

\* Another goroutine has GitHub's answer for key k and will cache it.
Filling(c, k) ==
  \E o \in Caller \ {c} : caller[o].pc = "set" /\ caller[o].key = k

\* Mutant: only the list of installations is deleted.
PurgeKeepsRepos(c) ==
  /\ caller[c].pc = "purge"
  /\ GoesOn(c, [caller[c] EXCEPT !.pc = "drop"])
  /\ UNCHANGED <<now, cached, asked>>

\* PurgeInstallationCache deletes the repositories of the installations it
\* has listed ...
PurgeRepos(c) ==
  /\ caller[c].pc = "purge"
  /\ cached' = [cached EXCEPT !["repos"] = Miss]
  /\ GoesOn(c, [caller[c] EXCEPT !.pc = "drop",
                  !.overlap = @ \/ Filling(c, "repos")])
  /\ UNCHANGED <<now, asked>>

\* ... and then the list; IsInstalledGitHubApp follows.
PurgeList(c) ==
  /\ caller[c].pc = "drop"
  /\ cached' = [cached EXCEPT !["installations"] = Miss]
  /\ GoesOn(c, [caller[c] EXCEPT !.pc = "get", !.key = "installations",
                  !.purged = TRUE,
                  !.overlap = @ \/ Filling(c, "installations")])
  /\ UNCHANGED <<now, asked>>

NextInstallations ==
  \/ Change
  \/ \E k \in Key : Expire(k)
  \/ \E c \in Caller : \/ Ask(c, TRUE) \/ Ask(c, FALSE)
                       \/ Hit(c) \/ Fetch(c) \/ FetchFails(c) \/ Set(c)
                       \/ PurgeRepos(c) \/ PurgeList(c)

----------------------------------------------------------------------------

\* A creation decides on what GitHub said after it came in, although the
\* answers are cached for an hour: whoever has just installed the App is not
\* told that it is not installed.  Only a fill that another goroutine had
\* begun before the purge may bring an old answer back.
CreationSeesFresh ==
  \A c \in Caller :
    caller[c].create /\ caller[c].purged /\ ~caller[c].overlap
      => caller[c].oldest >= caller[c].since

=============================================================================
