---------------------------- MODULE TargetToken ----------------------------
(***************************************************************************)
(* The tokens of the targets (pkg/runner/token_update.go): the runner      *)
(* manager goes over the targets when it starts and every                  *)
(* TargetTokenInterval, and renews the tokens that expire within           *)
(* NeedRefreshToken.  Nothing else writes a token, except the creation of  *)
(* a target: one that revives a deleted row (target_create.go) leaves the  *)
(* token of the row as it is.                                              *)
(*                                                                         *)
(* Time is counted in intervals.  A round ends before the next one is due. *)
(***************************************************************************)
EXTENDS Integers

CONSTANTS
  Scope,        \* the targets
  Life,         \* intervals for which GitHub issues a token (one hour)
  Need,         \* NeedRefreshToken, in intervals
  MaxTrouble    \* bound: failed calls, deletions and restarts

ASSUME TargetTokenAssumption ==
  /\ Need \in Nat /\ Life \in Nat /\ 0 < Need /\ Need < Life
  /\ MaxTrouble \in Nat

VARIABLES
  status,    \* the status of each target: none, active, error or deleted
  left,      \* intervals until its token expires
  todo,      \* the targets the round has still to look at
  round,     \* wait, or go while a round is on
  failed,    \* history: renewals that have failed since the last success
  stale,     \* history: the row was revived, or the server was down, and no
             \* round has found its token good or renewed it since
  trouble

kvars == <<status, left, todo, round, failed, stale, trouble>>

TargetTokenTypeOK ==
  /\ status \in [Scope -> {"none", "active", "error", "deleted"}]
  /\ left \in [Scope -> 0 .. Life]
  /\ todo \subseteq Scope
  /\ round \in {"wait", "go"}
  /\ failed \in [Scope -> 0 .. MaxTrouble]
  /\ stale \in [Scope -> BOOLEAN]
  /\ trouble \in 0 .. MaxTrouble

InitTargetToken ==
  /\ status = [t \in Scope |-> "none"]
  /\ left = [t \in Scope |-> 0]
  /\ todo = {} /\ round = "wait"
  /\ failed = [t \in Scope |-> 0]
  /\ stale = [t \in Scope |-> FALSE]
  /\ trouble = 0

Disturbs == trouble < MaxTrouble /\ trouble' = trouble + 1

LiveToken(t) == status[t] \in {"active", "error"}

\* What is left of the tokens n intervals later.
LeftAfter(n) == [t \in Scope |-> IF left[t] > n THEN left[t] - n ELSE 0]

----------------------------------------------------------------------------
(* The targets API.                                                        *)

\* createNewTarget: with the token that has just been issued.
CreateTarget(t) ==
  /\ status[t] = "none"
  /\ status' = [status EXCEPT ![t] = "active"]
  /\ left' = [left EXCEPT ![t] = Life]
  /\ UNCHANGED <<todo, round, failed, stale, trouble>>

DeleteTarget(t) ==
  /\ LiveToken(t) /\ Disturbs
  /\ status' = [status EXCEPT ![t] = "deleted"]
  /\ failed' = [failed EXCEPT ![t] = 0]
  /\ UNCHANGED <<left, todo, round, stale>>

\* handleTargetCreate on a deleted row: the status and the parameters are
\* written, the token that has just been issued is not.
RecreateTarget(t) ==
  /\ status[t] = "deleted"
  /\ status' = [status EXCEPT ![t] = "active"]
  /\ stale' = [stale EXCEPT ![t] = TRUE]
  /\ UNCHANGED <<left, todo, round, failed, trouble>>

\* Another service makes the target active again.
MarkActive(t) ==
  /\ status[t] = "error"
  /\ status' = [status EXCEPT ![t] = "active"]
  /\ UNCHANGED <<left, todo, round, failed, stale, trouble>>

----------------------------------------------------------------------------
(* The rounds of the manager.                                              *)

\* Mutant: only targets without an error are listed.
ListsHealthy ==
  /\ round = "wait" /\ round' = "go"
  /\ left' = LeftAfter(1)
  /\ todo' = {t \in Scope : status[t] = "active"}
  /\ UNCHANGED <<status, failed, stale, trouble>>

\* An interval has passed; doTargetToken lists the targets that can receive
\* jobs (ListTargets).
ListDue ==
  /\ round = "wait" /\ round' = "go"
  /\ left' = LeftAfter(1)
  /\ todo' = {t \in Scope : LiveToken(t)}
  /\ UNCHANGED <<status, failed, stale, trouble>>

\* It cannot list them: nothing is renewed until the next interval.
ListFails ==
  /\ round = "wait" /\ Disturbs
  /\ left' = LeftAfter(1)
  /\ failed' = [t \in Scope |-> IF LiveToken(t) /\ left'[t] <= Need
                               THEN failed[t] + 1 ELSE failed[t]]
  /\ UNCHANGED <<status, todo, round, stale>>

\* Mutant: a token is renewed once it has expired.
NeedsWhenExpired(t) == left[t] = 0

\* The round works with the expiry it has listed, which is still the one of
\* the row: time.Now() is not before TokenExpiredAt - NeedRefreshToken.
NeedsRefresh(t) == left[t] <= Need

KeepToken(t) ==
  /\ t \in todo /\ ~NeedsRefresh(t)
  /\ todo' = todo \ {t}
  /\ stale' = [stale EXCEPT ![t] = FALSE]
  /\ UNCHANGED <<status, left, round, failed, trouble>>

\* NewClientGitHubApps, IsInstalledGitHubApp, GenerateGitHubAppsToken and
\* UpdateToken; the row may have been deleted meanwhile.
RenewToken(t) ==
  /\ t \in todo /\ NeedsRefresh(t)
  /\ todo' = todo \ {t}
  /\ left' = [left EXCEPT ![t] = Life]
  /\ failed' = [failed EXCEPT ![t] = 0]
  /\ stale' = [stale EXCEPT ![t] = FALSE]
  /\ UNCHANGED <<status, round, trouble>>

\* One of the calls fails: the next round tries again.  If it is UpdateToken,
\* the target is marked (datastore.UpdateTargetStatus, module Targets).
RenewFails(t) ==
  /\ t \in todo /\ NeedsRefresh(t) /\ Disturbs
  /\ todo' = todo \ {t}
  /\ failed' = [failed EXCEPT ![t] = IF LiveToken(t) THEN @ + 1 ELSE @]
  /\ \/ UNCHANGED status
     \/ LiveToken(t) /\ status' = [status EXCEPT ![t] = "error"]
  /\ UNCHANGED <<left, round, stale>>

RoundDone ==
  /\ round = "go" /\ todo = {}
  /\ round' = "wait"
  /\ UNCHANGED <<status, left, todo, failed, stale, trouble>>

\* The server stops and is started again n intervals later; it begins with a
\* round, whatever tokens the database has.
Restart ==
  /\ Disturbs
  /\ \E n \in 0 .. Life : left' = LeftAfter(n)
  /\ todo' = {} /\ round' = "wait"
  /\ stale' = [t \in Scope |-> stale[t] \/ status[t] # "none"]
  /\ UNCHANGED <<status, failed>>

RoundSteps ==
  \/ ListDue \/ ListFails \/ RoundDone
  \/ \E t \in Scope : KeepToken(t) \/ RenewToken(t) \/ RenewFails(t)

NextTargetToken ==
  \/ RoundSteps \/ Restart
  \/ \E t \in Scope : CreateTarget(t) \/ DeleteTarget(t) \/ RecreateTarget(t)
                      \/ MarkActive(t)

----------------------------------------------------------------------------

\* The token of a live target has expired only if as many renewals in a row
\* have failed as fit into NeedRefreshToken (two), or if no round has come to
\* it since the server was down, or since the target was deleted and created
\* anew with its old token (token_update.go:21, target_create.go:89).
ExpiryExplained ==
  \A t \in Scope :
    LiveToken(t) /\ left[t] = 0 => failed[t] >= Need \/ stale[t]

\* A token that has expired is renewed, also when the failures have marked
\* the target.
ExpiredIsRenewed ==
  \A t \in Scope : LiveToken(t) /\ left[t] = 0 ~> left[t] > 0 \/ ~LiveToken(t)

=============================================================================
