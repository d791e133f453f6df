------------------------- MODULE RegistrationToken -------------------------
(***************************************************************************)
(* The cache of registration tokens (pkg/gh/token_registration.go): the    *)
(* setup script of every runner carries a token to register with, and      *)
(* GetRunnerRegistrationToken hands the last one out until six minutes     *)
(* before it expires.  One scope; the workers of the starter call it       *)
(* concurrently.  Time is counted in units of three minutes, by the clock  *)
(* of the server: a clock that is ahead of GitHub's makes tokens short.    *)
(***************************************************************************)
EXTENDS Integers

CONSTANTS
  Setup,        \* workers that ask for a token
  Lives,        \* how long the issued tokens may have to live
  Margin,       \* the six minutes
  Default       \* the default expiration of the cache (one hour)

ASSUME RegistrationTokenAssumption ==
  /\ Margin \in Nat /\ Default \in Nat \ {0}
  /\ Lives \subseteq Nat

VARIABLES
  calls,    \* what each worker does: none, or setting the token it generated
  entry     \* the cache

gvars == <<calls, entry>>

\* An item of go-cache: the life of its token, what is left of the item's own
\* duration, whether it has none, and (history) whether its token had no more
\* than the margin to live when it was cached.
NoEntry == [full |-> FALSE, life |-> 0, for |-> 0, never |-> FALSE,
            short |-> FALSE]

RegistrationTokenTypeOK ==
  /\ calls \in [Setup -> [pc : {"none", "set"}, life : Nat]]
  /\ entry.life \in Nat
  /\ entry.for \in Nat
  /\ entry.never => entry.full /\ entry.for = 0

InitRegistrationToken ==
  /\ calls = [c \in Setup |-> [pc |-> "none", life |-> 0]]
  /\ entry = NoEntry

\* A miss: the installation's client asks GitHub for a token.  On a hit the
\* token of the entry is handed out, and nothing changes.
Generate(c) ==
  /\ calls[c].pc = "none" /\ ~entry.full
  /\ \E l \in Lives :
       calls' = [calls EXCEPT ![c] = [pc |-> "set", life |-> l]]
  /\ UNCHANGED entry

\* Mutant: the entry expires with its token.
LastsForLife(life) == life

\* time.Until(expiresAt.Add(-6 * time.Minute))
Duration(life) == life - Margin

\* setRunnerRegisterTokenCache: of go-cache's Set, duration 0 stands for the
\* default and a negative one for no expiration.
SetToken(c) ==
  /\ calls[c].pc = "set"
  /\ LET life == calls[c].life
         d == Duration(life) IN
       entry' = [full |-> TRUE, life |-> life, never |-> d < 0,
                 for |-> IF d = 0 THEN Default ELSE IF d > 0 THEN d ELSE 0,
                 short |-> life <= Margin]
  /\ calls' = [calls EXCEPT ![c] = [pc |-> "none", life |-> 0]]

Less(n) == IF n > 0 THEN n - 1 ELSE 0

\* Time passes, for the tokens and for the entry.
Passes ==
  /\ calls' = [c \in Setup |-> [calls[c] EXCEPT !.life = Less(@)]]
  /\ entry' = IF entry.full /\ ~entry.never /\ entry.for <= 1
              THEN NoEntry
              ELSE [entry EXCEPT !.life = Less(@), !.for = Less(@)]

NextRegistrationToken ==
  \/ \E c \in Setup : Generate(c) \/ SetToken(c)
  \/ Passes

\* Whoever finds a token in the cache gets one that lives for longer than the
\* margin, enough to boot an instance: unless it had no more than the margin
\* when it was cached, for then the entry lasts for an hour or for ever.
HandedTokenLives ==
  entry.full => entry.life > Margin \/ entry.short

=============================================================================
