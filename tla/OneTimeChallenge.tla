--------------------------- MODULE OneTimeChallenge ---------------------------
(***************************************************************************)
(* What a one-time password promises: the challenge is opened once, hears  *)
(* at most MaxAttempts wrong candidates, and is accepted at most once, for *)
(* which it must be open and after which it is closed.  It may be closed   *)
(* at any time, and once closed it stays closed.                           *)
(***************************************************************************)
EXTENDS Naturals

CONSTANT MaxAttempts

VARIABLES phase,    \* "new", "open" or "closed"
          wrong,    \* wrong candidates heard
          accepted  \* the right candidate was heard

vars == <<phase, wrong, accepted>>

Init == phase = "new" /\ wrong = 0 /\ accepted = FALSE

Open ==
  /\ phase = "new" /\ phase' = "open"
  /\ UNCHANGED <<wrong, accepted>>

Guess ==
  /\ phase = "open" /\ wrong < MaxAttempts
  /\ wrong' = wrong + 1
  /\ UNCHANGED <<phase, accepted>>

Accept ==
  /\ phase = "open" /\ phase' = "closed"
  /\ accepted' = TRUE
  /\ UNCHANGED wrong

Close ==
  /\ phase' = "closed"
  /\ UNCHANGED <<wrong, accepted>>

Next == Open \/ Guess \/ Accept \/ Close

Spec == Init /\ [][Next]_vars
===============================================================================
