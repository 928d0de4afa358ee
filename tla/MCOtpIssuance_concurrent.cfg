CONSTANTS
  Email = {e1}
  Commitment = {c1, c2}
  Id = {i1, i2, i3}
  Requester = {q1}
  Verifier = {v1, v2}
  None = None
  Torn = Torn
  MaxEvents = 1
  WindowMs = 3
  MaxAttempts = 2
  TtlMs = 2
  MaxTime = 3
  MaxCrashes = 1
  MaxFailures = 1
SYMMETRY Symmetry
SPECIFICATION Spec
INVARIANTS TypeOK GuessesPerChallenge GuessesPerMailbox AcceptedOnce RegisteredWasProven
PROPERTY ChallengesAreOneTime
CHECK_DEADLOCK FALSE
