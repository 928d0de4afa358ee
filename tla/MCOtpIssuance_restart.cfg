CONSTANTS
  Email = {e1}
  Commitment = {c1}
  Id = {i1}
  Requester = {q1}
  Verifier = {v1}
  None = None
  Torn = Torn
  MaxEvents = 1
  WindowMs = 2
  MaxAttempts = 1
  TtlMs = 1
  MaxTime = 1
  MaxCrashes = 1
  MaxFailures = 0
SYMMETRY Symmetry
SPECIFICATION Spec
PROPERTY RestartKeepsChallenges
CHECK_DEADLOCK FALSE
