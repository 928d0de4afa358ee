SPECIFICATION Spec
CONSTANTS
  h1 = h1
  h2 = h2
  Handlers = {h1, h2}
  Texts <- MCTexts
  Transactions <- MCTransactions
  MaxSeeds = 2
  MaxStarts = 4
  MaxSecrets = 2
  r1 = r1
  r2 = r2
  Callers = {r1, r2}
  k1 = k1
  k2 = k2
  Keys = {k1, k2}
  maxEvents = 2
  windowMs = 2
  MaxTime = 4
  MaxGrants = 4
CHECK_DEADLOCK FALSE
INVARIANTS
  TypeOK
  KeysSurvive
  AnswersAreTrue
  WindowLimit
PROPERTY RegistrationEnds
