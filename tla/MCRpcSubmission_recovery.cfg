SPECIFICATION FairSpec
CONSTANTS
  MaxAttempts <- MCMaxAttempts
  Identifiers <- MCIdentifiers
INVARIANTS
  TypeOK
  VerdictsAreReal
  GivesUpForCause
PROPERTIES
  NoBlindResend
  AlwaysAnswered
\* The loop ends, and then the world may have nothing left to do.
CHECK_DEADLOCK FALSE
