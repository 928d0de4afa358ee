SPECIFICATION Spec
CONSTANTS
  MaxAttempts <- MCMaxAttempts
  Identifiers <- MCIdentifiers
PROPERTY
  NoDuplicateSubmission
CHECK_DEADLOCK FALSE
