SPECIFICATION Spec
CONSTANTS
  c1 = c1
  c2 = c2
  f1 = f1
  Calls = {c1, c2}
  Files = {f1}
  Sponsored = TRUE
  MaxFiles = 1
  MaxTickets = 2
  Refused = {1}
SYMMETRY MCSymmetry
VIEW MCView
CHECK_DEADLOCK FALSE
INVARIANTS
  TypeOK
  BusyMeansRunning
  OneReceipt
  DestinationIsQualified
  NoLeakedAuthorization
  ReceiptIsTrue
  RetryCanSucceed
