CONSTANTS
  Domain = {d1, d2}
  Email = {e1, e2}
  Secret = {s1, s2}
  Report = {r1}
  Salt = {n1, n2}
  RoleSecret = {issuerSecret, oracleSecret, otherSecret}
  IssuerSecret = issuerSecret
  OracleSecret = oracleSecret
SYMMETRY Symmetry
SPECIFICATION Spec
INVARIANTS TypeOK OneTicketPerNullifier TicketsAreEntitled
PROPERTIES RevocationIsFinal ImplementsOneTimeReceipts
CHECK_DEADLOCK FALSE
