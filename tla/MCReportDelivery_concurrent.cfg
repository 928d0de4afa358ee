CONSTANTS
  Ticket = {t1}
  Request = {r1, r2, r3}
  NoLock = NoLock
  Nobody = Nobody
  MaxFaults = 3
SYMMETRY Symmetry
SPECIFICATION Spec
INVARIANTS TypeOK NoLeakedLock ExclusiveUntilDelivered InboxIsWhole
PROPERTY KeepsPromise
