CONSTANTS
  Ticket = {t1}
  Request = {r1, r2}
  NoLock = NoLock
  Nobody = Nobody
  MaxFaults = 0
SPECIFICATION Spec
PROPERTY NoClaimOnceDelivered
