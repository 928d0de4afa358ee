CONSTANTS
  Ticket = {t1, t2}
  Request = {r1}
  NoLock = NoLock
  Nobody = Nobody
  MaxFaults = 2
SPECIFICATION FairSpec
INVARIANT InboxInOrder
PROPERTIES NoClaimOnceDelivered EventuallyDelivered
