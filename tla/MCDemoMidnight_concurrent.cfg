CONSTANTS
  Caller = {c1, c2}
  Domain = {d1, d2}
  Secret = {s1}
  Zero = Zero
  Body = {b1}
  Salt = {n1}
  Nothing = Nothing
SYMMETRY Symmetry
SPECIFICATION Spec
INVARIANTS TypeOK VerifiedMailIsEntitled SpentForATicket RefusesWhatWasSettled
