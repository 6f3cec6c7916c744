CONSTANTS
  c1 = c1
  c2 = c2
  Servers = {c1, c2}
  Nobody = nobody
  Everybody = everybody
  Options <- MCOptions
  DefaultLease = 4
  Second = 2
  MaxGap = 3
  Limit = 1
  MaxXid = 4
  MaxAge = 6
SPECIFICATION Spec
INVARIANTS
  LeaseAgreed
PROPERTIES
  RenewsOnTime
  RequestsGoOn
