\* Three requests at a time on one user, three writes, two failures or crashes.
SPECIFICATION FairSpec
CONSTANTS
  p1 = p1
  p2 = p2
  p3 = p3
  u1 = u1
  u2 = u2
  None = None
  Procs = {p1, p2, p3}
  Users = {u1}
  MaxWrites = 3
  MaxFaults = 2
INVARIANTS
  TypeOK
  CopyOfTheRow
  StaleOnlyIfRaced
PROPERTY
  CopiesBecomeFresh
