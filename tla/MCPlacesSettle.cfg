\* Three creating or publishing requests, one failure anywhere, fair goroutines.
SPECIFICATION FairSpec
CONSTANTS
  p1 = p1
  p2 = p2
  u1 = u1
  u2 = u2
  n1 = n1
  n2 = n2
  a = a
  b = b
  c = c
  None = None
  Procs <- MCProcs
  Images <- MCImages
  Users = {u1}
  PlaceIds = {1, 2, 3}
  Names = {n1}
  Positions <- Nearby
  Batches <- OneImage
  Covers = {c}
  MaxPosts = 3
  MaxFaults = 1
CHECK_DEADLOCK FALSE
INVARIANTS
  TwinsBoundedByConcurrency
  CoverAccounted
PROPERTY
  PublishesSettle
