\* Two users, places within and out of reach, one failure or crash anywhere.
SPECIFICATION Spec
CONSTANTS
  p1 = p1
  p2 = p2
  u1 = u1
  u2 = u2
  n1 = n1
  n2 = n2
  a = a
  b = b
  c = c
  None = None
  Procs <- MCProcs
  Images <- MCImages
  Users <- MCUsers
  PlaceIds = {1, 2}
  Names = {n1}
  Positions <- Far
  Batches <- TwoImages
  Covers = {None}
  MaxPosts = 2
  MaxFaults = 1
SYMMETRY MCSymmetry
CHECK_DEADLOCK FALSE
INVARIANTS
  TypeOK
  PhotoCountAccounted
  VisitorCountNotOverstated
  PhotosNearTheirPlace
