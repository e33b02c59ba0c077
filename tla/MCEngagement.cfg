\* Two users, two photos of one place and a photo id without a row.
SPECIFICATION Spec
CONSTANTS
  p1 = p1
  p2 = p2
  u1 = u1
  u2 = u2
  f1 = f1
  f2 = f2
  lost = lost
  s1 = s1
  None = None
  Procs <- MCProcs
  Users <- MCUsers
  Photos = {f1, f2}
  PhotoIds = {f1, f2, lost}
  Places = {s1}
  PlaceOf <- MCPlaceOf
  MaxRequests = 4
  MaxCareless = 1
  MaxFaults = 1
SYMMETRY MCSymmetry
CHECK_DEADLOCK FALSE
INVARIANTS
  TypeOK
  LikeCountAccounted
  PlaceLikesNotUnderstated
  CommentCountAccounted
