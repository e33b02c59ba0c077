\* Likes received after the last publish, no failure, fair goroutines.
SPECIFICATION FairSpec
CONSTANTS
  w1 = w1
  w2 = w2
  first = first
  starred = starred
  toured = toured
  talked = talked
  daily = daily
  None = None
  Users = {1}
  Workers <- MCWorkers
  Defs = {first, starred, toured, talked, daily}
  Kind <- MCKind
  Need <- MCNeed
  Reward <- MCReward
  MaxPhotos = 1
  MaxActs = 2
  MaxFaults = 0
CHECK_DEADLOCK FALSE
PROPERTY
  LikesEarn
