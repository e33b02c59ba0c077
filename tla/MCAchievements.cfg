\* One user, three photos for two goroutines, one failure or crash anywhere.
SPECIFICATION FairSpec
CONSTANTS
  w1 = w1
  w2 = w2
  first = first
  starred = starred
  toured = toured
  talked = talked
  daily = daily
  None = None
  Users = {1}
  Workers <- MCWorkers
  Defs = {first, starred, toured, talked, daily}
  Kind <- MCKind
  Need <- MCNeed
  Reward <- MCReward
  MaxPhotos = 3
  MaxActs = 2
  MaxFaults = 1
CHECK_DEADLOCK FALSE
INVARIANTS
  TypeOK
  LevelAccounted
  RewardsCredited
  RewardsBoundedByConcurrency
  UnlockedWereReached
PROPERTIES
  LevelNeverDrops
  ImplementsLeveling
  PhotosEarn
