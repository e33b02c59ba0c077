\* Two uploads at a time, a midnight, two restarts, two failures or uploads cut off.
SPECIFICATION Spec
CONSTANTS
  w1 = w1
  w2 = w2
  None = None
  Workers <- MCWorkers
  Domains = {"old", "new"}
  Configs <- MCConfigs
  MaxFiles = 3
  MaxDays = 2
  MaxStarts = 2
  MaxFaults = 2
SYMMETRY MCSymmetry
CHECK_DEADLOCK FALSE
INVARIANTS
  TypeOK
  HandedURLsLead
  FilesAccounted
