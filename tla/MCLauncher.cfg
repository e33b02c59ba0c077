\* Four commands in two shells, one failure or interrupted script.
SPECIFICATION FairSpec
CONSTANTS
  s1 = s1
  s2 = s2
  None = None
  Scripts <- MCScripts
  Pids = {1, 2, 3, 4}
  MaxRuns = 4
  MaxFaults = 1
CHECK_DEADLOCK FALSE
INVARIANTS
  TypeOK
  OneProcess
  PidFileTrue
  StopStops
PROPERTIES
  ScriptsEnd
  ForkedServes
