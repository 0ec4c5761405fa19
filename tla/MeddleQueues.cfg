SPECIFICATION FairSpec
CONSTANTS
  n1 = n1  n2 = n2  r1 = r1  md = md
  Net = {n1, n2}
  Report = {r1}
  Tick = md
  BatchSize = 2
  MaxDeploy = 2
  MaxSent = 2
  MaxSaid = 3
INVARIANTS
  IInv
  QueuesRaceOnlyInClear
PROPERTIES
  MeddleTaken
CHECK_DEADLOCK FALSE
