SPECIFICATION FairSpec
CONSTANTS
  NPROC = 3
  Policies = {"FCFS", "RR"}
  MaxPid = 6
  MaxPause = 2
PROPERTIES
  BoundedOvertaking
  NoStarvation
