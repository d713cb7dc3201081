SPECIFICATION FairSpec
CONSTANTS
  NPROC = 3
  Policies = {"FCFS"}
  MaxPid = 6
  MaxPause = 2
PROPERTIES
  Preempted
