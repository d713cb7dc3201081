SPECIFICATION FairSpec
CONSTANTS
  NPROC = 3
  CPU = {c1, c2}
  NoCpu = NoCpu
  MaxPid = 4
  Calls = {"fork", "exit", "wait"}
  KillPids = {2, 3}
PROPERTIES
  KernelPathsEnd
  ScansEnd
