SPECIFICATION Spec
CONSTANTS
  NPROC = 3
  CPU = {c1, c2, c3}
  NoCpu = NoCpu
  MaxPid = 4
  Calls = {"fork", "exit", "wait", "kill", "getppid"}
  KillPids = {2, 3}
SYMMETRY CpuSymmetry
INVARIANTS
  OnOneCpu
  NoLockPanic
  ParentsLive
  NoMissedExit
  KilledIsLive
  KillInterruptsWait
  LowestPidChosen
