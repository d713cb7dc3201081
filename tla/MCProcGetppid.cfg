SPECIFICATION Spec
CONSTANTS
  NPROC = 3
  CPU = {c1, c2}
  NoCpu = NoCpu
  MaxPid = 4
  Calls = {"fork", "exit", "wait", "kill", "getppid"}
  KillPids = {2, 3}
SYMMETRY CpuSymmetry
INVARIANT
  GetppidReturnsPid
