SPECIFICATION KernelSpec
CONSTANTS
  NPROC = 2
  NPAGE = 18
  FAN = 3
  PGSIZE = 2
  WORD = 128
  ExecCall <- ExecCallMC
  InitProg <- Small
  SbrkBytes <- SbrkMC
  Addr = {1, 5, 7}
  MaxSz = 9
  TakeCount = {6, 8}
  p1 = p1
  p2 = p2
  Hart = {h0, h1}
  BootHart = h0
  Task = {p1, p2}
  TicksLock = TicksLock
  DevLock = DevLock
  Nobody = Nobody
  TW = 2
  Pauses = {1}
  Program <- TwoPrograms
INVARIANTS
  NoVmPanic PagesPartition MemoryIsIdeal
  LocksMaskInterrupts ThreadContextKept PauseNotEarly
VIEW View
