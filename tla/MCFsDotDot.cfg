SPECIFICATION MCSpec
CONSTANTS
  p1 = p1
  p2 = p2
  Proc = {p1}
  NINO = 4
  Blk = {1, 2, 3, 4, 5}
  DPB = 3
  Name = {".", "..", "a", "d", "f"}
  NOFILE = 1
  Call <- ClimbMC
  Images <- NestedMC
  MaxCalls = 4
  MaxCrash = 0
INVARIANTS IlockFindsType
