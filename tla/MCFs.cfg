SPECIFICATION MCSpec
CONSTANTS
  p1 = p1
  p2 = p2
  Proc = {p1, p2}
  NINO = 4
  Blk = {1, 2, 3, 4, 5}
  DPB = 3
  Name = {".", "..", "a", "d", "f"}
  NOFILE = 1
  Call <- CallsMC
  Images <- ImagesMC
  MaxCalls = 3
  MaxCrash = 1
SYMMETRY Sym
INVARIANTS TreeSound BlocksOwned RefExact LockedInodeLive IputNeverBlocks NoLockCycle
