SPECIFICATION Spec
CONSTANTS
  Thr = {t1, t2, t3}
  Block = {b1, b2, b3, b4}
  Val = {v0, v1}
  Zero = v0
  None = None
  Torn = Torn
  MAXOPBLOCKS = 2
  LOGBLOCKS = 4
  OPBLOCKS = 1
  MaxCommit = 1
SYMMETRY Symmetry
INVARIANTS
  PinsBalanced
  SyncDurable
  LogHasRoom
  BeginWaitersWoken
  SyncWaitersWoken
PROPERTIES
  AtomicSpec
