SPECIFICATION Spec
CONSTANTS
  t1 = t1
  t2 = t2
  t3 = t3
  n1 = n1
  n2 = n2
  n3 = n3
  n4 = n4
  Thr = {t1, t2, t3}
  Buf = {b1, b2, b3}
  Block = {n1, n2, n3, n4}
  NUM = 6
  None = None
  Wants <- WantsMC
  Writer = {t1}
  MaxPins = 1
INVARIANTS OneBufferPerBlock HolderSeesLatest RefcntExact WriteReachesDisk NoLostWakeup
CHECK_DEADLOCK FALSE
