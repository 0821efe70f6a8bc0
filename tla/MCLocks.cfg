SPECIFICATION Spec
CONSTANTS
  t1 = t1
  t2 = t2
  t3 = t3
  root = root
  left = left
  right = right
  Nil = Nil
  One = One
  Thread = {t1, t2, t3, t4}
  CounterThread = {t1, t2, t3}
  CounterMod = 4
  ArrayLen = 2
  FlagsLen = 4
  TailMod = 8
  QueueThread = {t1, t2, t3}
  WordThread = {t1, t2, t3}
  HemLocks = {1, 2}
  Watched = 2
  RecDepth = 2
  Nobody = Nobody
  SharedThread = {t1, t2, t3}
  Resources = 3
  Shares = 4
  Writer = {t1, t2}
  Reader = {t3}
  SeqMod = 6
  SyncThread = {t1, t2, t3}
  Consumer = {t1, t2}
  Wrap = 3
  MaxSpurious = 1
INVARIANTS HandOverIntact NodesIntact WriterAlone ResourcesAccounted AcceptedSnapshot NoMissedSignal OnceOnly
PROPERTIES RefinesFifoLock CallsReturn
