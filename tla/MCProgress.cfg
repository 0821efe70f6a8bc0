SPECIFICATION FairSpec
CONSTANTS
  Algos = {"bounded_mpmc2", "unbounded_queue_lf2", "mpsc2", "listset_lf2", "ebr",
           "hclhlock2"}
  t1 = t1
  t2 = t2
  t3 = t3
  own = own
  prod = prod
  cons = cons
  aux = aux
  i1 = i1
  i2 = i2
  i3 = i3
  i4 = i4
  root = root
  branch = branch
  left = left
  right = right
  Sentinel = Sentinel
  Nil = Nil
  Thread = {t1, t2, cons}
  Reclaimer = {cons}
  SmrNode = {i1}
  MaxEpoch = 4
  MaxNest = 2
  Exchangers = {0}
  Item = {i1, i2}
  NULL = NULL
PROPERTY CallsReturn
