SPECIFICATION Spec
CONSTANTS
  Algos = {"bounded_spsc", "chaselev", "unbounded_queue_total", "mpsc", "bbq_mpmc",
           "bbq_mpmc2", "bbq_mpmc3", "bbq_mpmc4", "bbq_spsc", "hclhlock", "cnalock",
           "hmcslock", "hmcslock_tree", "treeset_bst", "treeset_rb", "treeset_rb1",
           "treeset_coarse"}
  t1 = t1
  t2 = t2
  t3 = t3
  own = own
  prod = prod
  cons = cons
  aux = aux
  i1 = i1
  i2 = i2
  i3 = i3
  i4 = i4
  root = root
  branch = branch
  left = left
  right = right
  Sentinel = Sentinel
  Nil = Nil
  Thread = {t1, t2, t3}
  Reclaimer = {t3}
  SmrNode = {i1, i2}
  MaxEpoch = 5
  MaxNest = 2
  Exchangers = {0}
  Item = {i1, i2}
  NULL = NULL
INVARIANTS TypeOK Linearizable EndsInOrder EntriesIntact MutualExclusion NodesExclusive LayoutRight
PROPERTY LocksProtect
SYMMETRY QueueSymmetry
