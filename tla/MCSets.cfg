SPECIFICATION Spec
CONSTANTS
  Algos = {"listset_coarse", "listset_fine", "listset_opt", "listset_lazy",
           "listset_lazy3", "listset_lf", "listset_lf2", "skiplist_lf", "skiplist_lf2",
           "skiplist_lf3", "simpleht", "vqueue_prio_heap", "vqueue_prio_heap2"}
  t1 = t1
  t2 = t2
  t3 = t3
  own = own
  prod = prod
  cons = cons
  aux = aux
  i1 = i1
  i2 = i2
  i3 = i3
  i4 = i4
  root = root
  branch = branch
  left = left
  right = right
  Sentinel = Sentinel
  Nil = Nil
  Thread = {t1, t2, t3}
  Reclaimer = {t3}
  SmrNode = {i1, i2}
  MaxEpoch = 5
  MaxNest = 2
  Exchangers = {0}
  Item = {i1, i2}
  NULL = NULL
INVARIANTS TypeOK Linearizable EntriesIntact
SYMMETRY SetSymmetry
