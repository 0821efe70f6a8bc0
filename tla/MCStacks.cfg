SPECIFICATION Spec
CONSTANTS
  Algos = {"bounded_mpmc", "bounded_locked", "unbounded_queue_lf", "unbounded_queue_lf3",
           "unbounded_queue_lf_recycle", "elimination_stack", "elimination_stack2",
           "xbo_stack", "quack", "exchanger", "ebr"}
  t1 = t1
  t2 = t2
  t3 = t3
  own = own
  prod = prod
  cons = cons
  aux = aux
  i1 = i1
  i2 = i2
  i3 = i3
  i4 = i4
  root = root
  branch = branch
  left = left
  right = right
  Sentinel = Sentinel
  Nil = Nil
  Thread = {t1, t2, t3}
  Reclaimer = {t3}
  SmrNode = {i1, i2}
  MaxEpoch = 4
  MaxNest = 2
  Exchangers = {0}
  Item = {i1, i2}
  NULL = NULL
INVARIANTS TypeOK Linearizable EndsInOrder AtomicExchange SafeReclamation
SYMMETRY StackSymmetry
