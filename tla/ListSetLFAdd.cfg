SPECIFICATION Spec
CONSTANTS
  Thread = {t1, t2}
  Key = {1, 2}
  Copies = 2
  Nil = nil
  Lenient = FALSE
INVARIANT Linearizable
