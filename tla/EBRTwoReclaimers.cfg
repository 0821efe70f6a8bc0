SPECIFICATION EBRSpec
CONSTANTS
  Thread = {r1, r2, c1, c2}
  Reclaimer = {c1, c2}
  SmrNode = {n1, n2}
  Nil = nil
  MaxEpoch = 6
  MaxNest = 1
INVARIANT NoUseAfterFree
