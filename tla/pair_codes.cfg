CONSTANTS
  l1 = l1  l2 = l2  d1 = d1  d2 = d2  c1 = c1  c2 = c2  k1 = k1  k2 = k2  x1 = x1
  None = None  Half = Half
  Listeners = {l1, l2}  Daemons = {d1, d2}  Codes = {c1, c2}  Keys = {k1, k2}  Clis = {x1}
  MaxStamp = 3
  Scenarios <- All
SPECIFICATION FairSpec
INVARIANT TypeOK
INVARIANT OneDaemonPerListener
INVARIANT KeyWasValid
INVARIANT CodeKept
PROPERTY WaitingPairsUp
CHECK_DEADLOCK FALSE
