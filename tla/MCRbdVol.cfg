CONSTANTS
  Image = {i1, i2}
  Snap = {s1, s2}
  NoImage = NoImage
  NoSnap = NoSnap
  Deep = {i1, i2}
  MaxFaults = 1
  Host = {h1}
  Task = {t1, t2}
  Sxm = {FALSE}
  Worker = {w1}
  FlattenRetries = 2
  Scanner = {h1}
SPECIFICATION Spec
SYMMETRY Symmetry
INVARIANTS NothingLost DestroyedSnapGone OnlyTrashCollected IInv
PROPERTY Implements
