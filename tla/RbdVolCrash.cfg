CONSTANTS
  Image = {i1, i2}
  Snap = {s1}
  NoImage = NoImage
  NoSnap = NoSnap
  Deep = {i1, i2}
  MaxFaults = 1
  Host = {h1}
  Task = {t1}
  Sxm = {TRUE, FALSE}
  Worker = {w1}
  FlattenRetries = 2
  Scanner = {h1}
SPECIFICATION LiveSpec
PROPERTIES TrashPurged SpoolDrains
