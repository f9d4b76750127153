SPECIFICATION Spec
CONSTANTS
  LastImage = 3
  SizeOf <- OneChunk
  Chunks = {0}
  Ranges <- FirstChunk
  Modes = {TRUE, FALSE}
  Tasks = {t1, t2}
  t1 = t1
  t2 = t2
  NoTask = NoTask
  AllowRollback = FALSE
  MayFail = {"chunk"}
  MaxMishaps = 1
CHECK_DEADLOCK FALSE
SYMMETRY TaskSymmetry
INVARIANTS
  CacheTypeOK
  EntryWithinDisk
  FreshWhenCurrent
  NotBehindItsCache
PROPERTIES
  EntryNeverRegresses
  CacheNeverGoesBack
  IncompleteOnlyIfChanged
