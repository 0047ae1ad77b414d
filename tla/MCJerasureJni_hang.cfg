\* One Java thread building Cauchy coding matrices while the Java heap may
\* be exhausted: NewIntArray may return NULL with OutOfMemoryError pending.
CONSTANTS
  Threads    = {t1}
  IntArrays  = {i1}
  ByteArrays = {b1}
  BoolArrays = {z1}
  K = 1
  M = 1
  MaxGen = 1
  WordSizes = {1}
  GetMayFail = FALSE
  NewMayFail = TRUE
  NULL = NULL
  Methods <- BuildersOnly
SPECIFICATION FairSpec
PROPERTY CallsReturn
CHECK_DEADLOCK FALSE
