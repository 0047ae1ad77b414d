\* One Java thread calling galois_w08_region_multiply, in place (jr2 NULL)
\* or into a second array; every copy succeeds.
CONSTANTS
  Threads    = {t1}
  IntArrays  = {i1}
  ByteArrays = {b1, b2}
  BoolArrays = {z1}
  K = 1
  M = 1
  MaxGen = 2
  WordSizes = {1, 2}
  GetMayFail = FALSE
  NewMayFail = FALSE
  NULL = NULL
  Methods <- RegionMultiplyOnly
SPECIFICATION Spec
INVARIANT NoNativeCrash
\* The process stops only when the JVM has crashed.
CHECK_DEADLOCK FALSE
