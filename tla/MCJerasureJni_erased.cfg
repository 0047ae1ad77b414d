\* One thread; the JVM always copies; erasure lists may be too long.
CONSTANTS
  Threads    = {t1}
  IntArrays  = {i1, i2}
  ByteArrays = {b1, b2, b3}
  BoolArrays = {z1}
  K = 2
  M = 1
  MaxGen = 2
  WordSizes = {1, 2}
  GetMayFail = FALSE
  NewMayFail = FALSE
  NULL = NULL
  Methods <- JerasureMethods
SPECIFICATION Spec
INVARIANT NoNativeCrash
CHECK_DEADLOCK FALSE
