\* One thread; the JVM may fail to copy any array.
CONSTANTS
  Threads    = {t1}
  IntArrays  = {i1, i2}
  ByteArrays = {b1, b2, b3}
  BoolArrays = {z1}
  K = 2
  M = 1
  MaxGen = 2
  WordSizes = {1, 2}
  GetMayFail = TRUE
  NewMayFail = FALSE
  NULL = NULL
  Methods <- FailedGetMethods
SPECIFICATION Spec
INVARIANT NoCrashOnFailedGet
CHECK_DEADLOCK FALSE
