\* Two Java threads running the region operations of JGalois.cpp and the
\* methods of JReedSolomon.cpp concurrently; every copy succeeds.
CONSTANTS
  Threads    = {t1, t2}
  IntArrays  = {i1}
  ByteArrays = {b1, b2, b3, b4}
  BoolArrays = {z1}
  K = 1
  M = 1
  MaxGen = 2
  WordSizes = {1, 2}
  GetMayFail = FALSE
  NewMayFail = TRUE
  NULL = NULL
  Methods <- GaloisRSMethods
SPECIFICATION Spec
INVARIANTS NoPinLeak CallOutcomeReported OutputsPublished
\* The process stops only when the JVM has crashed.
CHECK_DEADLOCK FALSE
SYMMETRY Symmetry
