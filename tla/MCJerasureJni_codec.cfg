\* Two Java threads encoding and decoding device sets concurrently; the
\* JVM always manages to copy an array.
CONSTANTS
  Threads    = {t1, t2}
  IntArrays  = {i1, i2}
  ByteArrays = {b1, b2, b3, b4}
  BoolArrays = {z1}
  K = 1
  M = 1
  MaxGen = 2
  WordSizes = {1, 2}
  GetMayFail = FALSE
  NewMayFail = FALSE
  NULL = NULL
  Methods <- CodecMethods
SPECIFICATION Spec
INVARIANTS TypeOK NoPinLeak CallOutcomeReported
\* The process stops only when the JVM has crashed.
CHECK_DEADLOCK FALSE
SYMMETRY Symmetry
