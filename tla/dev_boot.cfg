CONSTANTS
  k1 = k1  k2 = k2  m1 = m1  m2 = m2
  Keys = {k1, k2}
  Msgs = {m1, m2}
  BigMsgs = {}
  ResponseBufLen = 65536
  TrngMayFail = FALSE
  None = None
  PARAM_SETS = {"128f", "192f", "256f"}
  KillsAt = {"write_sec", "writing_sec", "write_pub", "writing_pub", "listening"}
SPECIFICATION CliSpec
SYMMETRY Symmetry
INVARIANTS
  TypeOK
  WholeKeyMatches
  InvalidForAReason
PROPERTIES
  KeyStable
  VerifiedPairServes
