CONSTANTS
  k1 = k1  k2 = k2  k3 = k3
  Keys = {k1, k2, k3}
  Msgs = {}
  BigMsgs = {}
  ResponseBufLen = 65536
  TrngMayFail = FALSE
  None = None
  PARAM_SETS = {"192f"}
  CutsAt = {"boot", "write", "running", "panicked"}
SPECIFICATION Spec
INVARIANTS
  PublicKeyMatches
