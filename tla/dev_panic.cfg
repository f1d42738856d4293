CONSTANTS
  p1 = p1  p2 = p2  t1 = t1  t2 = t2
  k1 = k1  k2 = k2  k3 = k3  m1 = m1  m2 = m2  big = big
  c1 = c1  c2 = c2  c3 = c3
  Keys = {k1, k2}
  Msgs = {m1}
  BigMsgs = {}
  ResponseBufLen = 65536
  TrngMayFail = FALSE
  None = None
  Conns = {c1, c2}
  Serial = FALSE
  SlowCommands = {}
  MaxFrames = 2
  Procs = {p1}
  Threads = {t1, t2}
  ProcOf <- OneProcess
  MaxSessions = 1
  Rooms = {35664}
  Templates = {}
  Calls = {"C_Initialize", "C_OpenSession", "C_CloseSession", "C_SignInit", "C_Sign"}
  Careful = FALSE
  PARAM_SETS = {"192f"}
SPECIFICATION Spec
INVARIANTS
  NoPanic
