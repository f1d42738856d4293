SPECIFICATION Spec
CONSTANTS
  None = None
  WordBits = 8
  CtxBound = 4
  P <- Small
  Digests <- SomeDigests
INVARIANTS
  HonestVerifies
  OnlyHonestVerifies
  ChecksumGuards
  OneTimeKeysSignOnce
  AddressesSeparate
  DigitsExact
  ParametersFit
  ContextsSeparate
