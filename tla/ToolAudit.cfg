SPECIFICATION TSpec
CONSTANTS
  c1 = c1  c2 = c2
  None = None  Invalid = Invalid  Replacement = Replacement
  Call = {c1, c2}
  Target <- MCTarget
  Secret <- MCSecret
  Output <- MCOutput
  Allowlist <- MCAllowlist
  AddressOf <- MCAddressOf
  Prefix <- MCPrefix
  Environment <- MCEnvironment
  Stack <- MCStack
  AllowPrivate = FALSE
  HasBroker = TRUE
  MaxBody = 1
  Word = 16
  MaxMemory = 2
  Timeout = 2
  Tick = 1
  MaxHostCalls = 1
INVARIANT AttemptsAreRecorded
