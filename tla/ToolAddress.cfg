SPECIFICATION TSpec
CONSTANTS
  c1 = c1  c2 = c2
  None = None  Invalid = Invalid  Replacement = Replacement
  Call = {c1, c2}
  Target <- AnyTarget
  Secret <- MCSecret
  Output <- MCOutput
  Allowlist <- AnyHost
  AddressOf <- AnyAddressOf
  Prefix <- MCPrefix
  Environment <- MCEnvironment
  Stack <- MCStack
  AllowPrivate = FALSE
  HasBroker = TRUE
  MaxBody = 1
  Word = 16
  MaxMemory = 1
  Timeout = 2
  Tick = 1
  MaxHostCalls = 1
INVARIANT LiteralsAreRefused
