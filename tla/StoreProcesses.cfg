SPECIFICATION SSpec
CONSTANTS
  p1 = p1  p2 = p2  k1 = k1  k2 = k2  work = work  tool = tool  altered = altered
  None = None  Stranger = Stranger  Unreadable = Unreadable  Misshapen = Misshapen
  Absent = Absent  Malformed = Malformed
  Process = {p1, p2}
  Key = {k1, k2}
  Version = {1}
  Format = {0, 1}
  Tool = {tool}
  Work = {work}
  Action <- MCAction
  Rule = {altered}
  Time = {0}
  Outside <- MCOutside
  Offered <- MCOffered
  MaxSigned = 2
  MaxFaults = 1
  MaxSafe = 12
  Inexact <- MCInexact
  Depth = 2
  Length = 2
  Octets = {0, 1, 128, 255}
  Members = 1
  MaxCleaned = 1
  MaxPasses = 1
SYMMETRY MCSymmetry
CHECK_DEADLOCK FALSE
INVARIANTS STypeOK OneChain OneIssuer NoFalseAlarm VerifiedRowsAreSigned AckedIsServed MirrorAgrees ClientsAgree TokenAdmits EncodersAgree
PROPERTIES RowsAreForever
