SPECIFICATION Spec
CONSTANTS
  net = net  uses = uses
  l0 = l0  l1 = l1  l2 = l2  l3 = l3
  Resource = {net, uses}
  MaxAmount <- MCMaxAmount
  LeaseId = {l0, l1, l2, l3}
  Root = l0
  Grant <- MCGrant
  NoParent = NoParent
  Charges <- MCCharges
SYMMETRY ChildSymmetry
INVARIANTS TypeOK SpentWithinGrant ConsumedIsAccountedFor
PROPERTY RevokedIsFinal
CHECK_DEADLOCK FALSE
