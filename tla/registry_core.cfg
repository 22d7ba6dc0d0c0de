SPECIFICATION RegistrySpec
CONSTANTS
  k1 = k1
  Merchants = {m1, m2}
  PolicyKeys = {k1}
  DraftIds = {d1, d2}
  ApprovalIds = {a1, a2}
  NoApproval = NoApproval
  NoPolicy = NoPolicy
  Specs <- MCSpecs
  MinApprovalTtl = 1
  MaxNow = 4
SYMMETRY Symmetry
INVARIANTS
  RegistryTypeOK
  ListsAreExact
  PoliciesApproved
  ServedAlive
PROPERTIES
  PolicyHistory
