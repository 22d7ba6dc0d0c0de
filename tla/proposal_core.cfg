SPECIFICATION Spec
CONSTANTS
  k1 = k1
  k2 = k2
  t1 = t1
  rev = rev
  Merchants = {m1}
  PolicyKeys = {k1, k2}
  DraftIds = {d1, d2}
  ApprovalIds = {a1, a2}
  NoApproval = NoApproval
  NoPolicy = NoPolicy
  NeverEvaluated = NeverEvaluated
  Specs <- MCSpecs
  MinApprovalTtl = 1
  Templates = {t1, rev}
  TemplateSpec <- BothTemplates
  RevenueTemplate = rev
  ProposalIds = {i1, i2}
  EvaluationMaxAge = 1
  MaxNow = 2
SYMMETRY Symmetry
INVARIANTS
  ProposalInvariant
PROPERTIES
  DecisionsFinal
  PublishedOnFreshEvaluation
  EnabledAlone
