SPECIFICATION MCSpec
CONSTANTS
    u1 = u1
    u2 = u2
    e1 = e1
    e2 = e2
    Users <- MCUsers
    Amount = 100
    Refunds <- MCRefunds
    Kinds <- MCKinds
    MaxPayments = 3
    MaxDecisions = 4
    MaxAudit = 2
    MaxClock = 3
    Window = 2
    Trend = 1
    TenantGate <- SmallSample
    Cap = 3
    Asked = 4
    Ids <- MCIds
    Bucket <- Buckets
    Patches <- MCPatches
    HistoryKept = 2
    MaxChanges = 3
CHECK_DEADLOCK FALSE
INVARIANTS GateInvariant PagesAreNewest ExperimentInvariant
