SPECIFICATION PartSpec
CONSTANTS
    Task = {t1, t2}
    Op = {o1}
    Nothing = Nothing
    MAX_SESSION_MESSAGES = 2
    KEEP_SESSION_MESSAGES = 1
    MaxTokens = 1
    MaxWipes = 1
    MaxRestarts = 1
    Merchant = {m1, m2}
    None = None
    View = {"contract"}
    MaxLogins = 2
    MaxSends = 2
    MaxLaunches = 2
    MaxCalls = 3
    MaxStarts = 2
    MaxTaps = 2
INVARIANTS
    AgentInvariant
    MerchantAppInvariant
    CustomerAppInvariant
PROPERTIES
    NobodyWaitsForEver
CHECK_DEADLOCK FALSE
