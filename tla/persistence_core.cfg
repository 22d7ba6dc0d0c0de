SPECIFICATION PartSpec
CONSTANTS
    pay = pay
    propose = propose
    invoice = invoice
    storeA = storeA
    storeB = storeB
    merchants = merchants
    payments = payments
    policyOs = policyOs
    agentRuntime = agentRuntime
    Request <- Requests
    Key <- Keys
    KeyOf <- KeyTaken
    Part <- Parts
    Tables <- TableOrder
    Direct <- DirectParts
    Fresh <- FreshParts
    AutoCreate = TRUE
    SaveQueue = SaveQueue
    None = None
    MaxFailures = 2
    MaxCrashes = 1
    Write = {payment, callback}
    Locked = {payment}
    MaxAttempts = 3
    MaxCutovers = 2
    MaxCutoverFailures = 1
    MaxRestarts = 1
    MaxQueue = 1
    Limits = {0, 1, 2, 3}
    windowMs = 3
    MaxClock = 6
    MaxCalls = 7
INVARIANTS
    StoreInvariant
    
    QuotaInvariant
PROPERTIES
    OnlyOtherGraphsLoseRows
    StoreFlushReturns
CHECK_DEADLOCK FALSE
