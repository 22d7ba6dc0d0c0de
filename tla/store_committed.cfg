SPECIFICATION Spec
CONSTANTS
    pay = pay
    propose = propose
    invoice = invoice
    storeA = storeA
    storeB = storeB
    merchants = merchants
    payments = payments
    policyOs = policyOs
    agentRuntime = agentRuntime
    Request <- Requests
    Key <- Keys
    KeyOf <- KeyTaken
    Part <- Parts
    Tables <- TableOrder
    Direct <- DirectParts
    Fresh <- FreshParts
    AutoCreate = TRUE
    SaveQueue = SaveQueue
    None = None
    MaxFailures = 2
    MaxCrashes = 1
INVARIANT CommittedStays
CHECK_DEADLOCK FALSE
