SPECIFICATION Spec
CONSTANTS
    chief = chief
    clerk = clerk
    guest = guest
    s1 = s1
    m1 = m1
    m2 = m2
    c1 = c1
    c2 = c2
    p2 = p2
    i1 = i1
    i2 = i2
    Staff <- MCStaff
    Owners <- MCOwners
    Managers <- MCManagers
    Users <- MCUsers
    Categories <- Cats
    ApprovalTodo = "APPROVAL_TODO"
    ExecutionResult = "EXECUTION_RESULT"
    FeedbackTicket = "FEEDBACK_TICKET"
    SwitchPatches <- Switch
    CapPatches <- CapsAsked
    DefaultCap <- OneInOne
    Retention = 1
    PageSize = 1
    Sockets = {s1}
    Holder <- ChiefHolds
    MaxTime = 3
    MaxEmits = 3
    MaxCalls = 3
    MaxTickets = 2
    Merchants = {m1, m2}
    Messages = {d1, d2}
    Clients = {c1, c2}
    Merchant <- OneClientEach
    MaxDispatches = 4
    MaxCrashes = 1
    MaxConnects = 3
    Stores = {m1, m2}
    Phones = {p1, p2}
    CodeTtl = 1
    TokenTtl = 1
    MaxCodes = 3
    MaxTokens = 2
    MaxClock = 2
    MaxApplications = 2
    NoUser = nobody
    WeChat = {i1}
    Alipay = {i2}
    ProviderPhone <- AlipayTells
    MaxLogins = 3
    MaxPayments = 1
    MaxOps = 2
    Limit = 3
    Never = 99
    MaxDay = 5
    MaxEntries = 6
INVARIANTS
    InboxInvariant
    BroadcastInvariant
    OwnersInvariant
    CustomersInvariant
    EntryFactsTrue
PROPERTIES
    DotsCatchUp
CHECK_DEADLOCK FALSE
