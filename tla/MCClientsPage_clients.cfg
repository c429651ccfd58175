SPECIFICATION ClientsSpec
CONSTANTS
    e1 = e1
    e2 = e2
    e3 = e3
    tagged = tagged
    plain = plain
    Ids = {1, 2, 3}
    Emails <- MCEmails
    Subs = {1, 2, 3}
    Inbounds <- MCInbounds
    Mtproto <- MCMtproto
    FlowCapable <- MCPlain
    Long <- MCPlain
    Slots = {1, 2}
    NoClient = NoClient
    FirstClients <- MCTables
    MaxOps = 3
PROPERTIES
    EditsRowShown
    UntouchedKept
    
CHECK_DEADLOCK FALSE
