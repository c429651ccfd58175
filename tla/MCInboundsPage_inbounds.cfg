SPECIFICATION Spec
CONSTANTS
    bridge = bridge
    page1 = page1
    a = a
    d = d
    Conns = {bridge, page1}
    Hears <- MCHears
    Sockets = {1, 2}
    MaxQueue = 1
    Rows = {1, 2, 3}
    Keyed = {1, 3}
    Remade = {2}
    Hosts = {1}
    Mails = {a}
    Dests = {d}
    Gone = Gone
    FirstRows <- MCFirst
    Budgets <- MCBudgets
INVARIANTS
    SingleSocket
    NeverStranded
    RowsOfList
PROPERTIES
    KeysSurvive
CHECK_DEADLOCK FALSE
