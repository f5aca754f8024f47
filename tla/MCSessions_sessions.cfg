\* Three connections race for one account through two slots, or log in again and again.
CONSTANTS
    c1 = c1  c2 = c2  c3 = c3
    u1 = u1  u2 = u2
    Clients = {c1, c2, c3}
    Users = {u1}
    AgainClients = {c1, c2}
    AgainUsers = {u1, u2}
    AgainAuth = 3
    None = None
    Bot = Bot
    BotNames = {u1}
    Bannable = {u1}
    MaxConnections = 2
    MaxAuth = 1
SPECIFICATION MCSpec
\* Every connection may have come and gone and every account be offline.
CHECK_DEADLOCK FALSE
INVARIANTS TypeOK NoStrandedUser SingleSession IndexAgrees AgainPaired
PROPERTIES SessionRefinement LoginServed DeadReleased SlotFreed
