\* A ban overtakes a login that has read the account's record already.
CONSTANTS
    c1 = c1  c2 = c2  c3 = c3  c4 = c4
    u1 = u1  u2 = u2
    Clients = {c1, c2}
    Users = {u1}
    None = None
    Bot = Bot
    BotNames = {}
    Bannable = {u1}
    MaxConnections = 2
    MaxAuth = 1
SPECIFICATION Spec
\* Every connection may have come and gone and every account be offline.
CHECK_DEADLOCK FALSE
INVARIANTS BannedCannotAct
