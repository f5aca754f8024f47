\* A host who is watching leaves the lobby.
CONSTANTS
    u1 = u1  u2 = u2  u3 = u3
    t1 = t1  t2 = t2
    b1 = b1
    Users = {u1, u2}
    Bots = {}
    Tables = {t1}
    None = None
    MinPlayers = 2
    MaxPlayers = 2
    Spectating = {u1, u2}
    MaxJoins = 1
SPECIFICATION Spec
\* Nobody may be online and every table be gone.
CHECK_DEADLOCK FALSE
INVARIANTS HostSeated
