\* Somebody leaves a running game, joins it again and leaves again.
CONSTANTS
    u1 = u1  u2 = u2  u3 = u3
    t1 = t1  t2 = t2
    b1 = b1
    Users = {u1, u2}
    Bots = {}
    Tables = {t1}
    None = None
    MinPlayers = 2
    MaxPlayers = 2
    Spectating = {}
    MaxJoins = 2
SPECIFICATION Spec
\* Nobody may be online and every table be gone.
CHECK_DEADLOCK FALSE
PROPERTIES SeatKept
