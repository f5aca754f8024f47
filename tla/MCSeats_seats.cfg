\* One table for two, three users and a bot; or three tables and two users.
CONSTANTS
    u1 = u1  u2 = u2  u3 = u3
    t1 = t1  t2 = t2  t3 = t3
    b1 = b1
    Users = {u1, u2, u3}
    Bots = {b1}
    Tables = {t1, t2, t3}
    None = None
    MinPlayers = 1
    MaxPlayers = 2
    Spectating = {u1, u2, u3}
    MaxJoins = 2
SPECIFICATION MCSpec
SYMMETRY SeatSymmetry
\* Nobody may be online and every table be gone.
CHECK_DEADLOCK FALSE
INVARIANTS TypeOK SeatControl SeatingSound OneTable ScreenAgrees
PROPERTIES FirstSeatKept NoZombie
