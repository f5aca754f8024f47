SPECIFICATION MCSpec
CONSTANTS
    b1 = b1
    b2 = b2
    p1 = p1
    Bots = {b1, b2}
    People = {p1}
    Namesakes = {b1}
    Tables = {t1, t2}
    None = None
    MinPlayers = 2
    MaxPlayers = 2
    MaxTables = 1
    RuleSets <- MCRuleSets
    Hosts = {b2}
    RuleMax = 2
    MaxRestarts = 1
    Users = {p1, b1}
    Conns = {k1, k2, k3}
    MaxQueue = 2
INVARIANTS ServicesTypeOK OnlineTogether SeatHeld BotTableLimit VoiceOfMembers ScreenFollows
PROPERTIES BotsMoveOn BotTableCloses
\* The parts may come to an end: tables and connections are used once.
CHECK_DEADLOCK FALSE
