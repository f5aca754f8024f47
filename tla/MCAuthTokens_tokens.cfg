\* One device whose answers get lost, come late or overtake each other; or two that
\* ask one thing at a time and retry within the grace window.
CONSTANTS
    d1 = d1
    d2 = d2
    u1 = u1
    Users = {u1}
    Devices = {d1, d2}
    None = None
    Grace = 1
    AccessTTL = 1
    RefreshTTL = 2
    MaxSessions = 2
    MaxFlight = 2
    Punctual = FALSE
    Bannable = {u1}
    MaxTokens = 3
    MaxTime = 3
    Hurried = 2
SPECIFICATION MCSpec
INVARIANTS TypeOK OneLiveTip CutIsFinal SessionsSound HonestKeepsToken
PROPERTIES RevokedIsFinal
