SPECIFICATION FairSpec
CONSTANTS
    u1 = u1
    u2 = u2
    u3 = u3
    k1 = k1
    k2 = k2
    k3 = k3
    NoSession = NoSession
    NoUser = NoUser
    Session = {s1, s2}
    User = {u1, u2}
    SessionKey = {k1, k2}
    KeyOwner <- MCKeyOwner
    MaxUser = 2
    MaxMsg = 3
PROPERTIES WaitersHaveTheirTurn ServedIfUpdateReturns
CHECK_DEADLOCK FALSE
