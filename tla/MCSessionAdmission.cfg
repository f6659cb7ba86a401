SPECIFICATION Spec
CONSTANTS
    u1 = u1
    u2 = u2
    u3 = u3
    k1 = k1
    k2 = k2
    k3 = k3
    NoSession = NoSession
    NoUser = NoUser
    Session = {s1, s2, s3}
    User = {u1, u2, u3}
    SessionKey = {k1, k2, k3}
    KeyOwner <- MCKeyOwner
    MaxUser = 2
    MaxMsg = 2
SYMMETRY Symmetry
INVARIANTS OneSessionPerUser WithinCapacity 
PROPERTIES DroppedOnlyIfClosed StallIsForever ImplementsOnlineUsers
CHECK_DEADLOCK FALSE
