SPECIFICATION Spec
CONSTANTS
    Session = {s1, s2, s3, s4}
    User = {u1, u2}
    PartyName = {n1, n2}
    NoSession = NoSession
    NoUser = NoUser
    MaxUser = 2
    FirstPartyId = 1
    MaxParties = 3
    MaxCopies = 2
CHECK_DEADLOCK FALSE
INVARIANTS NoDuplicateMembership
