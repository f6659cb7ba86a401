SPECIFICATION Spec
CONSTANTS
    User = {u1, u2}
    Failing = {"statement", "begin", "commit"}
    MaxRows = 2
SYMMETRY Symmetry
INVARIANTS AcceptedAreFriends OneRequestBetween SuccessIsSaved NothingLeftOpen
PROPERTIES ImplementsFriendRequests
