SPECIFICATION FairSpec
CONSTANTS
    Worker = {w1, w2, w3}
    Call = {c1, c2, c3}
    None = None
INVARIANTS SomebodyComes EndedIsDrained
PROPERTIES ImplementsJobQueue JobsEnd
CHECK_DEADLOCK FALSE
