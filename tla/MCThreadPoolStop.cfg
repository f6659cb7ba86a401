SPECIFICATION FairSpec
CONSTANTS
    Worker = {w1, w2}
    Call = {c1, c2}
    None = None
PROPERTIES StoppingEnds
CHECK_DEADLOCK FALSE
