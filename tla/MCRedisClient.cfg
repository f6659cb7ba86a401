SPECIFICATION FairSpec
CONSTANTS
    Caller = {c, p}
    Pipelining = {p}
    Command = {"get"}
    ConnNum = 2
INVARIANTS ReloadIsExclusive AnswersAreHonest
PROPERTIES RefreshRecovers DestructorEnds
CHECK_DEADLOCK FALSE
