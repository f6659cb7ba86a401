SPECIFICATION FairSpec
CONSTANTS
    login = login
    answer = answer
    empty = empty
    hello = hello
    news = news
    Message = {login, answer, empty, hello, news}
    Size <- MCSize
    Garbage = Garbage
    Login = login
    Answer = answer
    Leftover = empty
    Line = {hello}
    Empty = {empty}
    Chatter = {news}
    None = None
    MaxLines = 2
    MaxLogins = 2
    MaxChatter = 1
INVARIANTS TypeOK IntactUnlessOverlapped QueuesKeepOrder FirstChatIsVerified
  
CHECK_DEADLOCK FALSE
