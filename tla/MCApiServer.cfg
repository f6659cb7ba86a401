SPECIFICATION Spec
CONSTANTS
    ann = ann
    secret = secret
    guess = guess
    r1 = r1
    r2 = r2
    r3 = r3
    Request = {r1, r2, r3}
    Login = {r1, r2, r3}
    User = {ann}
    Password = {secret, guess}
    Null = Null
    NoSession = NoSession
    Text = Text
    Existing <- Tables
    Lines <- SomeLines
    UniqueUserId = FALSE
    PasswordRequired = FALSE
INVARIANTS TypeOK CreatedIsStored AccountNamesItsSession ChatNeedsSession ContextIsFreed
 
SYMMETRY Symmetry
CHECK_DEADLOCK FALSE
