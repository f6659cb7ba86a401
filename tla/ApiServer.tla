------------------------------ MODULE ApiServer ------------------------------
(***************************************************************************)
(* The API server and the menu of the chat client that calls it.  Requests *)
(* run concurrently; every await is a point where others go on, so each    *)
(* handler is a sequence of steps, begun and ended by database calls:      *)
(*                                                                         *)
(*   create: check, add, save          get:   read                         *)
(*   update, delete: validate, load, assign, save                          *)
(*   login: validate, look up the account's session, store the new one     *)
(*                                                                         *)
(* A request is posted once, by a client that waits for its answer.        *)
(***************************************************************************)
EXTENDS EntityContext, SessionCache, WireFormat

CONSTANTS
    Text        \* a message text, user name or address that is not empty

\* Any request may log in; ids are numbers and told from requests.
ASSUME ApiServerAssumption ==
    /\ Login = Request
    /\ Request \cap Nat = {}

VARIABLES
    req,        \* per request: the handler's place and variables
    answer,     \* per request: HTTP status and body of the response
    client      \* per request: where its client is

vars == <<contextVars, cacheVars, req, answer, client>>

\* What a request asks for: the command and the body of the post, or the
\* parameter of the get.
Posted(kind, class, message) == [kind |-> kind, body |-> Serialize(class, message)]

NewPassword == Password \cup {NoText}

\* The texts GetUserInput reads are not empty; other clients may leave the
\* fields of an update empty.
Commands ==
    {Posted("get", GetUserRequest, GetUserRequestOf(u, NoText, NoText)) : u \in User}
        \cup {Posted("create", CreateUserRequest, CreateUserRequestOf(u, p, Text, Text)) :
                  u \in User, p \in Password}
        \cup {Posted("login", LoginRequest, LoginRequestOf(u, p)) :
                  u \in User, p \in Password}
        \cup {Posted("update", UpdateUserRequest, UpdateUserRequestOf(u, p, q, Text, Text)) :
                  u \in User, p \in Password, q \in NewPassword}
        \cup {Posted("delete", DeleteUserRequest, DeleteUserRequestOf(u, p)) :
                  u \in User, p \in Password}

NoCommand == [kind |-> "none", body |-> <<>>]

\* dto: of the row that was validated, what the handler goes on with.
Idle == [at |-> "idle", command |-> NoCommand, id |-> 0,
         validated |-> Null, found |-> NoSession]

kind(r) == req[r].command.kind

ClassOf(k) ==
    CASE k = "get" -> GetUserRequest
      [] k = "create" -> CreateUserRequest
      [] k = "login" -> LoginRequest
      [] k = "update" -> UpdateUserRequest
      [] k = "delete" -> DeleteUserRequest

\* The request as the input formatter reads it.
message(r) == Parse(ClassOf(kind(r)), req[r].command.body)

user(r) == message(r).userId
password(r) == message(r).password
newPassword(r) == message(r).toBePassword

NoAnswer == [code |-> 0, body |-> <<>>]

Places == {"idle", "begin", "reading", "validated", "loading", "loaded", "added",
           "saving", "found", "end"}

TypeOK ==
    /\ ContextTypeOK /\ CacheTypeOK
    /\ \A r \in Request : req[r].at \in Places /\ req[r].command \in Commands \cup {NoCommand}
    /\ \A r \in Request : answer[r].code \in {0, 200, 400, 404, 500}
    /\ client \in [Request -> {"idle", "waiting", "menu", "failed", "chat", "terminated"}]

Init ==
    /\ ContextInit /\ CacheInit
    /\ req = [r \in Request |-> Idle]
    /\ answer = [r \in Request |-> NoAnswer]
    /\ client = [r \in Request |-> "idle"]

At(r, place) == req[r].at = place

Goes(r, place) == req' = [req EXCEPT ![r].at = place]

-----------------------------------------------------------------------------
(* Answers *)

Answers(r, code, body) ==
    /\ Goes(r, "end")
    /\ answer' = [answer EXCEPT ![r] = [code |-> code, body |-> body]]

Succeeds(r, content) ==
    Answers(r, 200, Serialize(UserResponse, UserResponseOf(Success, Text, content)))

\* GlobalExceptionFilter.
Throws(r, code) == Answers(r, code, Serialize(UserErrorResponse, UserErrorResponseOf(Text)))

UserNotFoundException == 404
UserValidationException == 400
Unexpected == 500

\* A status other than Success makes the service throw.
Rejected(r) ==
    Throws(r, IF kind(r) \in {"get", "delete"} THEN UserNotFoundException
                                               ELSE UserValidationException)

\* Mutant of the next definition: the exception is swallowed.
ReportedAsSaved(r) == Succeeds(r, NoContent)

NotSaved(r) == Throws(r, UserValidationException)

-----------------------------------------------------------------------------
(* The client *)

\* HttpClient::Post and Get.
Send(r) ==
    /\ client[r] = "idle"
    /\ \E c \in Commands :
        req' = [req EXCEPT ![r].at = "begin", ![r].command = c]
    /\ client' = [client EXCEPT ![r] = "waiting"]
    /\ UNCHANGED <<contextVars, cacheVars, answer>>

\* HttpClient ends its process when it has no connection or loses it.
HttpFails(r) ==
    /\ client[r] = "waiting"
    /\ client' = [client EXCEPT ![r] = "terminated"]
    /\ UNCHANGED <<contextVars, cacheVars, req, answer>>

\* Mutant of the next definition: the content is not looked at.
OutcomeUnchecked(command, response) ==
    IF command = "login" /\ response.status = Success THEN "chat" ELSE "menu"

\* What HandleMenuChoice does with the response.
Outcome(command, response) ==
    IF command # "login" THEN "menu"
    ELSE IF response.status # Success THEN "failed"
    ELSE IF UnpacksTo(response.content, "LoginResponse") THEN "chat"
    ELSE "menu"

\* ParseResponse takes every body for a UserResponse.
Receive(r) ==
    /\ client[r] = "waiting"
    /\ At(r, "end")
    /\ client' = [client EXCEPT ![r] =
                      Outcome(kind(r), Parse(UserResponse, answer[r].body))]
    /\ UNCHANGED <<contextVars, cacheVars, req, answer>>

\* The session id StartChatClient is called with.
ChatSession(r) ==
    Parse(LoginResponse, Parse(UserResponse, answer[r].body).content.fields).sessionId

-----------------------------------------------------------------------------
(* The first query of a handler, outside of any try block *)

BeginRead(r) ==
    /\ At(r, "begin")
    /\ Begin(r) /\ Goes(r, "reading")
    /\ UNCHANGED <<table, tracked, saving, cacheVars, answer, client>>

\* A second operation was started on this context.
ContextInUse(r) == busy # Null /\ UNCHANGED contextVars

ReadThrows(r) ==
    /\ \/ At(r, "begin") /\ ContextInUse(r)
       \/ At(r, "reading") /\ Fails(r)
    /\ Throws(r, Unexpected)
    /\ UNCHANGED <<cacheVars, client>>

\* The row of the request's user; SingleOrDefaultAsync throws if there are two.
TheRow(r, id) == RowsOf(user(r)) = {id}

NoRow(r) == RowsOf(user(r)) = {}

Alive(id) == table[id].alive

\* CreateUser with a user id that is taken; the query tracks the row.
FindTaken(r) ==
    /\ At(r, "reading") /\ kind(r) = "create"
    /\ \E id \in DOMAIN table : TheRow(r, id) /\ tracked' = Loaded({id})
    /\ End(r) /\ Rejected(r)
    /\ UNCHANGED <<table, saving, cacheVars, client>>

AddUser(r) ==
    /\ At(r, "reading") /\ kind(r) = "create"
    /\ NoRow(r)
    /\ tracked' = Added(r, [user |-> user(r), password |-> password(r), alive |-> TRUE])
    /\ End(r) /\ Goes(r, "added")
    /\ UNCHANGED <<table, saving, cacheVars, answer, client>>

\* Two rows of the user, or one whose password cannot be read.
ReadUnusable(r) ==
    /\ At(r, "reading")
    /\ \/ Cardinality(RowsOf(user(r))) > 1
       \/ kind(r) # "create" /\ \E id \in RowsOf(user(r)) : table[id].password = Null
    /\ tracked' = IF kind(r) = "create" THEN Loaded(RowsOf(user(r))) ELSE tracked
    /\ End(r) /\ Throws(r, Unexpected)
    /\ UNCHANGED <<table, saving, cacheVars, client>>

GetUserFromUserid(r) ==
    /\ At(r, "reading") /\ kind(r) = "get"
    /\ \E id \in DOMAIN table :
        /\ TheRow(r, id) /\ Alive(id) /\ table[id].password # Null
        /\ Succeeds(r, Pack("GetUserResponse",
                            Serialize(GetUserResponse,
                                      GetUserResponseOf(user(r), Text, Text))))
    /\ End(r)
    /\ UNCHANGED <<table, tracked, saving, cacheVars, client>>

\* Mutant of the next definition: any password will do.
AcceptPassword(r, id) == TRUE

VerifyPassword(r, id) == table[id].password = password(r)

ValidateUserCredentials(r) ==
    /\ At(r, "reading") /\ kind(r) \in {"login", "update", "delete"}
    /\ \E id \in DOMAIN table :
        /\ TheRow(r, id) /\ Alive(id) /\ VerifyPassword(r, id)
        /\ req' = [req EXCEPT ![r].at = "validated", ![r].id = id,
                              ![r].validated = table[id].password]
    /\ End(r)
    /\ UNCHANGED <<table, tracked, saving, cacheVars, answer, client>>

\* No user, a deleted one or a wrong password.
Refuse(r) ==
    /\ At(r, "reading") /\ kind(r) # "create"
    /\ \/ NoRow(r)
       \/ \E id \in DOMAIN table :
            /\ TheRow(r, id) /\ table[id].password # Null
            /\ \/ ~Alive(id)
               \/ kind(r) # "get" /\ ~VerifyPassword(r, id)
    /\ End(r) /\ Rejected(r)
    /\ UNCHANGED <<table, tracked, saving, cacheVars, client>>

-----------------------------------------------------------------------------
(* UpdateUser and DeleteUser, inside their try blocks *)

BeginLoad(r) ==
    /\ At(r, "validated") /\ kind(r) \in {"update", "delete"}
    /\ Begin(r) /\ Goes(r, "loading")
    /\ UNCHANGED <<table, tracked, saving, cacheVars, answer, client>>

\* A user whose one row was validated has one row: all rows of a user that
\* several requests add are written together.
Load(r) ==
    /\ At(r, "loading")
    /\ TheRow(r, req[r].id)
    /\ tracked' = Loaded({req[r].id})
    /\ End(r) /\ Goes(r, "loaded")
    /\ UNCHANGED <<table, saving, cacheVars, answer, client>>

LoadThrows(r) ==
    /\ \/ At(r, "validated") /\ kind(r) \in {"update", "delete"} /\ ContextInUse(r)
       \/ At(r, "loading") /\ Fails(r)
    /\ NotSaved(r)
    /\ UNCHANGED <<cacheVars, client>>

\* Mutant of the next definition: an empty text is stored as it is.
KeepPassword(p) == p

\* The password of an update that names none: the dto has no password yet.
HashPassword(p) == IF p = NoText THEN Null ELSE p

\* An update writes the whole dto, the state of the user as it was validated.
Assign(r) ==
    /\ At(r, "loaded")
    /\ LET row == tracked[req[r].id].row IN
       tracked' = Updated(req[r].id,
           IF kind(r) = "delete" THEN [row EXCEPT !.alive = FALSE]
           ELSE [row EXCEPT !.password = HashPassword(newPassword(r)), !.alive = TRUE])
    /\ Goes(r, "added")
    /\ UNCHANGED <<table, busy, saving, cacheVars, answer, client>>

-----------------------------------------------------------------------------
(* SaveChangesAsync of CreateUser, UpdateUser and DeleteUser *)

\* Mutant of the next definition: SaveChangesAsync is not awaited.
SaveUnawaited(r) ==
    /\ At(r, "added")
    /\ BeginSave(r) /\ Succeeds(r, NoContent)
    /\ UNCHANGED <<cacheVars, client>>

SaveChanges(r) ==
    /\ At(r, "added")
    /\ BeginSave(r) /\ Goes(r, "saving")
    /\ UNCHANGED <<cacheVars, answer, client>>

Saved(r) ==
    /\ At(r, "saving")
    /\ SaveSucceeds(r)
    /\ Succeeds(r, IF kind(r) = "create"
                     THEN Pack("CreateUserRequest", req[r].command.body) ELSE NoContent)
    /\ UNCHANGED <<cacheVars, client>>

SaveThrows(r) ==
    /\ \/ At(r, "added") /\ ContextInUse(r)
       \/ At(r, "saving") /\ Fails(r)
    /\ NotSaved(r)
    /\ UNCHANGED <<cacheVars, client>>

-----------------------------------------------------------------------------
(* CreateSession of LoginUser *)

LookUp(r) ==
    /\ At(r, "validated") /\ kind(r) = "login"
    /\ req' = [req EXCEPT ![r].at = "found", ![r].found = Found(req[r].id)]
    /\ UNCHANGED <<contextVars, cacheVars, answer, client>>

CreateSession(r) ==
    /\ At(r, "found")
    /\ Committed(r, req[r].id, req[r].found)
    /\ Succeeds(r, Pack("LoginResponse",
                        Serialize(LoginResponse, LoginResponseOf(Text, Text, r))))
    /\ UNCHANGED <<contextVars, client>>

\* A condition fails, Redis is not reached, or its reply is lost.
CreateSessionFails(r) ==
    /\ \/ At(r, "validated") /\ kind(r) = "login" /\ UNCHANGED cacheVars
       \/ At(r, "found") /\ UNCHANGED cacheVars
       \/ At(r, "found") /\ Committed(r, req[r].id, req[r].found)
    /\ NotSaved(r)
    /\ UNCHANGED <<contextVars, client>>

-----------------------------------------------------------------------------
Handler(r) ==
    \/ BeginRead(r) \/ ReadThrows(r)
    \/ FindTaken(r) \/ AddUser(r) \/ ReadUnusable(r)
    \/ GetUserFromUserid(r) \/ ValidateUserCredentials(r) \/ Refuse(r)
    \/ BeginLoad(r) \/ Load(r) \/ LoadThrows(r) \/ Assign(r)
    \/ SaveChanges(r) \/ Saved(r) \/ SaveThrows(r)
    \/ LookUp(r) \/ CreateSession(r) \/ CreateSessionFails(r)

KeysExpire == \E s \in Login : Expire(s) /\ UNCHANGED <<contextVars, req, answer, client>>

Next ==
    \/ \E r \in Request : Send(r) \/ HttpFails(r) \/ Receive(r) \/ Handler(r)
    \/ KeysExpire

Spec == Init /\ [][Next]_vars

-----------------------------------------------------------------------------
(* Properties *)

Granted(r) == answer[r].code = 200

\* A create that is answered with success (UserRepositoryFromMysql.cs:43-47) is
\* in the table, also when another request's SaveChangesAsync wrote it.
CreatedIsStored ==
    \A r \in Request :
        Granted(r) /\ kind(r) = "create" => \E id \in RowsOf(user(r)) : TRUE

\* A password changes only to what an update asked for, a user is deleted only
\* if a delete asked for it, and both only with the password the row had
\* (UserWriteService.cs:104-106, 148-150), although requests share entities
\* and write each other's changes.
RowsChangeAsAsked ==
    [][\A id \in DOMAIN table :
        LET asked(r) == req[r].id = id /\ req[r].validated = password(r) IN
        /\ table'[id].password # table[id].password =>
              \E r \in Request : /\ asked(r) /\ kind(r) = "update"
                                 /\ table'[id].password = HashPassword(newPassword(r))
        /\ table[id].alive /\ ~table'[id].alive =>
              \E r \in Request : asked(r) /\ kind(r) = "delete"]_vars

\* The session an account key names is there and is this account's
\* (CacheRepositoryFromRedis.cs:44-50, 62-67), however logins overlap.
AccountNamesItsSession ==
    \A id \in DOMAIN account :
        account[id] \in DOMAIN session /\ session[account[id]] = id

\* The chat starts only with a session id that the server made for this login
\* and an account whose password was given (Client.cpp:91-100): an error
\* response read as a UserResponse never starts it.
ChatNeedsSession ==
    \A r \in Request :
        client[r] = "chat" => ChatSession(r) = r /\ req[r].validated = password(r)

\* However requests collide on the context and whatever fails, the request
\* that holds it is about to give it back.
ContextIsFreed ==
    busy # Null => req[busy].at \in {"reading", "loading", "saving"}

\* README.md:296, CreateSession: a session that exists is deleted before the new
\* one is stored, so an account has one session.
OneSessionPerAccount ==
    \A s, t \in DOMAIN session : session[s] = session[t] => s = t
=============================================================================
