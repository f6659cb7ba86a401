-------------------------- MODULE ApiServer_proofs --------------------------
(***************************************************************************)
(* Proofs about ApiServer for every set of requests, users and passwords   *)
(* and every table the server may find.                                    *)
(***************************************************************************)
EXTENDS ApiServer, FiniteSetTheorems, TLAPS

-----------------------------------------------------------------------------
(* The inductive invariants                                                *)

RequestState ==
    [at : Places, command : Commands \cup {NoCommand}, id : Nat,
     validated : Password \cup {Null}, found : Login \cup {NoSession}]

(***************************************************************************)
(* Types, and what the place of a handler says of its request.             *)
(***************************************************************************)
PlaceOf(r) ==
    /\ client[r] = "idle" => At(r, "idle")
    /\ ~At(r, "idle") => req[r].command \in Commands
    /\ req[r].at \in {"idle", "begin", "reading"} => req[r].id = 0
    /\ req[r].at \in {"validated", "loading", "loaded", "found"} =>
          req[r].id \in DOMAIN table /\ req[r].validated = password(r)
    /\ req[r].at \in {"loading", "loaded"} => kind(r) \in {"update", "delete"}
    /\ req[r].at \in {"added", "saving"} => kind(r) \in {"create", "update", "delete"}
    /\ At(r, "found") => kind(r) = "login"
    /\ req[r].found # NoSession => req[r].at \in {"found", "end"}
    /\ At(r, "loaded") => req[r].id \in DOMAIN tracked

TypeInv ==
    /\ TypeOK
    /\ req \in [Request -> RequestState]
    /\ DOMAIN answer = Request
    /\ IsFiniteSet(DOMAIN tracked)
    /\ \A r \in Request : PlaceOf(r)

(***************************************************************************)
(* A session is of a login that has ended, with the account of this login; *)
(* and so is the session a login found.                                    *)
(***************************************************************************)
OfLogin(s, id) == At(s, "end") /\ req[s].id = id

SessionsInv ==
    /\ AccountNamesItsSession
    /\ \A s \in DOMAIN session : OfLogin(s, session[s])
    /\ \A r \in Request : req[r].found # NoSession => OfLogin(req[r].found, req[r].id)

(***************************************************************************)
(* What the answer to a login can be.                                      *)
(***************************************************************************)
ErrorBody == Serialize(UserErrorResponse, UserErrorResponseOf(Text))

LoginContent(r) ==
    Pack("LoginResponse", Serialize(LoginResponse, LoginResponseOf(Text, Text, r)))

LoginBody(r) ==
    Serialize(UserResponse, UserResponseOf(Success, Text, LoginContent(r)))

AnswersInv ==
    \A r \in Request :
        /\ At(r, "end") /\ kind(r) = "login" =>
              \/ answer[r].body = ErrorBody
              \/ answer[r].body = LoginBody(r) /\ req[r].validated = password(r)
        /\ client[r] = "chat" =>
              /\ At(r, "end") /\ kind(r) = "login" /\ answer[r].body = LoginBody(r)
              /\ req[r].validated = password(r)

(***************************************************************************)
(* Entities of new rows are pending until they are saved; the user of a    *)
(* row is the same in the table, in the context and in what is being saved. *)
(***************************************************************************)
UsersInv ==
    /\ \A r \in DOMAIN tracked \cap Request :
          /\ tracked[r].state = "Added" /\ tracked[r].row.user = user(r)
          /\ req[r].at \in {"added", "saving", "end"}
    /\ \A r \in DOMAIN saving \cap Request : saving[r] = tracked[r].row
    /\ \A id \in DOMAIN tracked \cap Nat : tracked[id].row.user = table[id].user
    /\ \A id \in DOMAIN saving \cap Nat : saving[id].user = table[id].user

Stored(r) == RowsOf(user(r)) # {}

CreatesInv ==
    \A r \in Request :
        /\ Granted(r) => At(r, "end")
        /\ kind(r) = "create" =>
              /\ At(r, "added") => Stored(r) \/ r \in DOMAIN tracked
              /\ At(r, "saving") => busy = r /\ (Stored(r) \/ r \in DOMAIN saving)
              /\ Granted(r) => Stored(r)

(***************************************************************************)
(* The values of an entity differ from those being saved, and these from   *)
(* the row in the table, only by what was asked for.                       *)
(***************************************************************************)
Asked(r, id) == req[r].id = id /\ req[r].validated = password(r)

PasswordsAsked(id) ==
    {HashPassword(newPassword(r)) : r \in {q \in Request : Asked(q, id) /\ kind(q) = "update"}}

DeleteAsked(id) == \E r \in Request : Asked(r, id) /\ kind(r) = "delete"

ChangedAsAsked(id, old, new) ==
    /\ new.password # old.password => new.password \in PasswordsAsked(id)
    /\ old.alive /\ ~new.alive => DeleteAsked(id)

RowsInv ==
    \A id \in DOMAIN table :
        /\ id \in DOMAIN tracked => ChangedAsAsked(id, table[id], tracked[id].row)
        /\ id \in DOMAIN saving =>
              /\ ChangedAsAsked(id, table[id], saving[id])
              /\ ChangedAsAsked(id, saving[id], tracked[id].row)

-----------------------------------------------------------------------------
(* What is read of a message that was written                              *)

NamesDiffer(class) ==
    \A i, j \in DOMAIN class : class[i].name = class[j].name => i = j

(* A field, whether it is sent or at its default, is read as it was written. *)
LEMMA FieldReadBack ==
    ASSUME NEW class, NEW m, NamesDiffer(class), NEW n \in DOMAIN class
    PROVE  Parse(class, Serialize(class, m))[class[n].name] = m[class[n].name]
<1> DEFINE fields == Serialize(class, m)
           v == m[class[n].name]
<1>1. (CHOOSE i \in DOMAIN class : class[i].name = class[n].name) = n
  BY DEF NamesDiffer
<1>2. class[n].name \in {class[i].name : i \in DOMAIN class}
  OBVIOUS
<1>3. Parse(class, fields)[class[n].name] = Value(class, n, fields)
  BY <1>1, <1>2, Zenon DEF Parse
<1>4. Value(class, n, fields) = v
  <2>1. CASE v = Default(class[n].kind)
    <3>1. n \notin DOMAIN fields
      BY <2>1 DEF Serialize
    <3>2. QED
      BY <2>1, <3>1 DEF Value, Reads
  <2>2. CASE v # Default(class[n].kind)
    <3>1. /\ n \in DOMAIN fields
          /\ fields[n] = [type |-> WireType(class[n].kind), value |-> v]
      BY <2>2, Zenon DEF Serialize
    <3>2. fields[n].type = WireType(class[n].kind) /\ fields[n].value = v
      BY <3>1
    <3>3. QED
      BY <3>1, <3>2, Zenon DEF Value, Reads
  <2>3. QED
    BY <2>1, <2>2
<1>5. QED
  BY <1>3, <1>4

LEMMA ClassesNameFields ==
    /\ NamesDiffer(GetUserRequest) /\ NamesDiffer(CreateUserRequest)
    /\ NamesDiffer(LoginRequest) /\ NamesDiffer(UpdateUserRequest)
    /\ NamesDiffer(DeleteUserRequest)
    /\ NamesDiffer(UserResponse) /\ NamesDiffer(LoginResponse)
BY DEF NamesDiffer, GetUserRequest, CreateUserRequest, LoginRequest, UpdateUserRequest,
       DeleteUserRequest, UserResponse, LoginResponse, EnumField, StringField,
       MessageField

(* What a handler reads are the fields the client set. *)
LEMMA CommandFields ==
    ASSUME NEW r, req[r].command \in Commands
    PROVE  /\ kind(r) \in {"get", "create", "login", "update", "delete"}
           /\ user(r) \in User
           /\ kind(r) # "get" => password(r) \in Password
           /\ kind(r) = "update" => newPassword(r) \in NewPassword
<1>1. ASSUME NEW u \in User,
              req[r].command = Posted("get", GetUserRequest, GetUserRequestOf(u, NoText, NoText))
      PROVE  kind(r) = "get" /\ user(r) = u
  <2> DEFINE m == GetUserRequestOf(u, NoText, NoText)
  <2>1. kind(r) = "get" /\ message(r) = Parse(GetUserRequest, Serialize(GetUserRequest, m))
    <3>1. kind(r) = "get"
      BY <1>1 DEF Posted, kind
    <3>2. req[r].command.body = Serialize(GetUserRequest, m)
      BY <1>1 DEF Posted
    <3>3. ClassOf(kind(r)) = GetUserRequest
      BY <3>1 DEF ClassOf
    <3>4. QED
      BY <3>1, <3>2, <3>3, Zenon DEF message
  <2>2. user(r) = u
    <3>1. GetUserRequest[1].name = "userId" /\ 1 \in DOMAIN GetUserRequest
      BY DEF GetUserRequest, StringField
    <3>2. Parse(GetUserRequest, Serialize(GetUserRequest, m))["userId"] = m["userId"]
      BY <3>1, ClassesNameFields, FieldReadBack
    <3>3. m["userId"] = u
      BY DEF GetUserRequestOf
    <3>4. QED
      BY <2>1, <3>2, <3>3 DEF user
  <2>3. QED
    BY <2>1, <2>2
<1>2. ASSUME NEW u \in User, NEW p \in Password,
              req[r].command = Posted("create", CreateUserRequest, CreateUserRequestOf(u, p, Text, Text))
      PROVE  kind(r) = "create" /\ user(r) = u /\ password(r) = p
  <2> DEFINE m == CreateUserRequestOf(u, p, Text, Text)
  <2>1. kind(r) = "create" /\ message(r) = Parse(CreateUserRequest, Serialize(CreateUserRequest, m))
    <3>1. kind(r) = "create"
      BY <1>2 DEF Posted, kind
    <3>2. req[r].command.body = Serialize(CreateUserRequest, m)
      BY <1>2 DEF Posted
    <3>3. ClassOf(kind(r)) = CreateUserRequest
      BY <3>1 DEF ClassOf
    <3>4. QED
      BY <3>1, <3>2, <3>3, Zenon DEF message
  <2>2. user(r) = u
    <3>1. CreateUserRequest[1].name = "userId" /\ 1 \in DOMAIN CreateUserRequest
      BY DEF CreateUserRequest, StringField
    <3>2. Parse(CreateUserRequest, Serialize(CreateUserRequest, m))["userId"] = m["userId"]
      BY <3>1, ClassesNameFields, FieldReadBack
    <3>3. m["userId"] = u
      BY DEF CreateUserRequestOf
    <3>4. QED
      BY <2>1, <3>2, <3>3 DEF user
  <2>3. password(r) = p
    <3>1. CreateUserRequest[2].name = "password" /\ 2 \in DOMAIN CreateUserRequest
      BY DEF CreateUserRequest, StringField
    <3>2. Parse(CreateUserRequest, Serialize(CreateUserRequest, m))["password"] = m["password"]
      BY <3>1, ClassesNameFields, FieldReadBack
    <3>3. m["password"] = p
      BY DEF CreateUserRequestOf
    <3>4. QED
      BY <2>1, <3>2, <3>3 DEF password
  <2>4. QED
    BY <2>1, <2>2, <2>3
<1>3. ASSUME NEW u \in User, NEW p \in Password,
              req[r].command = Posted("login", LoginRequest, LoginRequestOf(u, p))
      PROVE  kind(r) = "login" /\ user(r) = u /\ password(r) = p
  <2> DEFINE m == LoginRequestOf(u, p)
  <2>1. kind(r) = "login" /\ message(r) = Parse(LoginRequest, Serialize(LoginRequest, m))
    <3>1. kind(r) = "login"
      BY <1>3 DEF Posted, kind
    <3>2. req[r].command.body = Serialize(LoginRequest, m)
      BY <1>3 DEF Posted
    <3>3. ClassOf(kind(r)) = LoginRequest
      BY <3>1 DEF ClassOf
    <3>4. QED
      BY <3>1, <3>2, <3>3, Zenon DEF message
  <2>2. user(r) = u
    <3>1. LoginRequest[1].name = "userId" /\ 1 \in DOMAIN LoginRequest
      BY DEF LoginRequest, StringField
    <3>2. Parse(LoginRequest, Serialize(LoginRequest, m))["userId"] = m["userId"]
      BY <3>1, ClassesNameFields, FieldReadBack
    <3>3. m["userId"] = u
      BY DEF LoginRequestOf
    <3>4. QED
      BY <2>1, <3>2, <3>3 DEF user
  <2>3. password(r) = p
    <3>1. LoginRequest[2].name = "password" /\ 2 \in DOMAIN LoginRequest
      BY DEF LoginRequest, StringField
    <3>2. Parse(LoginRequest, Serialize(LoginRequest, m))["password"] = m["password"]
      BY <3>1, ClassesNameFields, FieldReadBack
    <3>3. m["password"] = p
      BY DEF LoginRequestOf
    <3>4. QED
      BY <2>1, <3>2, <3>3 DEF password
  <2>4. QED
    BY <2>1, <2>2, <2>3
<1>4. ASSUME NEW u \in User, NEW p \in Password, NEW q \in NewPassword,
              req[r].command = Posted("update", UpdateUserRequest, UpdateUserRequestOf(u, p, q, Text, Text))
      PROVE  kind(r) = "update" /\ user(r) = u /\ password(r) = p /\ newPassword(r) = q
  <2> DEFINE m == UpdateUserRequestOf(u, p, q, Text, Text)
  <2>1. kind(r) = "update" /\ message(r) = Parse(UpdateUserRequest, Serialize(UpdateUserRequest, m))
    <3>1. kind(r) = "update"
      BY <1>4 DEF Posted, kind
    <3>2. req[r].command.body = Serialize(UpdateUserRequest, m)
      BY <1>4 DEF Posted
    <3>3. ClassOf(kind(r)) = UpdateUserRequest
      BY <3>1 DEF ClassOf
    <3>4. QED
      BY <3>1, <3>2, <3>3, Zenon DEF message
  <2>2. user(r) = u
    <3>1. UpdateUserRequest[1].name = "userId" /\ 1 \in DOMAIN UpdateUserRequest
      BY DEF UpdateUserRequest, StringField
    <3>2. Parse(UpdateUserRequest, Serialize(UpdateUserRequest, m))["userId"] = m["userId"]
      BY <3>1, ClassesNameFields, FieldReadBack
    <3>3. m["userId"] = u
      BY DEF UpdateUserRequestOf
    <3>4. QED
      BY <2>1, <3>2, <3>3 DEF user
  <2>3. password(r) = p
    <3>1. UpdateUserRequest[2].name = "password" /\ 2 \in DOMAIN UpdateUserRequest
      BY DEF UpdateUserRequest, StringField
    <3>2. Parse(UpdateUserRequest, Serialize(UpdateUserRequest, m))["password"] = m["password"]
      BY <3>1, ClassesNameFields, FieldReadBack
    <3>3. m["password"] = p
      BY DEF UpdateUserRequestOf
    <3>4. QED
      BY <2>1, <3>2, <3>3 DEF password
  <2>4. newPassword(r) = q
    <3>1. UpdateUserRequest[3].name = "toBePassword" /\ 3 \in DOMAIN UpdateUserRequest
      BY DEF UpdateUserRequest, StringField
    <3>2. Parse(UpdateUserRequest, Serialize(UpdateUserRequest, m))["toBePassword"] = m["toBePassword"]
      BY <3>1, ClassesNameFields, FieldReadBack
    <3>3. m["toBePassword"] = q
      BY DEF UpdateUserRequestOf
    <3>4. QED
      BY <2>1, <3>2, <3>3 DEF newPassword
  <2>5. QED
    BY <2>1, <2>2, <2>3, <2>4
<1>5. ASSUME NEW u \in User, NEW p \in Password,
              req[r].command = Posted("delete", DeleteUserRequest, DeleteUserRequestOf(u, p))
      PROVE  kind(r) = "delete" /\ user(r) = u /\ password(r) = p
  <2> DEFINE m == DeleteUserRequestOf(u, p)
  <2>1. kind(r) = "delete" /\ message(r) = Parse(DeleteUserRequest, Serialize(DeleteUserRequest, m))
    <3>1. kind(r) = "delete"
      BY <1>5 DEF Posted, kind
    <3>2. req[r].command.body = Serialize(DeleteUserRequest, m)
      BY <1>5 DEF Posted
    <3>3. ClassOf(kind(r)) = DeleteUserRequest
      BY <3>1 DEF ClassOf
    <3>4. QED
      BY <3>1, <3>2, <3>3, Zenon DEF message
  <2>2. user(r) = u
    <3>1. DeleteUserRequest[1].name = "userId" /\ 1 \in DOMAIN DeleteUserRequest
      BY DEF DeleteUserRequest, StringField
    <3>2. Parse(DeleteUserRequest, Serialize(DeleteUserRequest, m))["userId"] = m["userId"]
      BY <3>1, ClassesNameFields, FieldReadBack
    <3>3. m["userId"] = u
      BY DEF DeleteUserRequestOf
    <3>4. QED
      BY <2>1, <3>2, <3>3 DEF user
  <2>3. password(r) = p
    <3>1. DeleteUserRequest[2].name = "password" /\ 2 \in DOMAIN DeleteUserRequest
      BY DEF DeleteUserRequest, StringField
    <3>2. Parse(DeleteUserRequest, Serialize(DeleteUserRequest, m))["password"] = m["password"]
      BY <3>1, ClassesNameFields, FieldReadBack
    <3>3. m["password"] = p
      BY DEF DeleteUserRequestOf
    <3>4. QED
      BY <2>1, <3>2, <3>3 DEF password
  <2>4. QED
    BY <2>1, <2>2, <2>3
<1>6. QED
  BY <1>1, <1>2, <1>3, <1>4, <1>5 DEF Commands

(***************************************************************************)
(* A message of a class whose fields have different names is read as it    *)
(* was written, whichever of its fields are at their defaults              *)
(* (UserMessage.pb.cc, _InternalSerialize and _InternalParse).             *)
(***************************************************************************)
THEOREM EveryMessageIsReadBack ==
    ASSUME NEW class, NamesDiffer(class),
           NEW V, NEW m \in [{class[n].name : n \in DOMAIN class} -> V]
    PROVE  Parse(class, Serialize(class, m)) = m
<1> DEFINE names == {class[n].name : n \in DOMAIN class}
           read(x) == Parse(class, Serialize(class, m))[x]
<1>1. Parse(class, Serialize(class, m)) = [x \in names |-> read(x)]
  BY DEF Parse
<1>2. \A x \in names : read(x) = m[x]
  BY FieldReadBack
<1>3. m = [x \in names |-> m[x]]
  OBVIOUS
<1> HIDE DEF read, names
<1>4. QED
  BY <1>1, <1>2, <1>3, Zenon

(***************************************************************************)
(* The client, which takes every body for a UserResponse                   *)
(* (HttpClient.cpp:85-98), reads every UserErrorResponse as a response     *)
(* without an error: its one field has the number of the status and the    *)
(* wire type of a text.                                                    *)
(***************************************************************************)
THEOREM ErrorsReadAsSuccess ==
    ASSUME NEW text
    PROVE  Parse(UserResponse, Serialize(UserErrorResponse, UserErrorResponseOf(text)))
               = UserResponseOf(Success, NoText, NoContent)
<1> DEFINE body == Serialize(UserErrorResponse, UserErrorResponseOf(text))
           p == Parse(UserResponse, body)
           names == {UserResponse[n].name : n \in DOMAIN UserResponse}
<1>1. DOMAIN UserErrorResponse = {1} /\ UserErrorResponse[1].kind = "string"
  BY DEF UserErrorResponse, StringField
<1>2. DOMAIN body \subseteq {1}
  BY <1>1 DEF Serialize
<1>3. 1 \in DOMAIN body => body[1].type = "len"
  BY <1>1 DEF Serialize, WireType
<1>4. /\ DOMAIN UserResponse = 1..3
      /\ UserResponse[1] = EnumField("status")
      /\ UserResponse[2] = StringField("message")
      /\ UserResponse[3] = MessageField("content")
  BY DEF UserResponse
<1> HIDE DEF body
<1>5. \A n \in 1..3 : Value(UserResponse, n, body) = Default(UserResponse[n].kind)
  BY <1>2, <1>3, <1>4 DEF Value, Reads, WireType, EnumField
<1>6. \A n \in 1..3 : p[UserResponse[n].name] = Default(UserResponse[n].kind)
  <2> TAKE n \in 1..3
  <2>1. (CHOOSE i \in DOMAIN UserResponse : UserResponse[i].name = UserResponse[n].name) = n
    BY <1>4, ClassesNameFields DEF NamesDiffer
  <2>2. UserResponse[n].name \in names
    BY <1>4
  <2>3. p[UserResponse[n].name] = Value(UserResponse, n, body)
    BY <2>1, <2>2, Zenon DEF Parse
  <2>4. QED
    BY <1>5, <2>3
<1>7. names = {"status", "message", "content"}
  <2>1. names = {UserResponse[1].name, UserResponse[2].name, UserResponse[3].name}
    BY <1>4
  <2>2. QED
    BY <1>4, <2>1 DEF EnumField, StringField, MessageField
<1>8. p["status"] = Success /\ p["message"] = NoText /\ p["content"] = NoContent
  <2>1. /\ p["status"] = Default("enum") /\ p["message"] = Default("string")
        /\ p["content"] = Default("message")
    BY <1>4, <1>6 DEF EnumField, StringField, MessageField
  <2>2. QED
    BY <2>1 DEF Default
<1>9. p = [x \in names |-> p[x]]
  BY DEF Parse
<1> HIDE DEF p, names
<1> DEFINE r == UserResponseOf(Success, NoText, NoContent)
<1>10. r = [x \in {"status", "message", "content"} |-> r[x]]
  BY DEF UserResponseOf
<1>11. r["status"] = Success /\ r["message"] = NoText /\ r["content"] = NoContent
  BY DEF UserResponseOf
<1> HIDE DEF r
<1>12. \A x \in names : p[x] = r[x]
  BY <1>7, <1>8, <1>11
<1>13. p = r
  <2>1. r = [x \in names |-> r[x]]
    BY <1>7, <1>10
  <2>2. QED
    BY <1>9, <1>12, <2>1, Zenon
<1>14. QED
  BY <1>13 DEF body, p, r

(* What the client makes of the two answers a login may get. *)
LEMMA AnswersAreTold ==
    ASSUME NEW r
    PROVE  /\ Outcome("login", Parse(UserResponse, ErrorBody)) # "chat"
           /\ Parse(LoginResponse,
                    Parse(UserResponse, LoginBody(r)).content.fields).sessionId = r
<1>1. Outcome("login", Parse(UserResponse, ErrorBody)) # "chat"
  BY ErrorsReadAsSuccess DEF ErrorBody, Outcome, UnpacksTo, UserResponseOf
<1>2. Parse(UserResponse, LoginBody(r)).content = LoginContent(r)
  <2>1. UserResponse[3].name = "content" /\ 3 \in DOMAIN UserResponse
    BY DEF UserResponse, MessageField
  <2>2. Parse(UserResponse, LoginBody(r))["content"]
            = UserResponseOf(Success, Text, LoginContent(r))["content"]
    BY <2>1, ClassesNameFields, FieldReadBack DEF LoginBody
  <2>3. QED
    BY <2>2 DEF UserResponseOf
<1>3. Parse(LoginResponse, LoginContent(r).fields).sessionId = r
  <2>1. LoginResponse[3].name = "sessionId" /\ 3 \in DOMAIN LoginResponse
    BY DEF LoginResponse, StringField
  <2>2. LoginContent(r).fields = Serialize(LoginResponse, LoginResponseOf(Text, Text, r))
    BY DEF LoginContent, Pack
  <2>3. Parse(LoginResponse, LoginContent(r).fields)["sessionId"]
            = LoginResponseOf(Text, Text, r)["sessionId"]
    BY <2>1, <2>2, ClassesNameFields, FieldReadBack
  <2>4. QED
    BY <2>3 DEF LoginResponseOf
<1>4. QED
  BY <1>1, <1>2, <1>3

-----------------------------------------------------------------------------
(* What saving does to table and context                                   *)

(* An injection of the new entities into as many new ids uses all of them. *)
LEMMA NewIdsAreUsed ==
    ASSUME NEW S, IsFiniteSet(S), NEW n \in Nat,
           NEW f \in [S -> n + 1 .. n + Cardinality(S)],
           \A s, t \in S : f[s] = f[t] => s = t
    PROVE  \A id \in n + 1 .. n + Cardinality(S) : \E s \in S : f[s] = id
<1> DEFINE T == n + 1 .. n + Cardinality(S)
<1>1. Cardinality(S) \in Nat
  BY FS_CardinalityType
<1>2. IsFiniteSet(T) /\ Cardinality(T) = Cardinality(S)
  BY <1>1, FS_Interval
<1>3. f \in Injection(S, T)
  BY DEF Injection, IsInjective
<1>4. f \in Surjection(S, T)
  BY <1>2, <1>3, FS_Injection
<1>5. QED
  BY <1>4 DEF Surjection

(***************************************************************************)
(* A save gives every new entity a new row and a new id, and leaves the    *)
(* other rows and entities their ids.                                      *)
(***************************************************************************)
Saves(newId) ==
    /\ \A k \in New : /\ newId[k] \in 1..Len(table) + Cardinality(New)
                      /\ newId[k] > Len(table)
    /\ \A k, l \in New : newId[k] = newId[l] => k = l
    /\ \A id \in 1..Len(table) + Cardinality(New) :
          id > Len(table) => \E k \in New : id = newId[k]
    /\ table' = Written(newId)
    /\ tracked' = AfterSave(newId)
    /\ saving' = Nothing

LEMMA SaveNumbers ==
    ASSUME TypeInv, NEW r \in Request, SaveSucceeds(r)
    PROVE  /\ IsFiniteSet(New) /\ Cardinality(New) \in Nat /\ Len(table) \in Nat
           /\ \E newId : /\ newId \in [New -> Len(table) + 1 .. Len(table) + Cardinality(New)]
                         /\ Saves(newId)
<1>1. Len(table) \in Nat
  BY DEF TypeInv, TypeOK, ContextTypeOK
<1>2. IsFiniteSet(New)
  <2>1. New \in SUBSET DOMAIN tracked
    BY DEF TypeInv, TypeOK, ContextTypeOK, New
  <2>2. QED
    BY <2>1, FS_Subset DEF TypeInv
<1>3. Cardinality(New) \in Nat
  BY <1>2, FS_CardinalityType
<1>4. PICK newId \in [New -> Len(table) + 1 .. Len(table) + Cardinality(New)] :
        /\ \A s, t \in New : newId[s] = newId[t] => s = t
        /\ table' = Written(newId)
        /\ tracked' = AfterSave(newId)
        /\ saving' = Nothing
  BY DEF SaveSucceeds
<1>5. \A id \in Len(table) + 1 .. Len(table) + Cardinality(New) :
        \E k \in New : newId[k] = id
  BY <1>1, <1>2, <1>4, NewIdsAreUsed
<1>6. \A k \in New : /\ newId[k] \in 1..Len(table) + Cardinality(New)
                     /\ newId[k] > Len(table)
  BY <1>1, <1>3, <1>4
<1>7. \A id \in 1..Len(table) + Cardinality(New) :
        id > Len(table) => \E k \in New : id = newId[k]
  <2>1. TAKE id \in 1..Len(table) + Cardinality(New)
  <2>2. HAVE id > Len(table)
  <2>3. id \in Len(table) + 1 .. Len(table) + Cardinality(New)
    BY <1>1, <1>3, <2>2
  <2>4. QED
    BY <1>5, <2>3
<1>8. Saves(newId)
  BY <1>4, <1>6, <1>7, Zenon DEF Saves
<1>9. QED
  BY <1>1, <1>2, <1>3, <1>4, <1>8

(* The keys of the context: ids of rows, and requests. *)
LEMMA KeysOfContext ==
    ASSUME TypeInv
    PROVE  /\ DOMAIN table = 1..Len(table) /\ Len(table) \in Nat
           /\ DOMAIN tracked \subseteq DOMAIN table \cup Request
           /\ DOMAIN saving \subseteq DOMAIN tracked
           /\ DOMAIN table \cap Request = {}
BY ApiServerAssumption DEF TypeInv, TypeOK, ContextTypeOK

LEMMA SaveWrites ==
    ASSUME TypeInv, NEW newId, Saves(newId), Cardinality(New) \in Nat
    PROVE  /\ DOMAIN table' = 1..Len(table) + Cardinality(New)
           /\ \A id \in DOMAIN table :
                 /\ id \in DOMAIN table'
                 /\ id \in DOMAIN saving => table'[id] = saving[id]
                 /\ id \notin DOMAIN saving => table'[id] = table[id]
           /\ \A k \in New : newId[k] \in DOMAIN table' /\ table'[newId[k]] = saving[k]
           /\ \A id \in DOMAIN table' : id \in DOMAIN table \/ \E k \in New : id = newId[k]
<1> DEFINE rows == 1..Len(table) + Cardinality(New)
           row(id) == IF id \in DOMAIN saving THEN saving[id]
                      ELSE IF id \in DOMAIN table THEN table[id]
                      ELSE saving[CHOOSE r \in New : newId[r] = id]
<1>1. table' = [id \in rows |-> row(id)]
  BY DEF Saves, Written
<1>2. \A k \in New : row(newId[k]) = saving[k]
  <2> TAKE k \in New
  <2>1. newId[k] \notin DOMAIN table /\ newId[k] \notin Request
    BY KeysOfContext, ApiServerAssumption DEF Saves
  <2>2. newId[k] \notin DOMAIN saving
    BY <2>1, KeysOfContext
  <2>3. (CHOOSE r \in New : newId[r] = newId[k]) = k
    BY DEF Saves
  <2>4. QED
    BY <2>1, <2>2, <2>3
<1>3. \A id \in DOMAIN table : id \in rows
  BY KeysOfContext
<1>4. \A id \in DOMAIN table :
        /\ id \in DOMAIN saving => row(id) = saving[id]
        /\ id \notin DOMAIN saving => row(id) = table[id]
  OBVIOUS
<1>5. \A k \in New : newId[k] \in rows
  BY DEF Saves
<1>6. \A id \in rows : id \in DOMAIN table \/ \E k \in New : id = newId[k]
  BY KeysOfContext DEF Saves
<1> HIDE DEF row, rows
<1>7. DOMAIN table' = rows /\ \A id \in rows : table'[id] = row(id)
  BY <1>1
<1>8. rows = 1..Len(table) + Cardinality(New)
  BY DEF rows
<1>9. QED
  BY <1>2, <1>3, <1>4, <1>5, <1>6, <1>7, <1>8

LEMMA SaveTracks ==
    ASSUME TypeInv, NEW newId, Saves(newId)
    PROVE  /\ DOMAIN tracked' = (DOMAIN tracked \ New) \cup {newId[k] : k \in New}
           /\ \A k \in DOMAIN tracked \ New :
                 /\ k \in DOMAIN saving =>
                       tracked'[k] = [tracked[k] EXCEPT !.state = "Unchanged"]
                 /\ k \notin DOMAIN saving => tracked'[k] = tracked[k]
           /\ \A k \in New :
                 tracked'[newId[k]] = [tracked[k] EXCEPT !.state = "Unchanged"]
<1> DEFINE key(k) == IF k \in New THEN newId[k] ELSE k
           entity(k) == IF k \in DOMAIN saving
                          THEN [tracked[k] EXCEPT !.state = "Unchanged"]
                          ELSE tracked[k]
           keys == {key(k) : k \in DOMAIN tracked}
<1>1. tracked' = [id \in keys |-> entity(CHOOSE k \in DOMAIN tracked : key(k) = id)]
  BY Zenon DEF Saves, AfterSave
<1>2. New \subseteq DOMAIN saving /\ New \subseteq DOMAIN tracked /\ New \subseteq Request
  BY KeysOfContext DEF New
<1>3. \A k \in DOMAIN tracked, l \in DOMAIN tracked : key(k) = key(l) => k = l
  <2> SUFFICES ASSUME NEW k \in DOMAIN tracked, NEW l \in DOMAIN tracked, key(k) = key(l)
               PROVE  k = l
    OBVIOUS
  <2>1. \A j \in New : newId[j] \notin DOMAIN tracked
    BY KeysOfContext, ApiServerAssumption DEF Saves
  <2>2. \A i, j \in New : newId[i] = newId[j] => i = j
    BY DEF Saves
  <2>3. QED
    BY <2>1, <2>2
<1>4. keys = (DOMAIN tracked \ New) \cup {newId[k] : k \in New}
  BY <1>2
<1>5. \A k \in DOMAIN tracked \ New : key(k) = k /\ key(k) \in keys
  OBVIOUS
<1>6. \A k \in New : key(k) = newId[k] /\ key(k) \in keys
  BY <1>2
<1> HIDE DEF key, keys
<1>7. \A k \in DOMAIN tracked : key(k) \in keys => tracked'[key(k)] = entity(k)
  <2> TAKE k \in DOMAIN tracked
  <2>1. (CHOOSE l \in DOMAIN tracked : key(l) = key(k)) = k
    BY <1>3
  <2> HIDE DEF entity
  <2>2. QED
    BY <1>1, <2>1
<1>8. \A k \in DOMAIN tracked \ New : tracked'[k] = entity(k)
  BY <1>5, <1>7
<1>9. \A k \in New : tracked'[newId[k]] = entity(k)
  BY <1>2, <1>6, <1>7
<1>10. DOMAIN tracked' = keys
  BY <1>1
<1>11. QED
  BY <1>2, <1>4, <1>8, <1>9, <1>10

-----------------------------------------------------------------------------
(* What a step does                                                        *)

(***************************************************************************)
(* To table and context: nothing, giving up a save, loading some rows, or  *)
(* one of four handler steps.                                              *)
(***************************************************************************)
KeepsContext == UNCHANGED <<table, tracked, saving>>

GivesUp == busy' = Null /\ saving' = Nothing /\ UNCHANGED <<table, tracked>>

LoadsRows ==
    /\ \E ids \in SUBSET DOMAIN table : tracked' = Loaded(ids)
    /\ UNCHANGED <<table, saving>>

ContextStep ==
    \/ KeepsContext \/ GivesUp \/ LoadsRows
    \/ \E r \in Request : AddUser(r) \/ Assign(r) \/ SaveChanges(r) \/ Saved(r)

LEMMA ContextSteps == [Next]_vars => ContextStep
<1> SUFFICES ASSUME [Next]_vars PROVE ContextStep
  OBVIOUS
<1> USE DEF KeepsContext, GivesUp
<1>1. ASSUME NEW r \in Request, Send(r) \/ HttpFails(r) \/ Receive(r) PROVE ContextStep
  BY <1>1, Zenon DEF Send, HttpFails, Receive, contextVars, ContextStep
<1>2. CASE KeysExpire
  BY <1>2, Zenon DEF KeysExpire, contextVars, ContextStep
<1>3. CASE UNCHANGED vars
  BY <1>3, Zenon DEF vars, contextVars, ContextStep
<1>4. ASSUME NEW r \in Request, Handler(r) PROVE ContextStep
  <2>1. ASSUME BeginRead(r) PROVE KeepsContext
    BY <2>1, Zenon DEF BeginRead
  <2>2. ASSUME ReadThrows(r) PROVE KeepsContext \/ GivesUp
    BY <2>2, Zenon DEF ReadThrows, ContextInUse, Fails, End, contextVars
  <2>3. ASSUME FindTaken(r) PROVE LoadsRows
    <3>1. PICK id \in DOMAIN table : tracked' = Loaded({id})
      BY <2>3, Zenon DEF FindTaken
    <3>2. {id} \in SUBSET DOMAIN table
      OBVIOUS
    <3>3. QED
      BY <2>3, <3>1, <3>2, Zenon DEF FindTaken, LoadsRows
  <2>4. ASSUME ReadUnusable(r) PROVE KeepsContext \/ LoadsRows
    <3>1. RowsOf(user(r)) \in SUBSET DOMAIN table
      BY DEF RowsOf
    <3>2. QED
      BY <2>4, <3>1, Zenon DEF ReadUnusable, LoadsRows
  <2>5. ASSUME GetUserFromUserid(r) PROVE KeepsContext
    BY <2>5, Zenon DEF GetUserFromUserid
  <2>6. ASSUME ValidateUserCredentials(r) PROVE KeepsContext
    BY <2>6, Zenon DEF ValidateUserCredentials
  <2>7. ASSUME Refuse(r) PROVE KeepsContext
    BY <2>7, Zenon DEF Refuse
  <2>8. ASSUME BeginLoad(r) PROVE KeepsContext
    BY <2>8, Zenon DEF BeginLoad
  <2>9. ASSUME Load(r) PROVE LoadsRows
    <3>1. {req[r].id} \in SUBSET DOMAIN table
      BY <2>9 DEF Load, TheRow, RowsOf
    <3>2. QED
      BY <2>9, <3>1, Zenon DEF Load, LoadsRows
  <2>10. ASSUME LoadThrows(r) PROVE KeepsContext \/ GivesUp
    BY <2>10, Zenon DEF LoadThrows, ContextInUse, Fails, End, contextVars
  <2>11. ASSUME SaveThrows(r) PROVE KeepsContext \/ GivesUp
    BY <2>11, Zenon DEF SaveThrows, ContextInUse, Fails, End, contextVars
  <2>12. ASSUME LookUp(r) PROVE KeepsContext
    BY <2>12, Zenon DEF LookUp, contextVars
  <2>13. ASSUME CreateSession(r) PROVE KeepsContext
    BY <2>13, Zenon DEF CreateSession, contextVars
  <2>14. ASSUME CreateSessionFails(r) PROVE KeepsContext
    BY <2>14, Zenon DEF CreateSessionFails, contextVars
  <2>15. QED
    BY <1>4, <2>1, <2>2, <2>3, <2>4, <2>5, <2>6, <2>7, <2>8, <2>9, <2>10, <2>11, <2>12, <2>13, <2>14,
       Zenon DEF Handler, ContextStep
<1>5. QED
  BY <1>1, <1>2, <1>3, <1>4, Zenon DEF Next

(***************************************************************************)
(* Table and context keep their types; rows stay, and so do the entities   *)
(* that have a row.                                                        *)
(***************************************************************************)
RowsOK == table \in Seq(Row)

EntitiesOK ==
    /\ DOMAIN tracked \subseteq DOMAIN table \cup Request
    /\ \A k \in DOMAIN tracked : tracked[k] \in Entity
    /\ IsFiniteSet(DOMAIN tracked)

SavingOK ==
    /\ DOMAIN saving \subseteq DOMAIN tracked
    /\ \A k \in DOMAIN saving : saving[k] \in Row

Grows ==
    /\ DOMAIN table \subseteq DOMAIN table'
    /\ DOMAIN tracked \cap DOMAIN table \subseteq DOMAIN tracked'

LEMMA TypeInvGives ==
    ASSUME TypeInv
    PROVE  RowsOK /\ EntitiesOK /\ SavingOK /\ busy \in Request \cup {Null}
BY DEF TypeInv, TypeOK, ContextTypeOK, RowsOK, EntitiesOK, SavingOK

(* Adding entities to the context. *)
LEMMA ExtendedContext ==
    ASSUME TypeInv, NEW g, tracked' = Extend(tracked, g), UNCHANGED <<table, saving>>,
           DOMAIN g \subseteq DOMAIN table \cup Request, IsFiniteSet(DOMAIN g),
           \A k \in DOMAIN g : g[k] \in Entity
    PROVE  /\ RowsOK' /\ EntitiesOK' /\ SavingOK' /\ Grows
           /\ DOMAIN tracked' = DOMAIN tracked \cup DOMAIN g
           /\ \A k \in DOMAIN tracked : tracked'[k] = tracked[k]
           /\ \A k \in DOMAIN g \ DOMAIN tracked : tracked'[k] = g[k]
<1>1. RowsOK /\ EntitiesOK /\ SavingOK
  BY TypeInvGives
<1>2. /\ DOMAIN tracked' = DOMAIN tracked \cup DOMAIN g
      /\ \A k \in DOMAIN tracked : tracked'[k] = tracked[k]
      /\ \A k \in DOMAIN g \ DOMAIN tracked : tracked'[k] = g[k]
  BY DEF Extend
<1>3. IsFiniteSet(DOMAIN tracked')
  BY <1>1, <1>2, FS_Union DEF EntitiesOK
<1>4. EntitiesOK'
  BY <1>1, <1>2, <1>3 DEF EntitiesOK
<1>5. QED
  BY <1>1, <1>2, <1>4 DEF RowsOK, SavingOK, Grows

LEMMA LoadingKeeps ==
    ASSUME TypeInv, NEW ids \in SUBSET DOMAIN table,
           tracked' = Loaded(ids), UNCHANGED <<table, saving>>
    PROVE  /\ RowsOK' /\ EntitiesOK' /\ SavingOK' /\ Grows
           /\ DOMAIN tracked' = DOMAIN tracked \cup ids
           /\ \A k \in DOMAIN tracked : tracked'[k] = tracked[k]
           /\ \A k \in ids \ DOMAIN tracked : tracked'[k].row = table[k]
<1> DEFINE g == [id \in ids |-> [row |-> table[id], state |-> "Unchanged"]]
<1>1. tracked' = Extend(tracked, g) /\ DOMAIN g = ids
  BY DEF Loaded
<1>2. DOMAIN table \in SUBSET Nat /\ IsFiniteSet(DOMAIN table)
  BY KeysOfContext, FS_Interval
<1>3. IsFiniteSet(ids)
  BY <1>2, FS_Subset
<1>4. \A k \in ids : g[k] = [row |-> table[k], state |-> "Unchanged"] /\ table[k] \in Row
  BY TypeInvGives DEF RowsOK
<1> HIDE DEF g
<1>5. \A k \in ids : g[k] \in Entity /\ g[k].row = table[k]
  <2>1. \A row \in Row : /\ [row |-> row, state |-> "Unchanged"] \in Entity
                         /\ [row |-> row, state |-> "Unchanged"].row = row
    BY DEF Entity
  <2>2. QED
    BY <1>4, <2>1
<1>6. /\ RowsOK' /\ EntitiesOK' /\ SavingOK' /\ Grows
      /\ DOMAIN tracked' = DOMAIN tracked \cup ids
      /\ \A k \in DOMAIN tracked : tracked'[k] = tracked[k]
      /\ \A k \in ids \ DOMAIN tracked : tracked'[k] = g[k]
  BY <1>1, <1>3, <1>5, ExtendedContext
<1>7. QED
  BY <1>5, <1>6

NewRow(r) == [user |-> user(r), password |-> password(r), alive |-> TRUE]

LEMMA AddingKeeps ==
    ASSUME TypeInv, NEW r \in Request, AddUser(r)
    PROVE  /\ RowsOK' /\ EntitiesOK' /\ SavingOK' /\ Grows
           /\ DOMAIN tracked' = DOMAIN tracked \cup {r}
           /\ \A k \in DOMAIN tracked : tracked'[k] = tracked[k]
           /\ r \notin DOMAIN tracked =>
                 tracked'[r].row = NewRow(r) /\ tracked'[r].state = "Added"
<1> DEFINE g == [k \in {r} |-> [row |-> NewRow(r), state |-> "Added"]]
<1>1. tracked' = Extend(tracked, g) /\ DOMAIN g = {r} /\ UNCHANGED <<table, saving>>
  BY DEF AddUser, Added, NewRow
<1>2. g[r] = [row |-> NewRow(r), state |-> "Added"]
  OBVIOUS
<1> HIDE DEF g
<1>3. user(r) \in User /\ password(r) \in Password
  <2>1. req[r].command \in Commands /\ kind(r) = "create"
    BY DEF AddUser, TypeInv, PlaceOf, At
  <2>2. QED
    BY <2>1, CommandFields
<1>4. NewRow(r) \in Row
  BY <1>3 DEF NewRow, Row
<1>5. g[r] \in Entity /\ g[r].row = NewRow(r) /\ g[r].state = "Added"
  BY <1>2, <1>4 DEF Entity
<1>6. IsFiniteSet({r})
  BY FS_Singleton
<1>7. /\ RowsOK' /\ EntitiesOK' /\ SavingOK' /\ Grows
      /\ DOMAIN tracked' = DOMAIN tracked \cup {r}
      /\ \A k \in DOMAIN tracked : tracked'[k] = tracked[k]
      /\ \A k \in {r} \ DOMAIN tracked : tracked'[k] = g[k]
  BY <1>1, <1>5, <1>6, ExtendedContext
<1>8. QED
  BY <1>5, <1>7

LEMMA RequestTypes ==
    ASSUME TypeInv, NEW r \in Request, ~At(r, "idle")
    PROVE  /\ req[r].command \in Commands
           /\ kind(r) \in {"get", "create", "login", "update", "delete"}
           /\ user(r) \in User
           /\ kind(r) # "get" => password(r) \in Password
           /\ kind(r) = "update" => HashPassword(newPassword(r)) \in Password \cup {Null}
<1>1. req[r].command \in Commands
  BY DEF TypeInv, PlaceOf
<1>2. QED
  BY <1>1, CommandFields DEF HashPassword, NewPassword

(* The row UpdateUser and DeleteUser make of an entity's. *)
AssignedRow(r, row) ==
    IF kind(r) = "delete" THEN [row EXCEPT !.alive = FALSE]
    ELSE [row EXCEPT !.password = HashPassword(newPassword(r)), !.alive = TRUE]

LEMMA AssigningKeeps ==
    ASSUME TypeInv, NEW r \in Request, Assign(r)
    PROVE  /\ RowsOK' /\ EntitiesOK' /\ SavingOK' /\ Grows
           /\ req[r].id \in DOMAIN tracked \cap DOMAIN table /\ kind(r) \in {"update", "delete"}
           /\ req[r].validated = password(r)
           /\ DOMAIN tracked' = DOMAIN tracked
           /\ \A k \in DOMAIN tracked : k # req[r].id => tracked'[k] = tracked[k]
           /\ tracked'[req[r].id].row = AssignedRow(r, tracked[req[r].id].row)
<1> DEFINE id == req[r].id
           new == AssignedRow(r, tracked[id].row)
<1>1. /\ id \in DOMAIN tracked /\ id \in DOMAIN table /\ kind(r) \in {"update", "delete"}
      /\ req[r].validated = password(r) /\ ~At(r, "idle")
  BY DEF Assign, TypeInv, PlaceOf, At
<1>2. tracked[id].row \in Row
  BY <1>1, TypeInvGives DEF EntitiesOK, Entity
<1>3. new \in Row
  <2>1. \A row \in Row : [row EXCEPT !.alive = FALSE] \in Row
    BY DEF Row
  <2>2. \A row \in Row, p \in Password \cup {Null} :
          [row EXCEPT !.password = p, !.alive = TRUE] \in Row
    BY DEF Row
  <2>3. QED
    BY <1>1, <1>2, <2>1, <2>2, RequestTypes DEF AssignedRow
<1>4. /\ tracked' = [tracked EXCEPT ![id] = [row |-> new, state |-> "Modified"]]
      /\ UNCHANGED <<table, saving>>
  BY Zenon DEF Assign, Updated, AssignedRow
<1> HIDE DEF new, id
<1>5. [row |-> new, state |-> "Modified"] \in Entity
      /\ [row |-> new, state |-> "Modified"].row = new
  BY <1>3 DEF Entity
<1>6. /\ DOMAIN tracked' = DOMAIN tracked
      /\ \A k \in DOMAIN tracked : k # id => tracked'[k] = tracked[k]
      /\ tracked'[id] \in Entity /\ tracked'[id].row = new
  BY <1>1, <1>4, <1>5
<1>7. RowsOK' /\ EntitiesOK' /\ SavingOK' /\ Grows
  BY <1>4, <1>6, TypeInvGives DEF RowsOK, EntitiesOK, SavingOK, Grows
<1>8. QED
  BY <1>1, <1>6, <1>7 DEF id, new

LEMMA CapturingKeeps ==
    ASSUME TypeInv, NEW r \in Request, SaveChanges(r)
    PROVE  /\ RowsOK' /\ EntitiesOK' /\ SavingOK' /\ Grows
           /\ UNCHANGED <<table, tracked>>
           /\ DOMAIN saving' = Pending
           /\ \A k \in Pending : saving'[k] = tracked[k].row
<1>1. saving' = [k \in Pending |-> tracked[k].row] /\ UNCHANGED <<table, tracked>>
  BY DEF SaveChanges, BeginSave, Captured
<1>2. \A k \in Pending : k \in DOMAIN tracked /\ tracked[k].row \in Row
  BY TypeInvGives DEF EntitiesOK, Entity, Pending
<1>3. QED
  BY <1>1, <1>2, TypeInvGives DEF RowsOK, EntitiesOK, SavingOK, Grows

LEMMA SavingKeeps ==
    ASSUME TypeInv, NEW newId, Saves(newId), IsFiniteSet(New), Cardinality(New) \in Nat
    PROVE  RowsOK' /\ EntitiesOK' /\ SavingOK' /\ Grows
<1> DEFINE n == Len(table) + Cardinality(New)
           ids == {newId[k] : k \in New}
<1>1. RowsOK /\ EntitiesOK /\ SavingOK
  BY TypeInvGives
<1>2. /\ DOMAIN table' = 1..n
      /\ \A id \in DOMAIN table :
            /\ id \in DOMAIN table'
            /\ id \in DOMAIN saving => table'[id] = saving[id]
            /\ id \notin DOMAIN saving => table'[id] = table[id]
      /\ \A k \in New : newId[k] \in DOMAIN table' /\ table'[newId[k]] = saving[k]
      /\ \A id \in DOMAIN table' : id \in DOMAIN table \/ \E k \in New : id = newId[k]
  BY SaveWrites
<1>3. /\ DOMAIN tracked' = (DOMAIN tracked \ New) \cup ids
      /\ \A k \in DOMAIN tracked \ New :
            /\ k \in DOMAIN saving =>
                  tracked'[k] = [tracked[k] EXCEPT !.state = "Unchanged"]
            /\ k \notin DOMAIN saving => tracked'[k] = tracked[k]
      /\ \A k \in New : tracked'[newId[k]] = [tracked[k] EXCEPT !.state = "Unchanged"]
  BY SaveTracks
<1>4. New \subseteq DOMAIN tracked /\ New \subseteq DOMAIN saving /\ n \in Nat
  BY <1>1, KeysOfContext DEF New, SavingOK
<1>5. table' = [id \in 1..n |-> table'[id]]
  BY DEF Saves, Written
<1> HIDE DEF n
<1>6. RowsOK'
  <2>1. \A id \in DOMAIN table : table[id] \in Row
    BY <1>1 DEF RowsOK
  <2>2. \A id \in 1..n : table'[id] \in Row
    BY <1>1, <1>2, <1>4, <2>1 DEF SavingOK
  <2>3. QED
    BY <1>4, <1>5, <2>2 DEF RowsOK
<1>7. DOMAIN tracked' \subseteq DOMAIN table' \cup Request
  BY <1>1, <1>2, <1>3 DEF EntitiesOK
<1>8. \A k \in DOMAIN tracked : [tracked[k] EXCEPT !.state = "Unchanged"] \in Entity
  <2>1. \A e \in Entity : [e EXCEPT !.state = "Unchanged"] \in Entity
    BY DEF Entity
  <2>2. QED
    BY <1>1, <2>1 DEF EntitiesOK
<1>9. \A k \in DOMAIN tracked' : tracked'[k] \in Entity
  <2>1. ASSUME NEW k \in DOMAIN tracked \ New PROVE tracked'[k] \in Entity
    <3>1. tracked'[k] = tracked[k] \/ tracked'[k] = [tracked[k] EXCEPT !.state = "Unchanged"]
      BY <1>3
    <3>2. QED
      BY <1>1, <1>8, <3>1, Zenon DEF EntitiesOK
  <2>2. ASSUME NEW k \in New PROVE tracked'[newId[k]] \in Entity
    BY <1>3, <1>4, <1>8, Zenon
  <2> HIDE DEF ids
  <2>3. ASSUME NEW k \in DOMAIN tracked' PROVE tracked'[k] \in Entity
    <3>1. k \in DOMAIN tracked \ New \/ k \in ids
      BY <1>3
    <3>2. k \in ids => \E j \in New : k = newId[j]
      BY DEF ids
    <3>3. QED
      BY <2>1, <2>2, <3>1, <3>2, Zenon
  <2>4. QED
    BY <2>3
<1>10. IsFiniteSet(DOMAIN tracked')
  <2>1. ids \in SUBSET (1..n)
    <3>1. \A k \in New : newId[k] \in 1..n
      BY <1>2
    <3>2. QED
      BY <3>1
  <2>2. IsFiniteSet(1..n)
    <3>1. n \in Int
      BY <1>4
    <3>2. QED
      BY <3>1, FS_Interval
  <2>3. IsFiniteSet(ids)
    BY <2>1, <2>2, FS_Subset
  <2>4. DOMAIN tracked \ New \in SUBSET DOMAIN tracked
    OBVIOUS
  <2>5. IsFiniteSet(DOMAIN tracked \ New)
    BY <1>1, <2>4, FS_Subset DEF EntitiesOK
  <2> HIDE DEF ids
  <2>6. IsFiniteSet((DOMAIN tracked \ New) \cup ids)
    BY <2>3, <2>5, FS_Union
  <2>7. QED
    BY <1>3, <2>6, Zenon
<1>11. SavingOK'
  BY DEF Saves, Nothing, SavingOK
<1>12. Grows
  <2>1. DOMAIN tracked \cap DOMAIN table \subseteq DOMAIN tracked \ New
    BY KeysOfContext DEF New
  <2>2. QED
    BY <1>2, <1>3, <2>1 DEF Grows
<1>13. EntitiesOK'
  BY <1>7, <1>9, <1>10 DEF EntitiesOK
<1>14. QED
  BY <1>6, <1>11, <1>12, <1>13

LEMMA ContextKept ==
    ASSUME TypeInv, ContextStep
    PROVE  RowsOK' /\ EntitiesOK' /\ SavingOK' /\ Grows
<1>1. CASE KeepsContext
  BY <1>1, TypeInvGives DEF KeepsContext, RowsOK, EntitiesOK, SavingOK, Grows
<1>2. CASE GivesUp
  BY <1>2, TypeInvGives DEF GivesUp, Nothing, RowsOK, EntitiesOK, SavingOK, Grows
<1>3. CASE LoadsRows
  BY <1>3, LoadingKeeps DEF LoadsRows
<1>4. ASSUME NEW r \in Request, AddUser(r)
      PROVE  RowsOK' /\ EntitiesOK' /\ SavingOK' /\ Grows
  BY <1>4, AddingKeeps
<1>5. ASSUME NEW r \in Request, Assign(r)
      PROVE  RowsOK' /\ EntitiesOK' /\ SavingOK' /\ Grows
  BY <1>5, AssigningKeeps
<1>6. ASSUME NEW r \in Request, SaveChanges(r)
      PROVE  RowsOK' /\ EntitiesOK' /\ SavingOK' /\ Grows
  BY <1>6, CapturingKeeps
<1>7. ASSUME NEW r \in Request, Saved(r)
      PROVE  RowsOK' /\ EntitiesOK' /\ SavingOK' /\ Grows
  BY <1>7, SaveNumbers, SavingKeeps DEF Saved
<1>8. QED
  BY <1>1, <1>2, <1>3, <1>4, <1>5, <1>6, <1>7 DEF ContextStep

(***************************************************************************)
(* To a request: its handler advances, validates, looks up the session or  *)
(* ends with an answer; all others stay as they are.                       *)
(***************************************************************************)
Advances(r) ==
    /\ answer' = answer
    /\ \/ At(r, "begin") /\ Goes(r, "reading")
       \/ AddUser(r)
       \/ At(r, "validated") /\ kind(r) \in {"update", "delete"} /\ Goes(r, "loading")
       \/ At(r, "loading") /\ Goes(r, "loaded") /\ req[r].id \in DOMAIN tracked'
       \/ Assign(r)
       \/ SaveChanges(r)

\* Only a save ends a create with success, and only a new session a login.
Ends(r) ==
    /\ ~At(r, "idle") /\ ~At(r, "end")
    /\ Goes(r, "end")
    /\ DOMAIN answer' = Request /\ \A s \in Request \ {r} : answer'[s] = answer[s]
    /\ answer'[r].code \in {200, 400, 404, 500}
    /\ kind(r) = "create" /\ answer'[r].code = 200 => Saved(r)
    /\ kind(r) = "login" => \/ answer'[r].body = ErrorBody
                            \/ answer'[r].body = LoginBody(r) /\ At(r, "found")

HandlerStep(r) ==
    /\ client' = client
    /\ Advances(r) \/ ValidateUserCredentials(r) \/ LookUp(r) \/ Ends(r)

LEMMA Answered ==
    ASSUME TypeInv, NEW r \in Request, NEW code, NEW body, Answers(r, code, body)
    PROVE  /\ Goes(r, "end")
           /\ DOMAIN answer' = Request /\ \A s \in Request \ {r} : answer'[s] = answer[s]
           /\ answer'[r].code = code /\ answer'[r].body = body
<1>1. answer' = [answer EXCEPT ![r] = [code |-> code, body |-> body]] /\ DOMAIN answer = Request
  BY DEF Answers, TypeInv
<1>2. /\ [code |-> code, body |-> body].code = code
      /\ [code |-> code, body |-> body].body = body
  OBVIOUS
<1>3. answer'[r] = [code |-> code, body |-> body]
  BY <1>1
<1>4. QED
  BY <1>1, <1>2, <1>3, Zenon DEF Answers

(* An error tells the client nothing. *)
LEMMA Thrown ==
    ASSUME TypeInv, NEW r \in Request, ~At(r, "idle"), ~At(r, "end"),
           NEW code \in {400, 404, 500}, Throws(r, code)
    PROVE  Ends(r)
<1>1. Answers(r, code, ErrorBody)
  BY DEF Throws, ErrorBody
<1>2. code # 200 /\ code \in {200, 400, 404, 500}
  OBVIOUS
<1>3. /\ Goes(r, "end")
      /\ DOMAIN answer' = Request /\ \A s \in Request \ {r} : answer'[s] = answer[s]
      /\ answer'[r].code = code /\ answer'[r].body = ErrorBody
  BY <1>1, Answered
<1>4. QED
  BY <1>2, <1>3, Zenon DEF Ends

LEMMA Refused ==
    ASSUME TypeInv, NEW r \in Request, ~At(r, "idle"), ~At(r, "end"),
           Rejected(r) \/ NotSaved(r) \/ Throws(r, Unexpected)
    PROVE  Ends(r)
BY Thrown DEF Rejected, NotSaved, UserNotFoundException, UserValidationException, Unexpected

LEMMA HandlerSteps ==
    ASSUME TypeInv, NEW r \in Request, Handler(r)
    PROVE  HandlerStep(r)
<1>1. ASSUME BeginRead(r) PROVE Advances(r) /\ client' = client
  BY <1>1, Zenon DEF BeginRead, Advances
<1>2. ASSUME ReadThrows(r) PROVE Ends(r) /\ client' = client
  <2>1. ~At(r, "idle") /\ ~At(r, "end")
    BY <1>2 DEF ReadThrows, At
  <2>2. (Rejected(r) \/ NotSaved(r) \/ Throws(r, Unexpected)) /\ client' = client
    BY <1>2, Zenon DEF ReadThrows
  <2>3. QED
    BY <2>1, <2>2, Refused
<1>3. ASSUME FindTaken(r) PROVE Ends(r) /\ client' = client
  <2>1. ~At(r, "idle") /\ ~At(r, "end")
    BY <1>3 DEF FindTaken, At
  <2>2. (Rejected(r) \/ NotSaved(r) \/ Throws(r, Unexpected)) /\ client' = client
    BY <1>3, Zenon DEF FindTaken
  <2>3. QED
    BY <2>1, <2>2, Refused
<1>4. ASSUME AddUser(r) PROVE Advances(r) /\ client' = client
  BY <1>4, Zenon DEF AddUser, Advances
<1>5. ASSUME ReadUnusable(r) PROVE Ends(r) /\ client' = client
  <2>1. ~At(r, "idle") /\ ~At(r, "end")
    BY <1>5 DEF ReadUnusable, At
  <2>2. (Rejected(r) \/ NotSaved(r) \/ Throws(r, Unexpected)) /\ client' = client
    BY <1>5, Zenon DEF ReadUnusable
  <2>3. QED
    BY <2>1, <2>2, Refused
<1>6. ASSUME GetUserFromUserid(r) PROVE Ends(r) /\ client' = client
  <2>1. ~At(r, "idle") /\ ~At(r, "end") /\ kind(r) # "login" /\ client' = client
    BY <1>6 DEF GetUserFromUserid, At
  <2>2. PICK body : Answers(r, 200, body)
    BY <1>6, Zenon DEF GetUserFromUserid, Succeeds
  <2>3. kind(r) # "create"
    BY <1>6 DEF GetUserFromUserid
  <2>4. QED
    BY <2>1, <2>2, <2>3, Answered DEF Ends
<1>7. ASSUME Refuse(r) PROVE Ends(r) /\ client' = client
  <2>1. ~At(r, "idle") /\ ~At(r, "end")
    BY <1>7 DEF Refuse, At
  <2>2. (Rejected(r) \/ NotSaved(r) \/ Throws(r, Unexpected)) /\ client' = client
    BY <1>7, Zenon DEF Refuse
  <2>3. QED
    BY <2>1, <2>2, Refused
<1>8. ASSUME BeginLoad(r) PROVE Advances(r) /\ client' = client
  BY <1>8, Zenon DEF BeginLoad, Advances
<1>9. ASSUME Load(r) PROVE Advances(r) /\ client' = client
  <2>1. req[r].id \in DOMAIN tracked'
    BY <1>9 DEF Load, Loaded, Extend
  <2>2. QED
    BY <1>9, <2>1, Zenon DEF Load, Advances
<1>10. ASSUME LoadThrows(r) PROVE Ends(r) /\ client' = client
  <2>1. ~At(r, "idle") /\ ~At(r, "end")
    BY <1>10 DEF LoadThrows, At
  <2>2. (Rejected(r) \/ NotSaved(r) \/ Throws(r, Unexpected)) /\ client' = client
    BY <1>10, Zenon DEF LoadThrows
  <2>3. QED
    BY <2>1, <2>2, Refused
<1>11. ASSUME Assign(r) PROVE Advances(r) /\ client' = client
  BY <1>11, Zenon DEF Assign, Advances
<1>12. ASSUME SaveChanges(r) PROVE Advances(r) /\ client' = client
  BY <1>12, Zenon DEF SaveChanges, Advances
<1>13. ASSUME Saved(r) PROVE Ends(r) /\ client' = client
  <2>1. ~At(r, "idle") /\ ~At(r, "end") /\ kind(r) # "login" /\ client' = client
    BY <1>13 DEF Saved, At, TypeInv, PlaceOf
  <2>2. PICK body : Answers(r, 200, body)
    BY <1>13, Zenon DEF Saved, Succeeds
  <2>3. QED
    BY <1>13, <2>1, <2>2, Answered DEF Ends
<1>14. ASSUME SaveThrows(r) PROVE Ends(r) /\ client' = client
  <2>1. ~At(r, "idle") /\ ~At(r, "end")
    BY <1>14 DEF SaveThrows, At
  <2>2. (Rejected(r) \/ NotSaved(r) \/ Throws(r, Unexpected)) /\ client' = client
    BY <1>14, Zenon DEF SaveThrows
  <2>3. QED
    BY <2>1, <2>2, Refused
<1>15. ASSUME CreateSession(r) PROVE Ends(r) /\ client' = client
  <2>1. /\ ~At(r, "idle") /\ ~At(r, "end") /\ At(r, "found") /\ kind(r) = "login"
        /\ client' = client
    BY <1>15 DEF CreateSession, At, TypeInv, PlaceOf
  <2>2. Answers(r, 200, LoginBody(r))
    BY <1>15, Zenon DEF CreateSession, Succeeds, LoginBody, LoginContent
  <2>3. kind(r) # "create"
    BY <2>1
  <2>4. QED
    BY <2>1, <2>2, <2>3, Answered DEF Ends
<1>16. ASSUME CreateSessionFails(r) PROVE Ends(r) /\ client' = client
  <2>1. ~At(r, "idle") /\ ~At(r, "end")
    BY <1>16 DEF CreateSessionFails, At
  <2>2. (Rejected(r) \/ NotSaved(r) \/ Throws(r, Unexpected)) /\ client' = client
    BY <1>16, Zenon DEF CreateSessionFails
  <2>3. QED
    BY <2>1, <2>2, Refused
<1>17. ASSUME ValidateUserCredentials(r) \/ LookUp(r) PROVE client' = client
  BY <1>17, Zenon DEF ValidateUserCredentials, LookUp
<1>18. QED
  BY <1>1, <1>2, <1>3, <1>4, <1>5, <1>6, <1>7, <1>8, <1>9, <1>10, <1>11, <1>12, <1>13, <1>14, <1>15, <1>16, <1>17,
     Zenon DEF Handler, HandlerStep

(* Going to a place changes nothing else of a request. *)
LEMMA Gone ==
    ASSUME TypeInv, NEW r \in Request, NEW place \in Places, Goes(r, place)
    PROVE  /\ req' \in [Request -> RequestState]
           /\ \A s \in Request \ {r} : req'[s] = req[s]
           /\ req'[r].at = place /\ req'[r].command = req[r].command
           /\ req'[r].id = req[r].id /\ req'[r].validated = req[r].validated
           /\ req'[r].found = req[r].found
<1>1. req \in [Request -> RequestState]
  BY DEF TypeInv
<1>2. req' = [req EXCEPT ![r] = [req[r] EXCEPT !.at = place]]
  BY Zenon DEF Goes
<1>3. \A q \in RequestState :
        /\ [q EXCEPT !.at = place] \in RequestState
        /\ [q EXCEPT !.at = place].at = place
        /\ [q EXCEPT !.at = place].command = q.command
        /\ [q EXCEPT !.at = place].id = q.id
        /\ [q EXCEPT !.at = place].validated = q.validated
        /\ [q EXCEPT !.at = place].found = q.found
  BY DEF RequestState
<1>4. req[r] \in RequestState
  BY <1>1
<1> HIDE DEF RequestState
<1>5. /\ req' \in [Request -> RequestState]
      /\ \A s \in Request \ {r} : req'[s] = req[s]
      /\ req'[r] = [req[r] EXCEPT !.at = place]
  BY <1>1, <1>2, <1>3, <1>4
<1>6. QED
  BY <1>3, <1>4, <1>5

LEMMA Validated ==
    ASSUME TypeInv, NEW r \in Request, ValidateUserCredentials(r)
    PROVE  /\ At(r, "reading") /\ kind(r) \in {"login", "update", "delete"}
           /\ req' \in [Request -> RequestState]
           /\ \A s \in Request \ {r} : req'[s] = req[s]
           /\ req'[r].at = "validated" /\ req'[r].command = req[r].command
           /\ req'[r].id \in DOMAIN table /\ req'[r].validated = password(r)
           /\ req'[r].found = req[r].found
           /\ KeepsContext /\ answer' = answer
<1>1. PICK id \in DOMAIN table :
        /\ table[id].password = password(r)
        /\ req' = [req EXCEPT ![r].at = "validated", ![r].id = id,
                              ![r].validated = table[id].password]
  BY Zenon DEF ValidateUserCredentials, VerifyPassword
<1>2. req \in [Request -> RequestState] /\ req[r] \in RequestState
  BY DEF TypeInv
<1>3. id \in Nat /\ table[id].password \in Password \cup {Null}
  <2>1. id \in Nat
    BY KeysOfContext
  <2>2. table[id] \in Row
    BY TypeInvGives DEF RowsOK
  <2>3. QED
    BY <2>1, <2>2 DEF Row
<1> DEFINE new == [req[r] EXCEPT !.at = "validated", !.id = id,
                                 !.validated = table[id].password]
<1>4. req' = [req EXCEPT ![r] = new]
  BY <1>1, <1>2
<1>5. /\ new \in RequestState
      /\ new.at = "validated" /\ new.command = req[r].command
      /\ new.id = id /\ new.validated = table[id].password
      /\ new.found = req[r].found
  BY <1>2, <1>3 DEF RequestState, Places
<1> HIDE DEF new
<1>6. /\ req' \in [Request -> RequestState]
      /\ \A s \in Request \ {r} : req'[s] = req[s]
      /\ req'[r] = new
  BY <1>2, <1>4, <1>5
<1>7. QED
  BY <1>1, <1>5, <1>6 DEF ValidateUserCredentials, KeepsContext

LEMMA LookedUp ==
    ASSUME TypeInv, NEW r \in Request, LookUp(r)
    PROVE  /\ At(r, "validated") /\ kind(r) = "login"
           /\ req' \in [Request -> RequestState]
           /\ \A s \in Request \ {r} : req'[s] = req[s]
           /\ req'[r].at = "found" /\ req'[r].command = req[r].command
           /\ req'[r].id = req[r].id /\ req'[r].validated = req[r].validated
           /\ req'[r].found = Found(req[r].id)
           /\ KeepsContext /\ answer' = answer /\ UNCHANGED cacheVars
<1>1. req' = [req EXCEPT ![r].at = "found", ![r].found = Found(req[r].id)]
  BY Zenon DEF LookUp
<1>2. req \in [Request -> RequestState] /\ req[r] \in RequestState
  BY DEF TypeInv
<1>3. Found(req[r].id) \in Login \cup {NoSession}
  BY DEF Found, TypeInv, TypeOK, CacheTypeOK
<1> DEFINE new == [req[r] EXCEPT !.at = "found", !.found = Found(req[r].id)]
<1>4. req' = [req EXCEPT ![r] = new]
  BY <1>1, <1>2
<1>5. /\ new \in RequestState
      /\ new.at = "found" /\ new.command = req[r].command
      /\ new.id = req[r].id /\ new.validated = req[r].validated
      /\ new.found = Found(req[r].id)
  BY <1>2, <1>3 DEF RequestState, Places
<1> HIDE DEF new
<1>6. /\ req' \in [Request -> RequestState]
      /\ \A s \in Request \ {r} : req'[s] = req[s]
      /\ req'[r] = new
  BY <1>2, <1>4, <1>5
<1>7. QED
  BY <1>5, <1>6 DEF LookUp, KeepsContext, contextVars

(***************************************************************************)
(* A handler step leaves the other requests alone, keeps the command, the  *)
(* row and the password of its own once they are validated, and answers    *)
(* when it ends.                                                           *)
(***************************************************************************)
Moves(r) ==
    /\ req' \in [Request -> RequestState]
    /\ DOMAIN answer' = Request
    /\ answer'[r].code \in {0, 200, 400, 404, 500}
    /\ \A s \in Request \ {r} : req'[s] = req[s] /\ answer'[s] = answer[s]
    /\ ~At(r, "idle") /\ ~At(r, "end") /\ req'[r].at # "idle"
    /\ req'[r].command = req[r].command
    /\ ~At(r, "reading") => req'[r].id = req[r].id /\ req'[r].validated = req[r].validated
    /\ ~At(r, "validated") => req'[r].found = req[r].found
    /\ req'[r].at # "end" => answer' = answer

(* The place an advance comes from and goes to. *)
LEMMA Advanced ==
    ASSUME TypeInv, NEW r \in Request, Advances(r)
    PROVE  \/ At(r, "begin") /\ Goes(r, "reading")
           \/ At(r, "reading") /\ kind(r) = "create" /\ Goes(r, "added")
           \/ At(r, "validated") /\ kind(r) \in {"update", "delete"} /\ Goes(r, "loading")
           \/ At(r, "loading") /\ Goes(r, "loaded") /\ req[r].id \in DOMAIN tracked'
           \/ At(r, "loaded") /\ Goes(r, "added")
           \/ At(r, "added") /\ Goes(r, "saving")
BY Zenon DEF Advances, AddUser, Assign, SaveChanges

LEMMA HandlerMoves ==
    ASSUME TypeInv, NEW r \in Request, HandlerStep(r)
    PROVE  Moves(r)
<1>1. DOMAIN answer = Request /\ answer[r].code \in {0, 200, 400, 404, 500}
  BY DEF TypeInv, TypeOK
<1>2. ASSUME Advances(r) PROVE Moves(r)
  <2>1. answer' = answer
    BY <1>2 DEF Advances
  <2>2. ASSUME NEW place \in Places \ {"idle", "end"}, Goes(r, place),
               ~At(r, "idle"), ~At(r, "end")
        PROVE  Moves(r)
    BY <1>1, <2>1, <2>2, Gone DEF Moves
  <2>3. /\ {"reading", "added", "loading", "loaded", "saving"} \subseteq Places \ {"idle", "end"}
        /\ \A place \in {"begin", "reading", "validated", "loading", "loaded", "added"} :
              At(r, place) => ~At(r, "idle") /\ ~At(r, "end")
    BY DEF Places, At
  <2>4. QED
    BY <1>2, <2>2, <2>3, Advanced
<1>3. ASSUME ValidateUserCredentials(r) PROVE Moves(r)
  BY <1>1, <1>3, Validated DEF Moves, At
<1>4. ASSUME LookUp(r) PROVE Moves(r)
  BY <1>1, <1>4, LookedUp DEF Moves, At
<1>5. ASSUME Ends(r) PROVE Moves(r)
  <2>1. "end" \in Places /\ Goes(r, "end")
    BY <1>5 DEF Ends, Places
  <2>2. /\ req' \in [Request -> RequestState]
        /\ \A s \in Request \ {r} : req'[s] = req[s]
        /\ req'[r].at = "end" /\ req'[r].command = req[r].command
        /\ req'[r].id = req[r].id /\ req'[r].validated = req[r].validated
        /\ req'[r].found = req[r].found
    BY <2>1, Gone
  <2>3. QED
    BY <1>5, <2>2 DEF Moves, Ends
<1>6. QED
  BY <1>2, <1>3, <1>4, <1>5 DEF HandlerStep

(***************************************************************************)
(* What the places say holds after every step.                             *)
(***************************************************************************)
LEMMA CommandKept ==
    ASSUME NEW r, req'[r].command = req[r].command
    PROVE  /\ kind(r)' = kind(r) /\ user(r)' = user(r)
           /\ password(r)' = password(r) /\ newPassword(r)' = newPassword(r)
BY Zenon DEF kind, user, password, newPassword, message

LEMMA PlaceStays ==
    ASSUME TypeInv, NEW r \in Request, Grows, req'[r] = req[r],
           client'[r] = "idle" => At(r, "idle")
    PROVE  PlaceOf(r)'
<1>1. PlaceOf(r)
  BY DEF TypeInv
<1>2. kind(r)' = kind(r) /\ password(r)' = password(r)
  BY CommandKept
<1>3. At(r, "loaded") => req[r].id \in DOMAIN tracked \cap DOMAIN table
  BY <1>1 DEF PlaceOf, At
<1>4. QED
  BY <1>1, <1>2, <1>3 DEF PlaceOf, At, Grows

LEMMA PlaceReached ==
    ASSUME TypeInv, NEW r \in Request, Grows, HandlerStep(r)
    PROVE  PlaceOf(r)'
<1>1. PlaceOf(r) /\ Moves(r)
  BY HandlerMoves DEF TypeInv
<1>2. kind(r)' = kind(r) /\ password(r)' = password(r)
  BY <1>1, CommandKept DEF Moves
<1>3. client'[r] # "idle"
  BY <1>1 DEF HandlerStep, PlaceOf, Moves
<1>4. req'[r].command \in Commands
  BY <1>1 DEF PlaceOf, Moves
<1>5. ASSUME NEW place \in Places, Goes(r, place)
      PROVE  /\ req'[r].at = place
             /\ req'[r].id = req[r].id /\ req'[r].validated = req[r].validated
             /\ req'[r].found = req[r].found
  BY <1>5, Gone
<1> USE DEF PlaceOf, At, Places
<1>6. ASSUME Advances(r) PROVE PlaceOf(r)'
  <2>1. CASE At(r, "begin") /\ Goes(r, "reading")
    BY <1>1, <1>2, <1>3, <1>4, <1>5, <2>1
  <2>2. CASE At(r, "reading") /\ kind(r) = "create" /\ Goes(r, "added")
    BY <1>1, <1>2, <1>3, <1>4, <1>5, <2>2
  <2>3. CASE At(r, "validated") /\ kind(r) \in {"update", "delete"} /\ Goes(r, "loading")
    BY <1>1, <1>2, <1>3, <1>4, <1>5, <2>3 DEF Grows
  <2>4. CASE At(r, "loading") /\ Goes(r, "loaded") /\ req[r].id \in DOMAIN tracked'
    BY <1>1, <1>2, <1>3, <1>4, <1>5, <2>4 DEF Grows
  <2>5. CASE At(r, "loaded") /\ Goes(r, "added")
    BY <1>1, <1>2, <1>3, <1>4, <1>5, <2>5
  <2>6. CASE At(r, "added") /\ Goes(r, "saving")
    BY <1>1, <1>2, <1>3, <1>4, <1>5, <2>6
  <2>7. QED
    BY <1>6, <2>1, <2>2, <2>3, <2>4, <2>5, <2>6, Advanced
<1>7. ASSUME ValidateUserCredentials(r) PROVE PlaceOf(r)'
  BY <1>1, <1>2, <1>3, <1>4, <1>7, Validated DEF Grows
<1>8. ASSUME LookUp(r) PROVE PlaceOf(r)'
  BY <1>1, <1>2, <1>3, <1>4, <1>8, LookedUp DEF Grows
<1>9. ASSUME Ends(r) PROVE PlaceOf(r)'
  BY <1>3, <1>4, <1>5, <1>9 DEF Ends
<1>10. QED
  BY <1>6, <1>7, <1>8, <1>9 DEF HandlerStep

(***************************************************************************)
(* To the holder of the context: a handler gets it by going to a place     *)
(* where it waits for the database, and only gives it back from there.     *)
(***************************************************************************)
HoldsContext(r) == req[r].at \in {"reading", "loading", "saving"}

HolderStep(r) ==
    \/ busy = r /\ busy' = Null
    \/ busy = Null /\ busy' = r /\ HoldsContext(r)'
    \/ busy' = busy /\ ~HoldsContext(r)

LEMMA HolderSteps ==
    ASSUME TypeInv, NEW r \in Request, Handler(r)
    PROVE  HolderStep(r)
<1>1. ASSUME NEW place \in Places, Goes(r, place) PROVE req'[r].at = place
  BY <1>1, Gone
<1> USE DEF HolderStep, HoldsContext, At, Places
<1>2. ASSUME BeginRead(r) PROVE HolderStep(r)
  BY <1>1, <1>2 DEF BeginRead, Begin
<1>3. ASSUME ReadThrows(r) PROVE HolderStep(r)
  BY <1>3 DEF ReadThrows, Fails, End, ContextInUse, contextVars
<1>4. ASSUME FindTaken(r) PROVE HolderStep(r)
  BY <1>4, Zenon DEF FindTaken, End
<1>5. ASSUME AddUser(r) PROVE HolderStep(r)
  BY <1>5, Zenon DEF AddUser, End
<1>6. ASSUME ReadUnusable(r) PROVE HolderStep(r)
  BY <1>6, Zenon DEF ReadUnusable, End
<1>7. ASSUME GetUserFromUserid(r) PROVE HolderStep(r)
  BY <1>7, Zenon DEF GetUserFromUserid, End
<1>8. ASSUME ValidateUserCredentials(r) PROVE HolderStep(r)
  BY <1>8, Zenon DEF ValidateUserCredentials, End
<1>9. ASSUME Refuse(r) PROVE HolderStep(r)
  BY <1>9, Zenon DEF Refuse, End
<1>10. ASSUME BeginLoad(r) PROVE HolderStep(r)
  BY <1>1, <1>10 DEF BeginLoad, Begin
<1>11. ASSUME Load(r) PROVE HolderStep(r)
  BY <1>11, Zenon DEF Load, End
<1>12. ASSUME LoadThrows(r) PROVE HolderStep(r)
  BY <1>12 DEF LoadThrows, Fails, End, ContextInUse, contextVars
<1>13. ASSUME Assign(r) PROVE HolderStep(r)
  BY <1>13 DEF Assign, contextVars
<1>14. ASSUME SaveChanges(r) PROVE HolderStep(r)
  BY <1>1, <1>14 DEF SaveChanges, BeginSave, Begin
<1>15. ASSUME Saved(r) PROVE HolderStep(r)
  BY <1>15, Zenon DEF Saved, End, SaveSucceeds
<1>16. ASSUME SaveThrows(r) PROVE HolderStep(r)
  BY <1>16 DEF SaveThrows, Fails, End, ContextInUse, contextVars
<1>17. ASSUME LookUp(r) PROVE HolderStep(r)
  BY <1>17 DEF LookUp, contextVars
<1>18. ASSUME CreateSession(r) PROVE HolderStep(r)
  BY <1>18 DEF CreateSession, contextVars
<1>19. ASSUME CreateSessionFails(r) PROVE HolderStep(r)
  BY <1>19 DEF CreateSessionFails, contextVars
<1>20. QED
  BY <1>2, <1>3, <1>4, <1>5, <1>6, <1>7, <1>8, <1>9, <1>10, <1>11, <1>12, <1>13, <1>14, <1>15, <1>16, <1>17, <1>18, <1>19,
     Zenon DEF Handler

(***************************************************************************)
(* To the session keys: a login commits its session, or keys expire.       *)
(***************************************************************************)
CacheStep ==
    \/ UNCHANGED cacheVars
    \/ \E r \in Request : /\ At(r, "found") /\ Ends(r)
                          /\ Committed(r, req[r].id, req[r].found)
    \/ \E s \in Login : Expire(s)

LEMMA CacheSteps ==
    ASSUME TypeInv, [Next]_vars
    PROVE  CacheStep
<1>1. ASSUME NEW r \in Request, Send(r) \/ HttpFails(r) \/ Receive(r) PROVE CacheStep
  BY <1>1, Zenon DEF Send, HttpFails, Receive, CacheStep
<1>2. CASE KeysExpire
  BY <1>2, Zenon DEF KeysExpire, CacheStep
<1>3. CASE UNCHANGED vars
  BY <1>3, Zenon DEF vars, CacheStep
<1>4. ASSUME NEW r \in Request, Handler(r) PROVE CacheStep
  <2>1. ASSUME BeginRead(r) PROVE UNCHANGED cacheVars
    BY <2>1, Zenon DEF BeginRead, cacheVars
  <2>2. ASSUME ReadThrows(r) PROVE UNCHANGED cacheVars
    BY <2>2, Zenon DEF ReadThrows, cacheVars
  <2>3. ASSUME FindTaken(r) PROVE UNCHANGED cacheVars
    BY <2>3, Zenon DEF FindTaken, cacheVars
  <2>4. ASSUME AddUser(r) PROVE UNCHANGED cacheVars
    BY <2>4, Zenon DEF AddUser, cacheVars
  <2>5. ASSUME ReadUnusable(r) PROVE UNCHANGED cacheVars
    BY <2>5, Zenon DEF ReadUnusable, cacheVars
  <2>6. ASSUME GetUserFromUserid(r) PROVE UNCHANGED cacheVars
    BY <2>6, Zenon DEF GetUserFromUserid, cacheVars
  <2>7. ASSUME ValidateUserCredentials(r) PROVE UNCHANGED cacheVars
    BY <2>7, Zenon DEF ValidateUserCredentials, cacheVars
  <2>8. ASSUME Refuse(r) PROVE UNCHANGED cacheVars
    BY <2>8, Zenon DEF Refuse, cacheVars
  <2>9. ASSUME BeginLoad(r) PROVE UNCHANGED cacheVars
    BY <2>9, Zenon DEF BeginLoad, cacheVars
  <2>10. ASSUME Load(r) PROVE UNCHANGED cacheVars
    BY <2>10, Zenon DEF Load, cacheVars
  <2>11. ASSUME LoadThrows(r) PROVE UNCHANGED cacheVars
    BY <2>11, Zenon DEF LoadThrows, cacheVars
  <2>12. ASSUME Assign(r) PROVE UNCHANGED cacheVars
    BY <2>12, Zenon DEF Assign, cacheVars
  <2>13. ASSUME SaveChanges(r) PROVE UNCHANGED cacheVars
    BY <2>13, Zenon DEF SaveChanges, cacheVars
  <2>14. ASSUME Saved(r) PROVE UNCHANGED cacheVars
    BY <2>14, Zenon DEF Saved, cacheVars
  <2>15. ASSUME SaveThrows(r) PROVE UNCHANGED cacheVars
    BY <2>15, Zenon DEF SaveThrows, cacheVars
  <2>16. ASSUME LookUp(r) PROVE UNCHANGED cacheVars
    BY <2>16, Zenon DEF LookUp, cacheVars
  <2>17. ASSUME CreateSession(r)
        PROVE  \/ UNCHANGED cacheVars
               \/ At(r, "found") /\ Committed(r, req[r].id, req[r].found) /\ Ends(r)
    <3>1. CASE UNCHANGED cacheVars
      BY <3>1
    <3>2. CASE At(r, "found") /\ Committed(r, req[r].id, req[r].found)
      <4>1. HandlerStep(r)
        BY <2>17, HandlerSteps, Zenon DEF Handler
      <4>2. ~(Advances(r) \/ ValidateUserCredentials(r) \/ LookUp(r))
        BY <3>2, Advanced, Zenon DEF At, ValidateUserCredentials, LookUp
      <4>3. QED
        BY <3>2, <4>1, <4>2 DEF HandlerStep
    <3>3. QED
      BY <2>17, <3>1, <3>2, Zenon DEF CreateSession
  <2>18. ASSUME CreateSessionFails(r)
        PROVE  \/ UNCHANGED cacheVars
               \/ At(r, "found") /\ Committed(r, req[r].id, req[r].found) /\ Ends(r)
    <3>1. CASE UNCHANGED cacheVars
      BY <3>1
    <3>2. CASE At(r, "found") /\ Committed(r, req[r].id, req[r].found)
      <4>1. HandlerStep(r)
        BY <2>18, HandlerSteps, Zenon DEF Handler
      <4>2. ~(Advances(r) \/ ValidateUserCredentials(r) \/ LookUp(r))
        BY <3>2, Advanced, Zenon DEF At, ValidateUserCredentials, LookUp
      <4>3. QED
        BY <3>2, <4>1, <4>2 DEF HandlerStep
    <3>3. QED
      BY <2>18, <3>1, <3>2, Zenon DEF CreateSessionFails
  <2>19. QED
    BY <1>4, <2>1, <2>2, <2>3, <2>4, <2>5, <2>6, <2>7, <2>8, <2>9, <2>10, <2>11, <2>12, <2>13, <2>14, <2>15, <2>16, <2>17, <2>18,
       Zenon DEF Handler, CacheStep
<1>5. QED
  BY <1>1, <1>2, <1>3, <1>4, Zenon DEF Next

-----------------------------------------------------------------------------
(* Types *)

LEMMA CacheTypes ==
    ASSUME CacheTypeOK, CacheStep
    PROVE  CacheTypeOK'
<1>1. CASE UNCHANGED cacheVars
  BY <1>1 DEF cacheVars, CacheTypeOK
<1>2. ASSUME NEW r \in Request, Committed(r, req[r].id, req[r].found)
      PROVE  CacheTypeOK'
  BY <1>2, ApiServerAssumption DEF Committed, Replaced, Set, Without, CacheTypeOK
<1>3. ASSUME NEW s \in Login, Expire(s) PROVE CacheTypeOK'
  BY <1>3 DEF Expire, Without, CacheTypeOK
<1>4. QED
  BY <1>1, <1>2, <1>3 DEF CacheStep

(* The client sends: nothing else of its request is set yet. *)
LEMMA Sent ==
    ASSUME TypeInv, NEW r \in Request, Send(r)
    PROVE  /\ At(r, "idle")
           /\ req' \in [Request -> RequestState]
           /\ \A s \in Request \ {r} : req'[s] = req[s]
           /\ req'[r].at = "begin" /\ req'[r].command \in Commands
           /\ req'[r].id = 0 /\ req'[r].found = req[r].found
           /\ client'[r] = "waiting" /\ \A s \in Request \ {r} : client'[s] = client[s]
           /\ answer' = answer
<1>1. PICK c \in Commands : req' = [req EXCEPT ![r].at = "begin", ![r].command = c]
  BY Zenon DEF Send
<1>2. req \in [Request -> RequestState] /\ req[r] \in RequestState
  BY DEF TypeInv
<1>3. At(r, "idle") /\ req[r].id = 0
  BY DEF TypeInv, PlaceOf, Send, At
<1> DEFINE new == [req[r] EXCEPT !.at = "begin", !.command = c]
<1>4. req' = [req EXCEPT ![r] = new]
  BY <1>1, <1>2
<1>5. /\ new \in RequestState
      /\ new.at = "begin" /\ new.command = c /\ new.id = req[r].id
      /\ new.found = req[r].found
  BY <1>2 DEF RequestState, Places
<1> HIDE DEF new
<1>6. /\ req' \in [Request -> RequestState]
      /\ \A s \in Request \ {r} : req'[s] = req[s]
      /\ req'[r] = new
  BY <1>2, <1>4, <1>5
<1>7. client'[r] = "waiting" /\ \A s \in Request \ {r} : client'[s] = client[s]
  BY DEF Send, TypeInv, TypeOK
<1>8. QED
  BY <1>3, <1>5, <1>6, <1>7 DEF Send

(* The client alone goes on. *)
LEMMA ClientGoesOn ==
    ASSUME TypeInv, NEW r \in Request, HttpFails(r) \/ Receive(r)
    PROVE  /\ UNCHANGED <<req, answer>>
           /\ client' \in [Request -> {"idle", "waiting", "menu", "failed", "chat", "terminated"}]
           /\ client'[r] # "idle" /\ \A s \in Request \ {r} : client'[s] = client[s]
<1>1. client \in [Request -> {"idle", "waiting", "menu", "failed", "chat", "terminated"}]
  BY DEF TypeInv, TypeOK
<1>2. CASE HttpFails(r)
  BY <1>1, <1>2 DEF HttpFails
<1>3. CASE Receive(r)
  <2>1. Outcome(kind(r), Parse(UserResponse, answer[r].body)) \in {"menu", "failed", "chat"}
    BY DEF Outcome
  <2>2. QED
    BY <1>1, <1>3, <2>1 DEF Receive
<1>4. QED
  BY <1>2, <1>3

LEMMA TypeStep ==
    ASSUME TypeInv, [Next]_vars
    PROVE  TypeInv'
<1>1. RowsOK' /\ EntitiesOK' /\ SavingOK' /\ Grows
  BY ContextSteps, ContextKept
<1>2. CacheTypeOK'
  BY CacheSteps, CacheTypes DEF TypeInv, TypeOK
<1> DEFINE clients == {"idle", "waiting", "menu", "failed", "chat", "terminated"}
           codes == {0, 200, 400, 404, 500}
           RestOK == /\ busy' \in Request \cup {Null}
                     /\ req' \in [Request -> RequestState]
                     /\ \A s \in Request : req'[s].command \in Commands \cup {NoCommand}
                     /\ DOMAIN answer' = Request
                     /\ \A s \in Request : answer'[s].code \in codes
                     /\ client' \in [Request -> clients]
                     /\ \A s \in Request : PlaceOf(s)'
<1>3. /\ busy \in Request \cup {Null} /\ req \in [Request -> RequestState]
      /\ \A s \in Request : req[s].command \in Commands \cup {NoCommand}
      /\ DOMAIN answer = Request /\ \A s \in Request : answer[s].code \in codes
      /\ client \in [Request -> clients] /\ \A s \in Request : PlaceOf(s)
  BY DEF TypeInv, TypeOK, ContextTypeOK
<1>4. \A s \in Request : client[s] = "idle" => At(s, "idle")
  BY <1>3 DEF PlaceOf
<1>5. ASSUME NEW r \in Request, Send(r) PROVE RestOK
  <2>1. busy' = busy
    BY <1>5 DEF Send, contextVars
  <2>2. \A s \in Request \ {r} : PlaceOf(s)'
    BY <1>1, <1>4, <1>5, Sent, PlaceStays
  <2>3. PlaceOf(r)'
    BY <1>3, <1>5, Sent DEF PlaceOf, At
  <2>4. client' \in [Request -> clients]
    BY <1>3, <1>5 DEF Send
  <2>5. \A s \in Request : req'[s].command \in Commands \cup {NoCommand}
    BY <1>3, <1>5, Sent
  <2>6. QED
    BY <1>3, <1>5, <2>1, <2>2, <2>3, <2>4, <2>5, Sent
<1>6. ASSUME NEW r \in Request, HttpFails(r) \/ Receive(r) PROVE RestOK
  <2>1. busy' = busy
    BY <1>6 DEF HttpFails, Receive, contextVars
  <2>2. \A s \in Request : client'[s] = "idle" => At(s, "idle")
    BY <1>4, <1>6, ClientGoesOn
  <2>3. \A s \in Request : PlaceOf(s)'
    BY <1>1, <1>6, <2>2, ClientGoesOn, PlaceStays
  <2>4. QED
    BY <1>3, <1>6, <2>1, <2>3, ClientGoesOn
<1>7. ASSUME NEW r \in Request, Handler(r) PROVE RestOK
  <2>1. HandlerStep(r) /\ Moves(r) /\ HolderStep(r)
    BY <1>7, HandlerSteps, HandlerMoves, HolderSteps
  <2>2. busy' \in Request \cup {Null}
    BY <1>3, <2>1 DEF HolderStep
  <2>3. \A s \in Request \ {r} : PlaceOf(s)'
    BY <1>1, <1>4, <2>1, PlaceStays DEF Moves, HandlerStep
  <2>4. PlaceOf(r)'
    BY <1>1, <2>1, PlaceReached
  <2>5. /\ \A s \in Request : req'[s].command \in Commands \cup {NoCommand}
        /\ \A s \in Request : answer'[s].code \in codes
    BY <1>3, <2>1 DEF Moves
  <2>6. QED
    BY <1>3, <2>1, <2>2, <2>3, <2>4, <2>5 DEF Moves, HandlerStep
<1>8. ASSUME UNCHANGED <<busy, req, answer, client>> PROVE RestOK
  BY <1>1, <1>3, <1>4, <1>8, PlaceStays
<1> HIDE DEF RestOK
<1>9. RestOK
  BY <1>5, <1>6, <1>7, <1>8, Zenon DEF Next, KeysExpire, vars, contextVars
<1>10. req' \in [Request -> RequestState] => \A s \in Request : req'[s].at \in Places
  BY DEF RequestState
<1>11. QED
  BY <1>1, <1>2, <1>9, <1>10
     DEF RestOK, TypeInv, TypeOK, ContextTypeOK, RowsOK, EntitiesOK, SavingOK

LEMMA TypesAtFirst == Init => TypeInv
<1> SUFFICES ASSUME Init PROVE TypeInv
  OBVIOUS
<1>1. ContextTypeOK /\ IsFiniteSet(DOMAIN tracked)
  BY EntityContextAssumption, FS_EmptySet DEF Init, ContextInit, ContextTypeOK, Nothing
<1>2. CacheTypeOK
  BY DEF Init, CacheInit, CacheTypeOK
<1>3. Idle \in RequestState
  BY DEF Idle, RequestState, Places
<1>4. req \in [Request -> RequestState] /\ \A r \in Request : req[r] = Idle
  BY <1>3 DEF Init
<1>5. \A r \in Request : PlaceOf(r)
  BY <1>4 DEF Init, Idle, PlaceOf, At
<1>6. /\ DOMAIN answer = Request
      /\ \A r \in Request : answer[r].code = 0
      /\ client \in [Request -> {"idle", "waiting", "menu", "failed", "chat", "terminated"}]
  BY DEF Init, NoAnswer
<1>7. QED
  BY <1>1, <1>2, <1>4, <1>5, <1>6 DEF TypeInv, TypeOK, Idle, Places

LEMMA TypesAlways == Spec => []TypeInv
<1>1. Init => TypeInv
  BY TypesAtFirst
<1>2. TypeInv /\ [Next]_vars => TypeInv'
  BY TypeStep
<1>3. QED
  BY <1>1, <1>2, PTL DEF Spec

(***************************************************************************)
(* The table, the context, the session keys and every handler keep their   *)
(* types: no request is at an entity the context does not track and no     *)
(* save writes what was not there (HStarContext, UserWriteService.cs).     *)
(***************************************************************************)
THEOREM TypeCorrect == Spec => []TypeOK
<1>1. TypeInv => TypeOK
  BY DEF TypeInv
<1>2. QED
  BY <1>1, TypesAlways, PTL

-----------------------------------------------------------------------------
(* The holder of the context *)

LEMMA HolderKept ==
    ASSUME TypeInv, ContextIsFreed, [Next]_vars
    PROVE  ContextIsFreed'
<1>1. ContextIsFreed' <=> (busy' # Null => HoldsContext(busy)')
  BY DEF ContextIsFreed, HoldsContext
<1>2. busy \in Request \cup {Null} /\ (busy # Null => HoldsContext(busy))
  BY TypeInvGives DEF ContextIsFreed, HoldsContext
<1>3. ASSUME NEW r \in Request, Send(r) PROVE ContextIsFreed'
  <2>1. busy' = busy /\ (busy # Null => busy # r)
    BY <1>2, <1>3, Sent DEF Send, contextVars, HoldsContext, At
  <2>2. QED
    BY <1>1, <1>2, <1>3, <2>1, Sent DEF HoldsContext
<1>4. ASSUME NEW r \in Request, Handler(r) PROVE ContextIsFreed'
  <2>1. Moves(r) /\ HolderStep(r)
    BY <1>4, HandlerSteps, HandlerMoves, HolderSteps
  <2>2. CASE busy' = busy /\ ~HoldsContext(r)
    BY <1>1, <1>2, <2>1, <2>2 DEF Moves, HoldsContext
  <2>3. QED
    BY <1>1, <2>1, <2>2 DEF HolderStep
<1>5. ASSUME UNCHANGED <<busy, req>> PROVE ContextIsFreed'
  BY <1>5 DEF ContextIsFreed
<1>6. QED
  BY <1>3, <1>4, <1>5, Zenon DEF Next, KeysExpire, HttpFails, Receive, vars, contextVars

(***************************************************************************)
(* However requests collide on the one context and whatever fails, the     *)
(* request that holds it waits for the database and gives it back with the *)
(* answer (UserRepositoryFromMysql.cs:22-44, 89-168).                      *)
(***************************************************************************)
THEOREM ContextFreed == Spec => []ContextIsFreed
<1>1. Init => ContextIsFreed
  BY DEF Init, ContextInit, ContextIsFreed
<1>2. TypeInv /\ ContextIsFreed /\ [Next]_vars => ContextIsFreed'
  BY HolderKept
<1>3. QED
  BY <1>1, <1>2, TypesAlways, PTL DEF Spec

-----------------------------------------------------------------------------
(* Sessions *)

(* Once a request has ended, it is done. *)
LEMMA EndedStays ==
    ASSUME TypeInv, [Next]_vars, NEW s \in Request, At(s, "end")
    PROVE  req'[s] = req[s] /\ answer'[s] = answer[s]
<1>1. ASSUME NEW r \in Request, Send(r) PROVE req'[s] = req[s] /\ answer'[s] = answer[s]
  BY <1>1, Sent DEF At
<1>2. ASSUME NEW r \in Request, Handler(r) PROVE req'[s] = req[s] /\ answer'[s] = answer[s]
  BY <1>2, HandlerSteps, HandlerMoves DEF Moves
<1>3. ASSUME UNCHANGED <<req, answer>> PROVE req'[s] = req[s] /\ answer'[s] = answer[s]
  BY <1>3
<1>4. QED
  BY <1>1, <1>2, <1>3, Zenon DEF Next, KeysExpire, HttpFails, Receive, vars

(* What a login finds is the session of a login to its account. *)
LEMMA FoundKept ==
    ASSUME TypeInv, SessionsInv, [Next]_vars, NEW r \in Request, req'[r].found # NoSession
    PROVE  OfLogin(req[r].found, req[r].id)'
<1> DEFINE old == req'[r].found
<1>1. old \in Request /\ req[r].found \in Request \cup {NoSession}
  BY TypeStep, ApiServerAssumption DEF TypeInv, RequestState
<1>2. PlaceOf(r)' /\ PlaceOf(r)
  BY TypeStep DEF TypeInv
<1>3. \/ old = req[r].found /\ req'[r].id = req[r].id
      \/ LookUp(r)
  <2>1. CASE \E t \in Request : Send(t)
    BY <1>2, <2>1, Sent DEF PlaceOf, At
  <2>2. CASE \E t \in Request \ {r} : Handler(t)
    BY <2>2, HandlerSteps, HandlerMoves DEF Moves
  <2>3. CASE Handler(r)
    <3>1. HandlerStep(r)
      BY <2>3, HandlerSteps
    <3>2. CASE Advances(r)
      <4>1. ASSUME NEW place \in Places, Goes(r, place)
            PROVE  req'[r].found = req[r].found /\ req'[r].id = req[r].id
        BY <4>1, Gone
      <4>2. {"reading", "added", "loading", "loaded", "saving"} \subseteq Places
        BY DEF Places
      <4>3. QED
        BY <3>2, <4>1, <4>2, Advanced
    <3>3. CASE Ends(r)
      BY <3>3, Gone DEF Ends, Places
    <3>4. CASE ValidateUserCredentials(r)
      BY <1>2, <3>4, Validated DEF PlaceOf
    <3>5. QED
      BY <3>1, <3>2, <3>3, <3>4 DEF HandlerStep
  <2>4. CASE UNCHANGED req
    BY <2>4
  <2>5. QED
    BY <2>1, <2>2, <2>3, <2>4, Zenon DEF Next, KeysExpire, HttpFails, Receive, vars
<1>4. OfLogin(old, req'[r].id)
  <2>1. CASE old = req[r].found /\ req'[r].id = req[r].id
    BY <2>1 DEF SessionsInv
  <2>2. CASE LookUp(r)
    <3>1. old = Found(req[r].id) /\ req'[r].id = req[r].id
      BY <2>2, LookedUp
    <3>2. req[r].id \in DOMAIN account /\ old = account[req[r].id]
      BY <3>1 DEF Found
    <3>3. old \in DOMAIN session /\ session[old] = req[r].id
      BY <3>2 DEF SessionsInv, AccountNamesItsSession
    <3>4. QED
      BY <3>1, <3>3 DEF SessionsInv
  <2>3. QED
    BY <1>3, <2>1, <2>2
<1>5. req'[old] = req[old]
  BY <1>1, <1>4, EndedStays DEF OfLogin
<1>6. QED
  BY <1>4, <1>5 DEF OfLogin, At

(* What the session keys hold after a login has committed its session. *)
LEMMA CommittedKeys ==
    ASSUME TypeInv, SessionsInv, NEW r \in Request, At(r, "found"),
           Committed(r, req[r].id, req[r].found)
    PROVE  /\ AccountNamesItsSession'
           /\ \A s \in DOMAIN session' : s # r => s \in DOMAIN session /\ session'[s] = session[s]
           /\ session'[r] = req[r].id
<1> DEFINE id == req[r].id
           old == req[r].found
<1>1. /\ account' = Set(account, id, r)
      /\ session' = Set(Without(session, old), r, id)
  BY DEF Committed, Replaced
<1>2. /\ DOMAIN session' = (DOMAIN session \ {old}) \cup {r}
      /\ \A s \in DOMAIN session \ {old} : s # r => session'[s] = session[s]
      /\ session'[r] = id
  BY <1>1 DEF Set, Without
<1>3. /\ DOMAIN account' = DOMAIN account \cup {id}
      /\ \A i \in DOMAIN account : i # id => account'[i] = account[i]
      /\ account'[id] = r
  BY <1>1 DEF Set
<1>4. ASSUME NEW i \in DOMAIN account, i # id
      PROVE  account[i] \in DOMAIN session' /\ session'[account[i]] = i
  <2>1. account[i] \in DOMAIN session /\ session[account[i]] = i
    BY DEF SessionsInv, AccountNamesItsSession
  <2>2. OfLogin(account[i], i)
    BY <2>1 DEF SessionsInv
  <2>3. account[i] # r
    BY <2>2 DEF OfLogin, At
  <2>4. account[i] # old
    <3>1. account[i] # NoSession
      BY SessionCacheAssumption DEF TypeInv, TypeOK, CacheTypeOK
    <3>2. old # NoSession => req[old].id = id
      BY DEF SessionsInv, OfLogin
    <3>3. QED
      BY <1>4, <2>2, <3>1, <3>2 DEF OfLogin
  <2>5. QED
    BY <1>2, <2>1, <2>3, <2>4
<1> HIDE DEF id, old
<1>5. AccountNamesItsSession'
  BY <1>2, <1>3, <1>4 DEF AccountNamesItsSession
<1>6. QED
  BY <1>2, <1>5 DEF id

LEMMA SessionsKept ==
    ASSUME TypeInv, SessionsInv, [Next]_vars
    PROVE  SessionsInv'
<1>1. \A r \in Request : (req[r].found # NoSession => OfLogin(req[r].found, req[r].id))'
  BY FoundKept
<1>2. DOMAIN session \subseteq Request /\ DOMAIN session' \subseteq Request
  BY TypeStep, ApiServerAssumption DEF TypeInv, TypeOK, CacheTypeOK
<1>3. \A s \in DOMAIN session : At(s, "end") /\ req[s].id = session[s] /\ req'[s] = req[s]
  BY <1>2, EndedStays DEF SessionsInv, OfLogin
<1> DEFINE Kept == \A s \in DOMAIN session' : OfLogin(s, session[s])'
<1>4. CASE UNCHANGED cacheVars
  <2>1. account' = account /\ session' = session
    BY <1>4 DEF cacheVars
  <2>2. AccountNamesItsSession'
    BY <2>1 DEF SessionsInv, AccountNamesItsSession
  <2>3. Kept
    BY <1>3, <2>1 DEF OfLogin, At
  <2>4. QED
    BY <1>1, <2>2, <2>3 DEF SessionsInv
<1>5. ASSUME NEW r \in Request, At(r, "found"), Ends(r),
             Committed(r, req[r].id, req[r].found)
      PROVE  SessionsInv'
  <2>1. /\ AccountNamesItsSession'
        /\ \A s \in DOMAIN session' : s # r => s \in DOMAIN session /\ session'[s] = session[s]
        /\ session'[r] = req[r].id
    BY <1>5, CommittedKeys
  <2>2. req'[r].at = "end" /\ req'[r].id = req[r].id
    BY <1>5, Gone DEF Ends, Places
  <2>3. Kept
    BY <1>3, <2>1, <2>2 DEF OfLogin, At
  <2>4. QED
    BY <1>1, <2>1, <2>3 DEF SessionsInv
<1>6. ASSUME NEW s \in Login, Expire(s) PROVE SessionsInv'
  <2>1. /\ DOMAIN session' = DOMAIN session \ {s}
        /\ \A t \in DOMAIN session' : session'[t] = session[t]
        /\ DOMAIN account' = {i \in DOMAIN account : account[i] # s}
        /\ \A i \in DOMAIN account' : account'[i] = account[i]
    BY <1>6 DEF Expire, Without
  <2>2. AccountNamesItsSession'
    BY <2>1 DEF SessionsInv, AccountNamesItsSession
  <2>3. Kept
    BY <1>3, <2>1 DEF OfLogin, At
  <2>4. QED
    BY <1>1, <2>2, <2>3 DEF SessionsInv
<1>7. QED
  BY <1>4, <1>5, <1>6, CacheSteps DEF CacheStep

(***************************************************************************)
(* However logins overlap and whatever expires, the session an account key *)
(* names exists and is of this account (CacheRepositoryFromRedis.cs:35-74). *)
(***************************************************************************)
THEOREM AccountsNameSessions == Spec => []AccountNamesItsSession
<1>1. Init => SessionsInv
  BY DEF Init, CacheInit, Idle, SessionsInv, AccountNamesItsSession
<1>2. TypeInv /\ SessionsInv /\ [Next]_vars => SessionsInv'
  BY SessionsKept
<1>3. SessionsInv => AccountNamesItsSession
  BY DEF SessionsInv
<1>4. QED
  BY <1>1, <1>2, <1>3, TypesAlways, PTL DEF Spec

-----------------------------------------------------------------------------
(* Answers *)

LEMMA AnswersKept ==
    ASSUME TypeInv, AnswersInv, [Next]_vars
    PROVE  AnswersInv'
<1> DEFINE Told(r) == \/ answer[r].body = ErrorBody
                      \/ answer[r].body = LoginBody(r) /\ req[r].validated = password(r)
           Chats(r) == /\ At(r, "end") /\ kind(r) = "login" /\ answer[r].body = LoginBody(r)
                       /\ req[r].validated = password(r)
<1>1. \A r \in Request : /\ At(r, "end") /\ kind(r) = "login" => Told(r)
                         /\ client[r] = "chat" => Chats(r)
  BY DEF AnswersInv
<1>2. \A r \in Request : At(r, "end") =>
        (At(r, "end") /\ Told(r) => Told(r)') /\ (Chats(r) => Chats(r)')
  <2> SUFFICES ASSUME NEW r \in Request, At(r, "end")
               PROVE  (Told(r) => Told(r)') /\ (Chats(r) => Chats(r)')
    OBVIOUS
  <2>1. req'[r] = req[r] /\ answer'[r] = answer[r]
    BY EndedStays
  <2>2. kind(r)' = kind(r) /\ password(r)' = password(r)
    BY <2>1, CommandKept
  <2>3. QED
    BY <2>1, <2>2 DEF At
<1>3. \A r \in Request : (At(r, "end") /\ kind(r) = "login" => Told(r))'
  <2> SUFFICES ASSUME NEW r \in Request, At(r, "end")', kind(r)' = "login"
               PROVE  Told(r)'
    OBVIOUS
  <2>1. CASE At(r, "end")
    <3>1. kind(r)' = kind(r)
      BY <2>1, EndedStays, CommandKept
    <3>2. QED
      BY <1>1, <1>2, <2>1, <3>1
  <2>2. ASSUME Handler(r), ~At(r, "end") PROVE Told(r)'
    <3>1. HandlerStep(r) /\ Moves(r) /\ PlaceOf(r)
      BY <2>2, HandlerSteps, HandlerMoves DEF TypeInv
    <3>2. Ends(r)
      <4>1. ASSUME Advances(r) PROVE FALSE
        <5>1. ASSUME NEW place \in Places \ {"end"}, Goes(r, place) PROVE FALSE
          BY <5>1, Gone DEF At
        <5>2. {"reading", "added", "loading", "loaded", "saving"} \subseteq Places \ {"end"}
          BY DEF Places
        <5>3. QED
          BY <4>1, <5>1, <5>2, Advanced
      <4>2. QED
        BY <3>1, <4>1, Validated, LookedUp DEF HandlerStep, At
    <3>3. kind(r)' = kind(r) /\ password(r)' = password(r)
      BY <3>1, CommandKept DEF Moves
    <3>4. \/ answer'[r].body = ErrorBody
          \/ answer'[r].body = LoginBody(r) /\ At(r, "found")
      BY <3>2, <3>3 DEF Ends
    <3>5. At(r, "found") => req'[r].validated = password(r)
      BY <3>1 DEF PlaceOf, Moves, At
    <3>6. QED
      BY <3>3, <3>4, <3>5
  <2>3. ASSUME req'[r] = req[r], ~At(r, "end") PROVE FALSE
    BY <2>3 DEF At
  <2>4. ASSUME NEW t \in Request \ {r}, Handler(t) PROVE req'[r] = req[r]
    BY <2>4, HandlerSteps, HandlerMoves DEF Moves
  <2>5. ASSUME NEW t \in Request, Send(t) PROVE req'[r] = req[r]
    BY <2>5, Sent DEF At
  <2>6. QED
    BY <2>1, <2>2, <2>3, <2>4, <2>5, Zenon DEF Next, KeysExpire, HttpFails, Receive, vars
<1>4. \A r \in Request : (client[r] = "chat" => Chats(r))'
  <2> SUFFICES ASSUME NEW r \in Request, client'[r] = "chat"
               PROVE  Chats(r)'
    OBVIOUS
  <2>1. CASE client[r] = "chat"
    BY <1>1, <1>2, <2>1
  <2>2. CASE Receive(r)
    <3>1. At(r, "end") /\ Outcome(kind(r), Parse(UserResponse, answer[r].body)) = "chat"
      BY <2>2 DEF Receive, TypeInv, TypeOK
    <3>2. kind(r) = "login"
      BY <3>1 DEF Outcome
    <3>3. answer[r].body # ErrorBody
      BY <3>1, <3>2, AnswersAreTold
    <3>4. Chats(r)
      BY <1>1, <3>1, <3>2, <3>3
    <3>5. QED
      BY <1>2, <3>1, <3>4
  <2>3. ASSUME NEW t \in Request, Send(t) PROVE client[r] = "chat"
    BY <2>3, Sent
  <2>4. ASSUME NEW t \in Request \ {r}, Receive(t) PROVE client[r] = "chat"
    BY <2>4, ClientGoesOn
  <2>5. ASSUME NEW t \in Request, HttpFails(t) PROVE client[r] = "chat"
    BY <2>5 DEF HttpFails, TypeInv, TypeOK
  <2>6. ASSUME NEW t \in Request, Handler(t) PROVE client[r] = "chat"
    BY <2>6, HandlerSteps DEF HandlerStep
  <2>7. QED
    BY <2>1, <2>2, <2>3, <2>4, <2>5, <2>6, Zenon DEF Next, KeysExpire, vars
<1>5. QED
  BY <1>3, <1>4 DEF AnswersInv

(***************************************************************************)
(* A client that chats has the session id the server made for its login,   *)
(* and the server was given the password of the account                    *)
(* (Client.cpp:91-100, HttpClient.cpp:85-98).                              *)
(***************************************************************************)
THEOREM ChatsHaveSessions == Spec => []ChatNeedsSession
<1>1. Init => AnswersInv
  BY DEF Init, AnswersInv, Idle, At
<1>2. TypeInv /\ AnswersInv /\ [Next]_vars => AnswersInv'
  BY AnswersKept
<1>3. AnswersInv => ChatNeedsSession
  BY AnswersAreTold DEF AnswersInv, ChatNeedsSession, ChatSession
<1>4. QED
  BY <1>1, <1>2, <1>3, TypesAlways, PTL DEF Spec

-----------------------------------------------------------------------------
(* Users of rows and entities *)

(* Saving in terms of rows: what the invariants below are about. *)
LEMMA SavedRows ==
    ASSUME TypeInv, UsersInv, NEW r \in Request, SaveSucceeds(r)
    PROVE  \E newId :
             /\ \A id \in DOMAIN table :
                   /\ id \in DOMAIN table'
                   /\ id \in DOMAIN saving => table'[id] = saving[id]
                   /\ id \notin DOMAIN saving => table'[id] = table[id]
             /\ \A k \in New : /\ newId[k] \in DOMAIN table' \ DOMAIN table
                               /\ table'[newId[k]] = tracked[k].row
                               /\ newId[k] \in DOMAIN tracked'
                               /\ tracked'[newId[k]].row = tracked[k].row
             /\ \A id \in DOMAIN table' : id \in DOMAIN table \/ \E k \in New : id = newId[k]
             /\ \A k \in DOMAIN tracked' :
                   \/ \E l \in New : k = newId[l]
                   \/ k \in DOMAIN tracked \ New /\ tracked'[k].row = tracked[k].row
             /\ \A k \in DOMAIN tracked \ DOMAIN saving :
                   k \in DOMAIN tracked' /\ tracked'[k] = tracked[k]
             /\ DOMAIN saving' = {}
<1>1. PICK newId : Saves(newId) /\ Cardinality(New) \in Nat
  BY SaveNumbers
<1>2. /\ \A id \in DOMAIN table :
            /\ id \in DOMAIN table'
            /\ id \in DOMAIN saving => table'[id] = saving[id]
            /\ id \notin DOMAIN saving => table'[id] = table[id]
      /\ \A k \in New : newId[k] \in DOMAIN table' /\ table'[newId[k]] = saving[k]
      /\ \A id \in DOMAIN table' : id \in DOMAIN table \/ \E k \in New : id = newId[k]
  BY <1>1, SaveWrites
<1>3. /\ DOMAIN tracked' = (DOMAIN tracked \ New) \cup {newId[k] : k \in New}
      /\ \A k \in DOMAIN tracked \ New :
            /\ k \in DOMAIN saving =>
                  tracked'[k] = [tracked[k] EXCEPT !.state = "Unchanged"]
            /\ k \notin DOMAIN saving => tracked'[k] = tracked[k]
      /\ \A k \in New : tracked'[newId[k]] = [tracked[k] EXCEPT !.state = "Unchanged"]
  BY <1>1, SaveTracks
<1>4. \A k \in DOMAIN tracked : [tracked[k] EXCEPT !.state = "Unchanged"].row = tracked[k].row
  <2>1. \A e \in Entity : [e EXCEPT !.state = "Unchanged"].row = e.row
    BY DEF Entity
  <2>2. QED
    BY <2>1, TypeInvGives, Zenon DEF EntitiesOK
<1>5. /\ New \subseteq DOMAIN tracked /\ New \subseteq DOMAIN saving
      /\ \A k \in New : saving[k] = tracked[k].row
  BY TypeInvGives DEF New, SavingOK, UsersInv
<1>6. \A k \in New : /\ newId[k] \in DOMAIN table' \ DOMAIN table
                     /\ table'[newId[k]] = tracked[k].row
  BY <1>1, <1>2, <1>5, KeysOfContext DEF Saves
<1>7. \A k \in New : newId[k] \in DOMAIN tracked' /\ tracked'[newId[k]].row = tracked[k].row
  BY <1>3, <1>4, <1>5, Zenon
<1>8. \A k \in DOMAIN tracked \ New : tracked'[k].row = tracked[k].row
  BY <1>3, <1>4, Zenon
<1>9. \A k \in DOMAIN tracked' :
        \/ \E l \in New : k = newId[l]
        \/ k \in DOMAIN tracked \ New /\ tracked'[k].row = tracked[k].row
  BY <1>3, <1>8
<1>10. \A k \in DOMAIN tracked \ DOMAIN saving :
         k \in DOMAIN tracked' /\ tracked'[k] = tracked[k]
  BY <1>3, <1>5
<1>11. DOMAIN saving' = {}
  BY <1>1 DEF Saves, Nothing
<1> WITNESS newId
<1>12. QED
  BY <1>2, <1>6, <1>7, <1>9, <1>10, <1>11

(* A request that has added its entity keeps the command. *)
LEMMA AdderStays ==
    ASSUME TypeInv, [Next]_vars, NEW r \in Request, req[r].at \in {"added", "saving", "end"}
    PROVE  /\ req'[r].at \in {"added", "saving", "end"}
           /\ kind(r)' = kind(r) /\ user(r)' = user(r)
<1>1. CASE req'[r] = req[r]
  BY <1>1, CommandKept
<1>2. ASSUME Handler(r) PROVE /\ req'[r].at \in {"added", "saving", "end"}
                              /\ kind(r)' = kind(r) /\ user(r)' = user(r)
  <2>1. HandlerStep(r) /\ Moves(r)
    BY <1>2, HandlerSteps, HandlerMoves
  <2>2. Goes(r, "saving") \/ Goes(r, "end")
    <3>1. CASE Advances(r)
      BY <2>1, <3>1, Advanced DEF At, Moves
    <3>2. CASE Ends(r)
      BY <3>2 DEF Ends
    <3>3. QED
      BY <2>1, <3>1, <3>2, Validated, LookedUp DEF HandlerStep, At
  <2>3. req'[r].at \in {"saving", "end"}
    BY <2>2, Gone DEF Places
  <2>4. QED
    BY <2>1, <2>3, CommandKept DEF Moves
<1>3. ASSUME NEW t \in Request \ {r}, Handler(t) PROVE req'[r] = req[r]
  BY <1>3, HandlerSteps, HandlerMoves DEF Moves
<1>4. ASSUME NEW t \in Request, Send(t) PROVE req'[r] = req[r]
  BY <1>4, Sent DEF At
<1>5. QED
  BY <1>1, <1>2, <1>3, <1>4, Zenon DEF Next, KeysExpire, HttpFails, Receive, vars

LEMMA UsersKept ==
    ASSUME TypeInv, UsersInv, [Next]_vars
    PROVE  /\ UsersInv'
           /\ \A id \in DOMAIN table : id \in DOMAIN table' /\ table'[id].user = table[id].user
<1> DEFINE Same == \A id \in DOMAIN table :
                      id \in DOMAIN table' /\ table'[id].user = table[id].user
           Adder(r) == /\ tracked[r].state = "Added" /\ tracked[r].row.user = user(r)
                       /\ req[r].at \in {"added", "saving", "end"}
<1>1. /\ \A r \in DOMAIN tracked \cap Request : Adder(r)
      /\ \A r \in DOMAIN saving \cap Request : saving[r] = tracked[r].row
      /\ \A id \in DOMAIN tracked \cap Nat : tracked[id].row.user = table[id].user
      /\ \A id \in DOMAIN saving \cap Nat : saving[id].user = table[id].user
  BY DEF UsersInv
<1>2. /\ DOMAIN table \subseteq Nat /\ DOMAIN tracked \subseteq DOMAIN table \cup Request
      /\ DOMAIN saving \subseteq DOMAIN tracked /\ Request \cap Nat = {}
  BY KeysOfContext, ApiServerAssumption
<1>3. ASSUME NEW r \in DOMAIN tracked \cap Request, r \in DOMAIN tracked', tracked'[r] = tracked[r]
      PROVE  Adder(r)'
  BY <1>1, <1>3, AdderStays
<1>4. CASE KeepsContext \/ GivesUp
  <2>1. UNCHANGED <<table, tracked>> /\ (saving' = saving \/ DOMAIN saving' = {})
    BY <1>4 DEF KeepsContext, GivesUp, Nothing
  <2>2. QED
    BY <1>1, <1>3, <2>1 DEF UsersInv
<1>5. CASE LoadsRows
  <2>1. PICK ids \in SUBSET DOMAIN table : tracked' = Loaded(ids)
    BY <1>5 DEF LoadsRows
  <2>2. /\ DOMAIN tracked' = DOMAIN tracked \cup ids
        /\ \A k \in DOMAIN tracked : tracked'[k] = tracked[k]
        /\ \A k \in ids \ DOMAIN tracked : tracked'[k].row = table[k]
        /\ UNCHANGED <<table, saving>>
    BY <1>5, <2>1, LoadingKeeps DEF LoadsRows
  <2>3. \A r \in DOMAIN tracked' \cap Request : Adder(r)'
    BY <1>2, <1>3, <2>2
  <2>4. QED
    BY <1>1, <1>2, <2>2, <2>3 DEF UsersInv
<1>6. ASSUME NEW r \in Request, AddUser(r) PROVE UsersInv' /\ Same
  <2>1. r \notin DOMAIN tracked
    BY <1>1, <1>6 DEF AddUser, At
  <2>2. /\ DOMAIN tracked' = DOMAIN tracked \cup {r}
        /\ \A k \in DOMAIN tracked : tracked'[k] = tracked[k]
        /\ tracked'[r].row = NewRow(r) /\ tracked'[r].state = "Added"
        /\ UNCHANGED <<table, saving>>
    BY <1>6, <2>1, AddingKeeps DEF AddUser
  <2>3. req'[r].at = "added" /\ user(r)' = user(r)
    BY <1>6, Gone, CommandKept DEF AddUser, Places
  <2>4. NewRow(r).user = user(r)
    BY DEF NewRow
  <2>5. \A s \in DOMAIN tracked' \cap Request : Adder(s)'
    BY <1>3, <2>2, <2>3, <2>4
  <2>6. QED
    BY <1>1, <1>2, <2>1, <2>2, <2>5 DEF UsersInv
<1>7. ASSUME NEW r \in Request, Assign(r) PROVE UsersInv' /\ Same
  <2>1. /\ req[r].id \in DOMAIN tracked \cap DOMAIN table
        /\ DOMAIN tracked' = DOMAIN tracked
        /\ \A k \in DOMAIN tracked : k # req[r].id => tracked'[k] = tracked[k]
        /\ tracked'[req[r].id].row = AssignedRow(r, tracked[req[r].id].row)
        /\ UNCHANGED <<table, saving>>
    BY <1>7, AssigningKeeps DEF Assign
  <2>2. AssignedRow(r, tracked[req[r].id].row).user = tracked[req[r].id].row.user
    <3>1. tracked[req[r].id].row \in Row
      BY <2>1, TypeInvGives DEF EntitiesOK, Entity
    <3>2. QED
      BY <3>1 DEF AssignedRow, Row
  <2>3. \A s \in DOMAIN tracked' \cap Request : Adder(s)'
    BY <1>2, <1>3, <2>1
  <2>4. \A id \in DOMAIN tracked \cap Nat : tracked'[id].row.user = tracked[id].row.user
    BY <2>1, <2>2
  <2>5. \A s \in DOMAIN saving \cap Request : tracked'[s] = tracked[s]
    BY <1>2, <2>1
  <2>6. QED
    BY <1>1, <2>1, <2>3, <2>4, <2>5 DEF UsersInv
<1>8. ASSUME NEW r \in Request, SaveChanges(r) PROVE UsersInv' /\ Same
  <2>1. /\ UNCHANGED <<table, tracked>> /\ DOMAIN saving' = Pending
        /\ \A k \in Pending : saving'[k] = tracked[k].row
    BY <1>8, CapturingKeeps
  <2>2. Pending \subseteq DOMAIN tracked
    BY DEF Pending
  <2>3. QED
    BY <1>1, <1>3, <2>1, <2>2 DEF UsersInv
<1>9. ASSUME NEW r \in Request, Saved(r) PROVE UsersInv' /\ Same
  <2>1. PICK newId :
             /\ \A id \in DOMAIN table :
                   /\ id \in DOMAIN table'
                   /\ id \in DOMAIN saving => table'[id] = saving[id]
                   /\ id \notin DOMAIN saving => table'[id] = table[id]
             /\ \A k \in New : /\ newId[k] \in DOMAIN table' \ DOMAIN table
                               /\ table'[newId[k]] = tracked[k].row
                               /\ newId[k] \in DOMAIN tracked'
                               /\ tracked'[newId[k]].row = tracked[k].row
             /\ \A id \in DOMAIN table' : id \in DOMAIN table \/ \E k \in New : id = newId[k]
             /\ \A k \in DOMAIN tracked' :
                   \/ \E l \in New : k = newId[l]
                   \/ k \in DOMAIN tracked \ New /\ tracked'[k].row = tracked[k].row
             /\ \A k \in DOMAIN tracked \ DOMAIN saving :
                   k \in DOMAIN tracked' /\ tracked'[k] = tracked[k]
             /\ DOMAIN saving' = {}
    BY <1>9, SavedRows DEF Saved
  <2>2. Same
    BY <1>1, <1>2, <2>1
  <2>3. DOMAIN table' \subseteq Nat
    BY TypeStep, KeysOfContext DEF TypeInv, TypeOK, ContextTypeOK
  <2>4. ASSUME NEW s \in DOMAIN tracked' \cap Request PROVE Adder(s)'
    <3>1. s \in DOMAIN tracked \ New
      BY <1>2, <2>1, <2>3
    <3>2. s \notin DOMAIN saving
      BY <3>1 DEF New
    <3>3. QED
      BY <1>3, <2>1, <3>1, <3>2
  <2>5. ASSUME NEW id \in DOMAIN tracked' \cap Nat PROVE tracked'[id].row.user = table'[id].user
    <3>1. CASE \E l \in New : id = newId[l]
      BY <2>1, <3>1
    <3>2. CASE id \in DOMAIN tracked \ New /\ tracked'[id].row = tracked[id].row
      <4>1. id \in DOMAIN table
        BY <1>2, <3>2
      <4>2. QED
        BY <1>1, <2>2, <3>2, <4>1
    <3>3. QED
      BY <2>1, <3>1, <3>2
  <2>6. QED
    BY <2>1, <2>2, <2>4, <2>5 DEF UsersInv
<1>10. CASE ContextStep
  BY <1>4, <1>5, <1>6, <1>7, <1>8, <1>9, <1>10 DEF ContextStep, KeepsContext, GivesUp, LoadsRows
<1>11. QED
  BY <1>10, ContextSteps

-----------------------------------------------------------------------------
(* What is created *)

(* An entity that was added is in the context until its row is stored. *)
LEMMA AddedUntilStored ==
    ASSUME TypeInv, UsersInv, [Next]_vars, NEW r \in DOMAIN tracked \cap Request
    PROVE  r \in DOMAIN tracked' \/ \E id \in DOMAIN table' : table'[id].user = user(r)
<1>1. CASE KeepsContext \/ GivesUp
  BY <1>1 DEF KeepsContext, GivesUp
<1>2. CASE LoadsRows
  BY <1>2, LoadingKeeps DEF LoadsRows
<1>3. ASSUME NEW t \in Request, AddUser(t) PROVE r \in DOMAIN tracked'
  BY <1>3, AddingKeeps
<1>4. ASSUME NEW t \in Request, Assign(t) PROVE r \in DOMAIN tracked'
  BY <1>4, AssigningKeeps
<1>5. ASSUME NEW t \in Request, SaveChanges(t) PROVE r \in DOMAIN tracked'
  BY <1>5, CapturingKeeps
<1>6. ASSUME NEW t \in Request, Saved(t)
      PROVE  r \in DOMAIN tracked' \/ \E id \in DOMAIN table' : table'[id].user = user(r)
  <2>1. PICK newId :
          /\ \A k \in New : newId[k] \in DOMAIN table' /\ table'[newId[k]] = tracked[k].row
          /\ \A k \in DOMAIN tracked \ DOMAIN saving : k \in DOMAIN tracked'
    BY <1>6, SavedRows DEF Saved
  <2>2. tracked[r].row.user = user(r)
    BY DEF UsersInv
  <2>3. CASE r \in DOMAIN saving
    BY <2>1, <2>2, <2>3 DEF New
  <2>4. CASE r \notin DOMAIN saving
    BY <2>1, <2>4
  <2>5. QED
    BY <2>3, <2>4
<1>7. QED
  BY <1>1, <1>2, <1>3, <1>4, <1>5, <1>6, ContextSteps DEF ContextStep

(* While a request holds the context, what it saves stays as it is. *)
LEMMA SavingHeld ==
    ASSUME TypeInv, [Next]_vars, NEW r \in Request, busy = r,
           At(r, "saving"), req'[r].at = "saving"
    PROVE  saving' = saving /\ busy' = r
<1>1. r # Null
  BY EntityContextAssumption
<1>2. busy' = r
  <2>1. ASSUME NEW t \in Request, Handler(t) PROVE busy' = r
    <3>1. HolderStep(t) /\ HandlerStep(t)
      BY <2>1, HolderSteps, HandlerSteps
    <3>2. t # r
      <4>1. ASSUME NEW place \in Places, Goes(r, place) PROVE req'[r].at = place
        BY <4>1, Gone
      <4>2. ~Advances(r) /\ ~ValidateUserCredentials(r) /\ ~LookUp(r)
        BY Advanced, Validated, LookedUp DEF At
      <4>3. ~Ends(r)
        BY <4>1 DEF Ends, Places
      <4>4. QED
        BY <3>1, <4>2, <4>3 DEF HandlerStep
    <3>3. QED
      BY <1>1, <3>1, <3>2 DEF HolderStep
  <2>2. ASSUME busy' = busy PROVE busy' = r
    BY <2>2
  <2>3. QED
    BY <2>1, <2>2, Zenon DEF Next, KeysExpire, Send, HttpFails, Receive, vars, contextVars
<1>3. ~GivesUp /\ \A t \in Request : ~SaveChanges(t) /\ ~Saved(t)
  BY <1>1, <1>2 DEF GivesUp, SaveChanges, BeginSave, Begin, Saved, SaveSucceeds, End
<1>4. QED
  BY <1>2, <1>3, ContextSteps, Zenon
     DEF ContextStep, KeepsContext, LoadsRows, AddUser, Assign

LEMMA CreatesKept ==
    ASSUME TypeInv, UsersInv, CreatesInv, [Next]_vars
    PROVE  CreatesInv'
<1> SUFFICES ASSUME NEW r \in Request
             PROVE  /\ Granted(r)' => At(r, "end")'
                    /\ kind(r)' = "create" =>
                          /\ At(r, "added")' => Stored(r)' \/ r \in DOMAIN tracked'
                          /\ At(r, "saving")' =>
                                busy' = r /\ (Stored(r)' \/ r \in DOMAIN saving')
                          /\ Granted(r)' => Stored(r)'
  BY DEF CreatesInv
<1> DEFINE Adding == req[r].at \in {"added", "saving", "end"}
<1>1. /\ Granted(r) => At(r, "end")
      /\ kind(r) = "create" =>
            /\ At(r, "added") => Stored(r) \/ r \in DOMAIN tracked
            /\ At(r, "saving") => busy = r /\ (Stored(r) \/ r \in DOMAIN saving)
            /\ Granted(r) => Stored(r)
  BY DEF CreatesInv
<1>2. ASSUME Adding, Stored(r) PROVE Stored(r)'
  <2>1. PICK id \in DOMAIN table : table[id].user = user(r)
    BY <1>2 DEF Stored, RowsOf
  <2>2. id \in DOMAIN table' /\ table'[id].user = user(r)'
    BY <1>2, <2>1, UsersKept, AdderStays
  <2>3. QED
    BY <2>2 DEF Stored, RowsOf
<1>3. ASSUME Adding, r \in DOMAIN tracked PROVE Stored(r)' \/ r \in DOMAIN tracked'
  <2>1. user(r)' = user(r)
    BY <1>3, AdderStays
  <2>2. QED
    BY <1>3, <2>1, AddedUntilStored DEF Stored, RowsOf
<1>4. CASE req'[r] = req[r] /\ answer'[r] = answer[r]
  <2>1. kind(r)' = kind(r) /\ (Granted(r)' <=> Granted(r))
    BY <1>4, CommandKept DEF Granted
  <2>2. At(r, "saving") /\ kind(r) = "create" => saving' = saving /\ busy' = r
    BY <1>1, <1>4, SavingHeld DEF At
  <2>3. QED
    BY <1>1, <1>2, <1>3, <1>4, <2>1, <2>2 DEF At
<1>5. ASSUME Send(r) PROVE At(r, "begin")' /\ ~Granted(r)'
  <2>1. ~Granted(r)
    BY <1>1, <1>5, Sent DEF At
  <2>2. QED
    BY <1>5, <2>1, Sent DEF At, Granted
<1>6. ASSUME Handler(r), kind(r)' = "create"
      PROVE  /\ Granted(r)' => At(r, "end")' /\ Stored(r)'
             /\ At(r, "added")' => Stored(r)' \/ r \in DOMAIN tracked'
             /\ At(r, "saving")' => busy' = r /\ (Stored(r)' \/ r \in DOMAIN saving')
  <2>1. HandlerStep(r) /\ Moves(r) /\ kind(r) = "create" /\ PlaceOf(r)
    BY <1>6, HandlerSteps, HandlerMoves, CommandKept DEF Moves, TypeInv
  <2>2. ~Granted(r) /\ (req'[r].at # "end" => ~Granted(r)')
    BY <1>1, <2>1 DEF Moves, Granted
  <2>3. ASSUME NEW place \in Places, Goes(r, place) PROVE req'[r].at = place
    BY <2>3, Gone
  <2>4. CASE AddUser(r)
    <3>1. req'[r].at = "added" /\ r \in DOMAIN tracked'
      BY <2>3, <2>4, AddingKeeps DEF AddUser, Places
    <3>2. QED
      BY <2>2, <3>1 DEF At
  <2>5. CASE SaveChanges(r)
    <3>1. req'[r].at = "saving" /\ At(r, "added") /\ busy' = r
      BY <2>3, <2>5 DEF SaveChanges, BeginSave, Begin, Places
    <3>2. r \in DOMAIN tracked => r \in DOMAIN saving'
      <4>1. r \in DOMAIN tracked => r \in Pending
        BY DEF UsersInv, Pending
      <4>2. QED
        BY <2>5, <4>1, CapturingKeeps
    <3>3. Stored(r)' \/ r \in DOMAIN saving'
      BY <1>1, <1>2, <2>1, <3>1, <3>2 DEF At
    <3>4. QED
      BY <2>2, <3>1, <3>3 DEF At
  <2>6. CASE Ends(r)
    <3>1. req'[r].at = "end"
      BY <2>3, <2>6 DEF Ends, Places
    <3>2. ASSUME Granted(r)' PROVE Stored(r)'
      <4>1. Saved(r)
        BY <2>1, <2>6, <3>2 DEF Ends, Granted
      <4>2. At(r, "saving")
        BY <4>1 DEF Saved
      <4>3. CASE Stored(r)
        BY <1>2, <4>2, <4>3 DEF At
      <4>4. CASE r \in DOMAIN saving
        <5>1. r \in New /\ r \in DOMAIN tracked
          BY <4>4, KeysOfContext DEF New
        <5>2. \E id \in DOMAIN table' : table'[id] = tracked[r].row
          BY <4>1, <5>1, SavedRows DEF Saved
        <5>3. tracked[r].row.user = user(r) /\ user(r)' = user(r)
          BY <4>2, <5>1, AdderStays DEF UsersInv, At
        <5>4. QED
          BY <5>2, <5>3 DEF Stored, RowsOf
      <4>5. QED
        BY <1>1, <2>1, <4>2, <4>3, <4>4
    <3>3. QED
      BY <3>1, <3>2 DEF At
  <2>7. ASSUME Advances(r), ~AddUser(r), ~SaveChanges(r) PROVE req'[r].at = "reading"
    <3>1. ~Assign(r) /\ ~(At(r, "loading"))
      BY <2>1 DEF Assign, PlaceOf, At
    <3>2. Goes(r, "reading")
      BY <2>1, <2>7, <3>1 DEF Advances
    <3>3. QED
      BY <2>3, <3>2 DEF Places
  <2>8. ~ValidateUserCredentials(r) /\ ~LookUp(r)
    BY <2>1 DEF ValidateUserCredentials, LookUp
  <2>9. QED
    BY <2>1, <2>2, <2>4, <2>5, <2>6, <2>7, <2>8 DEF HandlerStep, At
<1>7. ASSUME Handler(r) PROVE Granted(r)' => At(r, "end")'
  BY <1>1, <1>7, HandlerSteps, HandlerMoves DEF Moves, Granted, At
<1>8. ASSUME NEW t \in Request \ {r}, Handler(t) PROVE req'[r] = req[r] /\ answer'[r] = answer[r]
  BY <1>8, HandlerSteps, HandlerMoves DEF Moves
<1>9. ASSUME NEW t \in Request \ {r}, Send(t) PROVE req'[r] = req[r] /\ answer'[r] = answer[r]
  BY <1>9, Sent
<1>10. CASE Send(r)
  BY <1>5, <1>10 DEF At
<1>11. CASE Handler(r)
  BY <1>6, <1>7, <1>11
<1>12. QED
  BY <1>4, <1>8, <1>9, <1>10, <1>11, Zenon DEF Next, KeysExpire, HttpFails, Receive, vars

(***************************************************************************)
(* A user whose creation was answered with success is in the table, also   *)
(* when another request's SaveChangesAsync wrote the row                   *)
(* (UserRepositoryFromMysql.cs:32-47).                                     *)
(***************************************************************************)
THEOREM CreatedStored == Spec => []CreatedIsStored
<1>1. Init => UsersInv /\ CreatesInv
  BY DEF Init, ContextInit, Nothing, Idle, NoCommand, NoAnswer, UsersInv, CreatesInv,
         Granted, kind
<1>2. TypeInv /\ UsersInv /\ CreatesInv /\ [Next]_vars => UsersInv' /\ CreatesInv'
  BY UsersKept, CreatesKept
<1>3. CreatesInv => CreatedIsStored
  BY DEF CreatesInv, CreatedIsStored, Stored
<1>4. QED
  BY <1>1, <1>2, <1>3, TypesAlways, PTL DEF Spec

-----------------------------------------------------------------------------
(* What is changed *)

(* What was asked of a row stays asked. *)
LEMMA AskedStays ==
    ASSUME TypeInv, [Next]_vars, NEW id \in Nat \ {0}
    PROVE  /\ PasswordsAsked(id) \subseteq PasswordsAsked(id)'
           /\ DeleteAsked(id) => DeleteAsked(id)'
<1>1. ASSUME NEW r \in Request, Asked(r, id)
      PROVE  /\ Asked(r, id)' /\ kind(r)' = kind(r)
             /\ newPassword(r)' = newPassword(r)
  <2>1. req[r].id = id /\ req[r].at \notin {"idle", "begin", "reading"}
    BY <1>1 DEF Asked, TypeInv, PlaceOf
  <2>2. ASSUME req'[r].id = req[r].id, req'[r].validated = req[r].validated,
               req'[r].command = req[r].command
        PROVE  /\ Asked(r, id)' /\ kind(r)' = kind(r)
               /\ newPassword(r)' = newPassword(r)
    BY <1>1, <2>2, CommandKept DEF Asked
  <2>3. ASSUME NEW t \in Request, Handler(t)
        PROVE  /\ req'[r].id = req[r].id /\ req'[r].validated = req[r].validated
               /\ req'[r].command = req[r].command
    BY <2>1, <2>3, HandlerSteps, HandlerMoves DEF Moves, At
  <2>4. ASSUME NEW t \in Request, Send(t) PROVE req'[r] = req[r]
    BY <2>1, <2>4, Sent DEF At
  <2>5. QED
    BY <2>2, <2>3, <2>4, Zenon DEF Next, KeysExpire, HttpFails, Receive, vars
<1>2. PasswordsAsked(id) \subseteq PasswordsAsked(id)'
  <2>1. ASSUME NEW r \in Request, Asked(r, id), kind(r) = "update"
        PROVE  HashPassword(newPassword(r)) \in PasswordsAsked(id)'
    <3>1. Asked(r, id)' /\ kind(r)' = "update" /\ newPassword(r)' = newPassword(r)
      BY <1>1, <2>1
    <3>2. HashPassword(newPassword(r))' = HashPassword(newPassword(r))
      BY <3>1 DEF HashPassword
    <3>3. QED
      BY <3>1, <3>2 DEF PasswordsAsked
  <2>2. QED
    BY <2>1 DEF PasswordsAsked
<1>3. DeleteAsked(id) => DeleteAsked(id)'
  BY <1>1 DEF DeleteAsked
<1>4. QED
  BY <1>2, <1>3

(* The row a handler assigns is changed as it asks. *)
LEMMA AssignedAsAsked ==
    ASSUME NEW r \in Request, NEW id, NEW row \in Row, Asked(r, id),
           kind(r) \in {"update", "delete"}
    PROVE  LET new == AssignedRow(r, row) IN
           /\ new.password = row.password \/ new.password \in PasswordsAsked(id)
           /\ ~new.alive => ~row.alive \/ DeleteAsked(id)
<1>1. CASE kind(r) = "delete"
  <2>1. AssignedRow(r, row).password = row.password
    BY <1>1 DEF AssignedRow, Row
  <2>2. DeleteAsked(id)
    BY <1>1 DEF DeleteAsked
  <2>3. QED
    BY <2>1, <2>2
<1>2. CASE kind(r) = "update"
  <2>1. /\ AssignedRow(r, row).password = HashPassword(newPassword(r))
        /\ AssignedRow(r, row).alive
    BY <1>2 DEF AssignedRow, Row
  <2>2. HashPassword(newPassword(r)) \in PasswordsAsked(id)
    BY <1>2 DEF PasswordsAsked
  <2>3. QED
    BY <2>1, <2>2
<1>3. QED
  BY <1>1, <1>2

LEMMA RowsKept ==
    ASSUME TypeInv, UsersInv, RowsInv, [Next]_vars
    PROVE  RowsInv'
<1> SUFFICES ASSUME NEW id \in DOMAIN table'
             PROVE  /\ id \in DOMAIN tracked' => ChangedAsAsked(id, table[id], tracked[id].row)'
                    /\ id \in DOMAIN saving' =>
                          /\ ChangedAsAsked(id, table[id], saving[id])'
                          /\ ChangedAsAsked(id, saving[id], tracked[id].row)'
  BY DEF RowsInv
<1> DEFINE P == PasswordsAsked(id)
           D == DeleteAsked(id)
           As(old, new) == /\ new.password # old.password => new.password \in P
                           /\ old.alive /\ ~new.alive => D
<1>1. id \in Nat \ {0}
  BY TypeStep, KeysOfContext DEF TypeInv, TypeOK, ContextTypeOK
<1>2. P \subseteq P' /\ (D => D')
  BY <1>1, AskedStays
<1>3. id \in DOMAIN table =>
        /\ id \in DOMAIN tracked => As(table[id], tracked[id].row)
        /\ id \in DOMAIN saving =>
              As(table[id], saving[id]) /\ As(saving[id], tracked[id].row)
  BY DEF RowsInv, ChangedAsAsked
<1>4. \A old, new : ChangedAsAsked(id, old, new) <=> As(old, new)
  BY DEF ChangedAsAsked
<1> HIDE DEF P, D
<1> DEFINE AsNext(old, new) == /\ new.password # old.password => new.password \in P'
                               /\ old.alive /\ ~new.alive => D'
<1>5. /\ ChangedAsAsked(id, table[id], tracked[id].row)' <=> AsNext(table'[id], tracked'[id].row)
      /\ ChangedAsAsked(id, table[id], saving[id])' <=> AsNext(table'[id], saving'[id])
      /\ ChangedAsAsked(id, saving[id], tracked[id].row)'
            <=> AsNext(saving'[id], tracked'[id].row)
  BY DEF ChangedAsAsked, P, D
<1>6. SUFFICES /\ id \in DOMAIN tracked' => AsNext(table'[id], tracked'[id].row)
               /\ id \in DOMAIN saving' =>
                     /\ AsNext(table'[id], saving'[id])
                     /\ AsNext(saving'[id], tracked'[id].row)
  BY <1>5
<1> DEFINE Goal == /\ id \in DOMAIN tracked' => AsNext(table'[id], tracked'[id].row)
                   /\ id \in DOMAIN saving' =>
                         /\ AsNext(table'[id], saving'[id])
                         /\ AsNext(saving'[id], tracked'[id].row)
<1>7. CASE KeepsContext \/ GivesUp
  <2>1. UNCHANGED <<table, tracked>> /\ (saving' = saving \/ DOMAIN saving' = {})
    BY <1>7 DEF KeepsContext, GivesUp, Nothing
  <2>2. QED
    BY <1>2, <1>3, <2>1
<1>8. CASE LoadsRows
  <2>1. PICK ids \in SUBSET DOMAIN table : tracked' = Loaded(ids)
    BY <1>8 DEF LoadsRows
  <2>2. /\ DOMAIN tracked' = DOMAIN tracked \cup ids
        /\ \A k \in DOMAIN tracked : tracked'[k] = tracked[k]
        /\ \A k \in ids \ DOMAIN tracked : tracked'[k].row = table[k]
        /\ UNCHANGED <<table, saving>>
    BY <1>8, <2>1, LoadingKeeps DEF LoadsRows
  <2>3. DOMAIN saving \subseteq DOMAIN tracked
    BY KeysOfContext
  <2>4. QED
    BY <1>2, <1>3, <2>2, <2>3
<1>9. ASSUME NEW r \in Request, AddUser(r) PROVE Goal
  <2>1. /\ DOMAIN tracked' = DOMAIN tracked \cup {r}
        /\ \A k \in DOMAIN tracked : tracked'[k] = tracked[k]
        /\ UNCHANGED <<table, saving>>
    BY <1>9, AddingKeeps DEF AddUser
  <2>2. id # r /\ DOMAIN saving \subseteq DOMAIN tracked
    BY <1>1, KeysOfContext, ApiServerAssumption
  <2>3. QED
    BY <1>2, <1>3, <2>1, <2>2
<1>10. ASSUME NEW r \in Request, Assign(r) PROVE Goal
  <2>1. /\ req[r].id \in DOMAIN tracked \cap DOMAIN table /\ kind(r) \in {"update", "delete"}
        /\ req[r].validated = password(r)
        /\ DOMAIN tracked' = DOMAIN tracked
        /\ \A k \in DOMAIN tracked : k # req[r].id => tracked'[k] = tracked[k]
        /\ tracked'[req[r].id].row = AssignedRow(r, tracked[req[r].id].row)
        /\ UNCHANGED <<table, saving>>
    BY <1>10, AssigningKeeps DEF Assign
  <2>2. CASE id # req[r].id
    <3>1. DOMAIN saving \subseteq DOMAIN tracked
      BY KeysOfContext
    <3>2. QED
      BY <1>2, <1>3, <2>1, <2>2, <3>1
  <2>3. CASE id = req[r].id
    <3>1. Asked(r, id) /\ tracked[id].row \in Row
      BY <2>1, <2>3, TypeInvGives DEF Asked, EntitiesOK, Entity
    <3>2. /\ \/ tracked'[id].row.password = tracked[id].row.password
             \/ tracked'[id].row.password \in P
          /\ ~tracked'[id].row.alive => ~tracked[id].row.alive \/ D
      BY <2>1, <2>3, <3>1, AssignedAsAsked DEF P, D
    <3>3. QED
      BY <1>2, <1>3, <2>1, <2>3, <3>2
  <2>4. QED
    BY <2>2, <2>3
<1>11. ASSUME NEW r \in Request, SaveChanges(r) PROVE Goal
  <2>1. /\ UNCHANGED <<table, tracked>> /\ DOMAIN saving' = Pending
        /\ \A k \in Pending : saving'[k] = tracked[k].row
    BY <1>11, CapturingKeeps
  <2>2. Pending \subseteq DOMAIN tracked
    BY DEF Pending
  <2>3. QED
    BY <1>2, <1>3, <2>1, <2>2
<1>12. ASSUME NEW r \in Request, Saved(r) PROVE Goal
  <2>1. PICK newId :
             /\ \A i \in DOMAIN table :
                   /\ i \in DOMAIN table'
                   /\ i \in DOMAIN saving => table'[i] = saving[i]
                   /\ i \notin DOMAIN saving => table'[i] = table[i]
             /\ \A k \in New : /\ newId[k] \in DOMAIN table' \ DOMAIN table
                               /\ table'[newId[k]] = tracked[k].row
                               /\ newId[k] \in DOMAIN tracked'
                               /\ tracked'[newId[k]].row = tracked[k].row
             /\ \A i \in DOMAIN table' : i \in DOMAIN table \/ \E k \in New : i = newId[k]
             /\ \A k \in DOMAIN tracked' :
                   \/ \E l \in New : k = newId[l]
                   \/ k \in DOMAIN tracked \ New /\ tracked'[k].row = tracked[k].row
             /\ \A k \in DOMAIN tracked \ DOMAIN saving :
                   k \in DOMAIN tracked' /\ tracked'[k] = tracked[k]
             /\ DOMAIN saving' = {}
    BY <1>12, SavedRows DEF Saved
  <2>2. CASE \E k \in New : id = newId[k]
    BY <2>1, <2>2
  <2>3. CASE id \in DOMAIN table /\ ~ \E k \in New : id = newId[k]
    BY <1>2, <1>3, <2>1, <2>3
  <2>4. QED
    BY <2>1, <2>2, <2>3
<1>13. QED
  BY <1>7, <1>8, <1>9, <1>10, <1>11, <1>12, ContextSteps DEF ContextStep

(* The table changes only by a save, and by what it captured. *)
LEMMA TableChanges ==
    ASSUME TypeInv, UsersInv, RowsInv, [Next]_vars, NEW id \in DOMAIN table
    PROVE  ChangedAsAsked(id, table[id], table'[id])
<1>1. ASSUME table' = table PROVE ChangedAsAsked(id, table[id], table'[id])
  BY <1>1 DEF ChangedAsAsked
<1>2. ASSUME NEW r \in Request, Saved(r) PROVE ChangedAsAsked(id, table[id], table'[id])
  <2>1. /\ id \in DOMAIN saving => table'[id] = saving[id]
        /\ id \notin DOMAIN saving => table'[id] = table[id]
    BY <1>2, SavedRows DEF Saved
  <2>2. id \in DOMAIN saving => ChangedAsAsked(id, table[id], saving[id])
    BY DEF RowsInv
  <2>3. QED
    BY <2>1, <2>2 DEF ChangedAsAsked
<1>3. QED
  BY <1>1, <1>2, ContextSteps, Zenon
     DEF ContextStep, KeepsContext, GivesUp, LoadsRows, AddUser, Assign, SaveChanges, BeginSave

(***************************************************************************)
(* A password changes only to what an update asked for, and a user is      *)
(* deleted only if a delete asked for it, both with the password the row   *)
(* had, although requests share entities and save each other's changes     *)
(* (UserWriteService.cs:104-126, 148-169).                                 *)
(***************************************************************************)
THEOREM ChangesAreAsked == Spec => RowsChangeAsAsked
<1>1. Init => UsersInv /\ RowsInv
  BY DEF Init, ContextInit, Nothing, UsersInv, RowsInv
<1>2. TypeInv /\ UsersInv /\ RowsInv /\ [Next]_vars => UsersInv' /\ RowsInv'
  BY UsersKept, RowsKept
<1> DEFINE A == \A id \in DOMAIN table :
        LET asked(r) == req[r].id = id /\ req[r].validated = password(r) IN
        /\ table'[id].password # table[id].password =>
              \E r \in Request : /\ asked(r) /\ kind(r) = "update"
                                 /\ table'[id].password = HashPassword(newPassword(r))
        /\ table[id].alive /\ ~table'[id].alive =>
              \E r \in Request : asked(r) /\ kind(r) = "delete"
<1>3. TypeInv /\ UsersInv /\ RowsInv /\ [Next]_vars => [A]_vars
  <2> SUFFICES ASSUME TypeInv, UsersInv, RowsInv, [Next]_vars, NEW id \in DOMAIN table
               PROVE  /\ table'[id].password # table[id].password =>
                            \E r \in Request :
                                /\ Asked(r, id) /\ kind(r) = "update"
                                /\ table'[id].password = HashPassword(newPassword(r))
                      /\ table[id].alive /\ ~table'[id].alive => DeleteAsked(id)
    BY DEF Asked, DeleteAsked
  <2>1. ChangedAsAsked(id, table[id], table'[id])
    BY TableChanges
  <2>2. QED
    BY <2>1 DEF ChangedAsAsked, PasswordsAsked
<1>4. QED
  BY <1>1, <1>2, <1>3, TypesAlways, PTL DEF Spec, RowsChangeAsAsked
=============================================================================
