----------------------------- MODULE WireFormat -----------------------------
(***************************************************************************)
(* What protobuf makes of a message: fields, each with its number and wire *)
(* type.  A message class is the sequence of its fields, which are         *)
(* numbered from 1; a message is the record of their values.  A field at   *)
(* its default value is not sent; a received field of an unknown number or *)
(* another wire type is kept aside, and the field it might have been meant *)
(* for keeps its default.  A writer sends no field twice and a reader      *)
(* takes them in any order, so that what travels is, by number, the wire   *)
(* type and value of a field.                                              *)
(*                                                                         *)
(* The values of the enumerations are those of the .proto files.           *)
(***************************************************************************)
EXTENDS Naturals, Sequences

\* UserStatusCode
Success == 0
UserIdAlreadyExists == 1
UserNotExists == 2
DifferentPassword == 3
Failure == 4
ServerError == 99

NoText == ""

\* google.protobuf.Any: the name of a class and its fields.
Pack(name, fields) == [class |-> name, fields |-> fields]

NoContent == Pack("none", <<>>)

\* What a class knows of a field.
EnumField(name) == [name |-> name, kind |-> "enum"]
StringField(name) == [name |-> name, kind |-> "string"]
MessageField(name) == [name |-> name, kind |-> "message"]

-----------------------------------------------------------------------------
(* The classes: of each its fields, and a message with its values.         *)

UserResponse == <<EnumField("status"), StringField("message"), MessageField("content")>>

UserResponseOf(status, message, content) ==
    [status |-> status, message |-> message, content |-> content]

UserErrorResponse == <<StringField("message")>>

UserErrorResponseOf(message) == [message |-> message]

LoginResponse ==
    <<StringField("serverIp"), StringField("serverPort"), StringField("sessionId")>>

LoginResponseOf(serverIp, serverPort, sessionId) ==
    [serverIp |-> serverIp, serverPort |-> serverPort, sessionId |-> sessionId]

GetUserResponse == <<StringField("userId"), StringField("username"), StringField("email")>>

GetUserResponseOf(userId, username, email) ==
    [userId |-> userId, username |-> username, email |-> email]

GetUserRequest == <<StringField("userId"), StringField("username"), StringField("email")>>

GetUserRequestOf(userId, username, email) ==
    [userId |-> userId, username |-> username, email |-> email]

CreateUserRequest ==
    <<StringField("userId"), StringField("password"), StringField("username"),
      StringField("email")>>

CreateUserRequestOf(userId, password, username, email) ==
    [userId |-> userId, password |-> password, username |-> username, email |-> email]

UpdateUserRequest ==
    <<StringField("userId"), StringField("password"), StringField("toBePassword"),
      StringField("toBeUsername"), StringField("toBeEmail")>>

UpdateUserRequestOf(userId, password, toBePassword, toBeUsername, toBeEmail) ==
    [userId |-> userId, password |-> password, toBePassword |-> toBePassword,
     toBeUsername |-> toBeUsername, toBeEmail |-> toBeEmail]

DeleteUserRequest == <<StringField("userId"), StringField("password")>>

DeleteUserRequestOf(userId, password) == [userId |-> userId, password |-> password]

LoginRequest == <<StringField("userId"), StringField("password")>>

LoginRequestOf(userId, password) == [userId |-> userId, password |-> password]

ChatMessage ==
    <<EnumField("messageType"), StringField("sender"), StringField("receiver"),
      StringField("content")>>

ChatMessageOf(messageType, sender, receiver, content) ==
    [messageType |-> messageType, sender |-> sender, receiver |-> receiver,
     content |-> content]

-----------------------------------------------------------------------------
(* Reading and writing *)

Default(kind) ==
    CASE kind = "enum" -> Success
      [] kind = "string" -> NoText
      [] kind = "message" -> NoContent

WireType(kind) == IF kind = "enum" THEN "varint" ELSE "len"

Serialize(class, message) ==
    [n \in {i \in DOMAIN class : message[class[i].name] # Default(class[i].kind)} |->
        [type |-> WireType(class[n].kind), value |-> message[class[n].name]]]

\* Mutant of the next definition: the wire type is not looked at.
ReadsAnyType(class, n, fields) == n \in DOMAIN fields

Reads(class, n, fields) ==
    n \in DOMAIN fields /\ fields[n].type = WireType(class[n].kind)

\* The value of the n-th field.
Value(class, n, fields) ==
    IF Reads(class, n, fields) THEN fields[n].value ELSE Default(class[n].kind)

Parse(class, fields) ==
    [name \in {class[n].name : n \in DOMAIN class} |->
        Value(class, CHOOSE n \in DOMAIN class : class[n].name = name, fields)]

\* UnpackTo of a content that is there
UnpacksTo(content, name) == content # NoContent /\ content.class = name

-----------------------------------------------------------------------------
(* The messages of each class, for some texts, as the class declares them *)

GetUserResponses(T) == [userId : T, username : T, email : T]
LoginResponses(T) == [serverIp : T, serverPort : T, sessionId : T]
UserResponses(T) ==
    [status : {Success, UserNotExists, ServerError}, message : T,
     content : {NoContent, Pack("LoginResponse", <<>>)}]
UserErrorResponses(T) == [message : T]
GetUserRequests(T) == [userId : T, username : T, email : T]
CreateUserRequests(T) == [userId : T, password : T, username : T, email : T]
UpdateUserRequests(T) ==
    [userId : T, password : T, toBePassword : T, toBeUsername : T, toBeEmail : T]
DeleteUserRequests(T) == [userId : T, password : T]
LoginRequests(T) == [userId : T, password : T]
ChatMessages(T) == [messageType : {0, 70}, sender : T, receiver : T, content : T]

Texts == {NoText, "text"}

ReadsBack(class, messages) ==
    \A m \in messages : Parse(class, Serialize(class, m)) = m

\* Whatever fields are left out, a message is read as it was written.
ASSUME MessagesAreReadBack ==
    /\ ReadsBack(GetUserResponse, GetUserResponses(Texts))
    /\ ReadsBack(LoginResponse, LoginResponses(Texts))
    /\ ReadsBack(UserResponse, UserResponses(Texts))
    /\ ReadsBack(UserErrorResponse, UserErrorResponses(Texts))
    /\ ReadsBack(GetUserRequest, GetUserRequests(Texts))
    /\ ReadsBack(CreateUserRequest, CreateUserRequests(Texts))
    /\ ReadsBack(UpdateUserRequest, UpdateUserRequests(Texts))
    /\ ReadsBack(DeleteUserRequest, DeleteUserRequests(Texts))
    /\ ReadsBack(LoginRequest, LoginRequests(Texts))
    /\ ReadsBack(ChatMessage, ChatMessages(Texts))

\* The client reads an error for a response: one without an error or a content.
ASSUME ErrorsReadAsEmptyResponses ==
    \A m \in UserErrorResponses(Texts) :
        Parse(UserResponse, Serialize(UserErrorResponse, m))
            = UserResponseOf(Success, NoText, NoContent)
=============================================================================
