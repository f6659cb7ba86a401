---------------------------- MODULE ChatCommands ----------------------------
(***************************************************************************)
(* What a typed line becomes: the message ChatClient::Send makes of it, or *)
(* none.  A line is the sequence of its words, which single spaces part:   *)
(* an empty word is two spaces, or one at an end of the line.              *)
(***************************************************************************)
EXTENDS WireFormat

CONSTANT Lines  \* the lines that are tried

\* ChatMessageType
SERVER_PING == 0
SERVER_MESSAGE == 1
ALL_MESSAGE == 2
WHISPER_MESSAGE == 3
PARTY_MESSAGE == 4
PARTY_CREATE == 41
PARTY_DELETE == 42
PARTY_JOIN == 43
PARTY_LEAVE == 44
FRIEND_REQUEST == 50
FRIEND_ACCEPT == 51
FRIEND_REJECT == 52
LOGIN_MESSAGE == 70
ERROR_MESSAGE == 99

NoReceiver == ""

\* No message is made, the user is warned.
Invalid == ChatMessageOf(ERROR_MESSAGE, NoText, NoReceiver, <<>>)

Rest(line, n) == SubSeq(line, n, Len(line))

Empty(text) == text \in {<<>>, <<"">>}

-----------------------------------------------------------------------------
(* Commands *)

\* "/w" counts without a space behind it.
IsWhisperMessage(line) == line[1] \in {"/w", "/who"}

CreateWhisperMessage(line) ==
    IF Len(line) < 3 THEN Invalid
    ELSE ChatMessageOf(WHISPER_MESSAGE, NoText, line[2], Rest(line, 3))

IsCommand(line, word) == line[1] = word /\ Len(line) > 1

Friend(type, line) == ChatMessageOf(type, NoText, NoReceiver, Rest(line, 2))

PartyMessageType ==
    [o \in {"-create", "-delete", "-join", "-leave"} |->
        CASE o = "-create" -> PARTY_CREATE
          [] o = "-delete" -> PARTY_DELETE
          [] o = "-join" -> PARTY_JOIN
          [] o = "-leave" -> PARTY_LEAVE]

\* A word from its first hyphen on; of those without one, nothing.
FromHyphen(word) ==
    CASE word \in DOMAIN PartyMessageType \cup {"-"} -> word
      [] word = "well-known" -> "-known"
      [] OTHER -> ""

\* The option is looked for anywhere in the text, a name must follow it.
CreatePartyMessage(line) ==
    LET hyphens == {n \in 2..Len(line) : FromHyphen(line[n]) # ""}
        first == CHOOSE n \in hyphens : \A m \in hyphens : n <= m
        option == FromHyphen(line[first])
        partyName == Rest(line, first + 1)
    IN  IF hyphens = {} THEN ChatMessageOf(PARTY_MESSAGE, NoText, NoReceiver, Rest(line, 2))
        ELSE IF option \in DOMAIN PartyMessageType /\ ~Empty(partyName)
        THEN ChatMessageOf(PartyMessageType[option], NoText, NoReceiver, partyName)
        ELSE Invalid

\* ChatClient::Send, with the strategy GetCreateMessageStrategy chooses.
MessageOf(line) ==
    IF IsWhisperMessage(line) THEN CreateWhisperMessage(line)
    ELSE IF IsCommand(line, "/p") THEN CreatePartyMessage(line)
    ELSE IF IsCommand(line, "/fr") THEN Friend(FRIEND_REQUEST, line)
    ELSE IF IsCommand(line, "/fa") THEN Friend(FRIEND_ACCEPT, line)
    ELSE IF IsCommand(line, "/fj") THEN Friend(FRIEND_REJECT, line)
    ELSE ChatMessageOf(ALL_MESSAGE, NoText, NoReceiver, line)

-----------------------------------------------------------------------------
(* The types of messages the other side knows *)

\* TcpServer::OnMessage; the login is read before.
ServerHandles ==
    {SERVER_PING, ALL_MESSAGE, PARTY_CREATE, PARTY_DELETE, PARTY_JOIN, PARTY_LEAVE,
     PARTY_MESSAGE, WHISPER_MESSAGE, FRIEND_REQUEST, FRIEND_ACCEPT, FRIEND_REJECT}

\* What the handlers forward and what the server makes itself.
ServerSends ==
    {ALL_MESSAGE, PARTY_MESSAGE, WHISPER_MESSAGE}
        \cup {ERROR_MESSAGE, SERVER_MESSAGE, LOGIN_MESSAGE}

\* ChatClient::OnMessage.
ClientHandles ==
    {ALL_MESSAGE, SERVER_PING, LOGIN_MESSAGE, SERVER_MESSAGE, ERROR_MESSAGE,
     WHISPER_MESSAGE, PARTY_MESSAGE, FRIEND_REQUEST, FRIEND_ACCEPT}

-----------------------------------------------------------------------------
(***************************************************************************)
(* A command goes where it says: a line that begins with the command of a  *)
(* party, a friend or a whisper never becomes a message to all, its name   *)
(* and text are the words that follow, and the server has a handler for    *)
(* what is sent, as the client has for what comes back.                    *)
(***************************************************************************)
ASSUME CommandsGoWhereTheySay ==
    \A line \in Lines :
        LET m == MessageOf(line) IN
        /\ m.messageType = ALL_MESSAGE =>
              m.content = line
              /\ (line[1] \in {"/p", "/fr", "/fa", "/fj", "/w"} =>
                     Len(line) = 1 /\ line[1] # "/w")
        /\ m.receiver # NoReceiver => m.messageType = WHISPER_MESSAGE
        /\ m # Invalid =>
              /\ m.messageType \in ServerHandles
              /\ \E n \in 1..Len(line) : m.content = Rest(line, n)

ASSUME TypesAreKnown == ServerSends \subseteq ClientHandles

(***************************************************************************)
(* Client.cpp's party commands: with the option first and a name, each     *)
(* creates, deletes, joins or leaves the party of that name; a text        *)
(* without a hyphen is sent to the party as it is.                         *)
(***************************************************************************)
ASSUME PartyCommandsAreUnderstood ==
    \A line \in Lines :
        line[1] = "/p" /\ Len(line) >= 3 =>
            /\ line[2] \in DOMAIN PartyMessageType /\ ~Empty(Rest(line, 3)) =>
                  MessageOf(line) = ChatMessageOf(PartyMessageType[line[2]], NoText, NoReceiver,
                                             Rest(line, 3))
            /\ (\A n \in 2..Len(line) : FromHyphen(line[n]) = "") =>
                  MessageOf(line) = ChatMessageOf(PARTY_MESSAGE, NoText, NoReceiver, Rest(line, 2))
=============================================================================
