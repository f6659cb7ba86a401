-------------------------- MODULE SessionAdmission --------------------------
(***************************************************************************)
(* How a TCP connection becomes a logged-in chat session (TcpServer.cpp,   *)
(* UserSession.cpp).                                                       *)
(*                                                                         *)
(* Two threads share the two user lists.  The io thread (the only thread   *)
(* in io_context::run) runs one completion handler at a time: accepts,     *)
(* reads, errors.  The server thread (main, inside TcpServer::Update)      *)
(* alternates between UpdateUsers, which holds m_UsersMutex and            *)
(* m_NewUsersMutex from its first line to its last, and a pass over        *)
(* m_Users that handles the messages the sessions received.                *)
(*                                                                         *)
(* m_NewUsers is a queue; the order of the vector m_Users tells nothing    *)
(* apart here and it is a set.  The two swapped message queues of a        *)
(* session are one sequence.  Delays on the wire are delays of ReadBody.   *)
(***************************************************************************)
EXTENDS Naturals, Sequences, FiniteSets

CONSTANTS
    Session,     \* the UserSession objects, one per connection
    User,        \* the user ids that Redis stores, none of them 0
    NoSession,   \* a null UserSession
    NoUser,      \* m_Id = 0, the id of a session nobody logged in to
    SessionKey,  \* the session ids the API server handed out
    KeyOwner,    \* the value Redis keeps under "Session:" + key
    MaxUser,     \* m_MaxUser
    MaxMsg       \* bound: messages read from one connection

ASSUME AdmissionAssumption ==
    /\ MaxUser \in Nat
    /\ MaxMsg \in Nat
    /\ KeyOwner \in [SessionKey -> User]
    /\ NoUser \notin User
    /\ NoSession \notin Session

(***************************************************************************)
(* What a message is to this module: a session id (the first one a client  *)
(* sends), a broadcast, or any message whose handler leaves the user lists *)
(* alone.                                                                  *)
(***************************************************************************)
Message == SessionKey \cup {"all", "chat"}

VARIABLES
    m_NewUsers,  \* accepted sessions that have not logged in, in queue order
    m_Users,     \* the sessions that logged in
    active,      \* m_IsActive of each session
    m_Id,        \* the user id of each session
    inbox,       \* messages read from the connection and not yet handled
    received,    \* how many messages were read from the connection
    accepted,    \* sessions whose connection OnAccept was given
    broken,      \* sessions whose read loop ended with an error
    io,          \* the session whose OnAccept waits for m_NewUsersMutex
    pc,          \* where the server thread is
    todo,        \* the sessions its pass over m_Users has yet to visit
    current,     \* the session whose messages it is draining
    stored       \* the session keys that Redis has

vars == <<m_NewUsers, m_Users, active, m_Id, inbox, received, accepted,
          broken, io, pc, todo, current, stored>>

lists   == <<m_NewUsers, m_Users, m_Id>>
network == <<received, accepted, broken, io>>
pass    == <<todo, current>>

Waiting == {m_NewUsers[i] : i \in DOMAIN m_NewUsers}

TypeOK ==
    /\ m_NewUsers \in Seq(Session)
    /\ m_Users \subseteq Session
    /\ active \in [Session -> BOOLEAN]
    /\ m_Id \in [Session -> User \cup {NoUser}]
    /\ inbox \in [Session -> Seq(Message)]
    /\ received \in [Session -> Nat]
    /\ accepted \subseteq Session
    /\ broken \subseteq accepted
    /\ io \in Session \cup {NoSession}
    /\ pc \in {"update", "admit", "visit", "drain", "crashed"}
    /\ todo \subseteq Session
    /\ current \in Session \cup {NoSession}
    /\ pc = "drain" => current # NoSession
    /\ stored \subseteq SessionKey

Init ==
    /\ m_NewUsers = <<>>
    /\ m_Users = {}
    /\ active = [s \in Session |-> TRUE]
    /\ m_Id = [s \in Session |-> NoUser]
    /\ inbox = [s \in Session |-> <<>>]
    /\ received = [s \in Session |-> 0]
    /\ accepted = {}
    /\ broken = {}
    /\ io = NoSession
    /\ pc = "update"
    /\ todo = {}
    /\ current = NoSession
    /\ stored = SessionKey

-----------------------------------------------------------------------------
(* The io thread. *)

(***************************************************************************)
(* The thread can start a handler, as long as the process lives.           *)
(***************************************************************************)
IoIdle == io = NoSession /\ pc # "crashed"

(***************************************************************************)
(* The acceptor completes: the io thread enters OnAccept for the session   *)
(* and runs no other handler before it leaves it.                          *)
(***************************************************************************)
AcceptCompletes(s) ==
    /\ IoIdle
    /\ s \notin accepted
    /\ io' = s
    /\ UNCHANGED <<lists, active, inbox, received, accepted, broken, pc, pass, stored>>

(***************************************************************************)
(* UpdateUsers holds both mutexes while pc is "admit".                     *)
(* Mutant: OnAccept pushes without taking m_NewUsersMutex.                 *)
(***************************************************************************)
MutexIgnored == TRUE

NewUsersMutexFree == pc # "admit"

(***************************************************************************)
(* OnAccept gets m_NewUsersMutex, queues the session, starts its read loop *)
(* and waits for the next connection.                                      *)
(***************************************************************************)
QueuedNew == Append(m_NewUsers, io)

OnAccept ==
    /\ io # NoSession
    /\ pc # "crashed"
    /\ NewUsersMutexFree
    /\ m_NewUsers' = QueuedNew
    /\ active' = [active EXCEPT ![io] = TRUE]
    /\ accepted' = accepted \cup {io}
    /\ io' = NoSession
    /\ UNCHANGED <<m_Users, m_Id, inbox, received, broken, pc, pass, stored>>

(***************************************************************************)
(* A UserSession lives while one of the lists or the running pass refers   *)
(* to it.  Its destructor closes the socket, so no read completes after.   *)
(***************************************************************************)
Held(s) == s \in Waiting \cup m_Users \cup {current}

(***************************************************************************)
(* The client sends its session id right after it connected and everything *)
(* else after the login message, that is, once it is in m_Users.           *)
(***************************************************************************)
ClientMaySend(s, m) ==
    IF received[s] = 0 THEN m \in SessionKey
    ELSE m \in {"all", "chat"} /\ s \in m_Users

ReadBody(s, m) ==
    /\ IoIdle
    /\ s \in accepted \ broken
    /\ Held(s)
    /\ received[s] < MaxMsg
    /\ ClientMaySend(s, m)
    /\ inbox' = [inbox EXCEPT ![s] = Append(@, m)]
    /\ received' = [received EXCEPT ![s] = @ + 1]
    /\ UNCHANGED <<lists, active, accepted, broken, io, pc, pass, stored>>

(***************************************************************************)
(* A read fails (the peer closed): the session is closed and its read loop *)
(* ends.  A write fails: the session is closed, the read loop goes on.     *)
(***************************************************************************)
ReadFails(s) ==
    /\ IoIdle
    /\ s \in accepted \ broken
    /\ Held(s)
    /\ active' = [active EXCEPT ![s] = FALSE]
    /\ broken' = broken \cup {s}
    /\ UNCHANGED <<lists, inbox, received, accepted, io, pc, pass, stored>>

WriteFails(s) ==
    /\ IoIdle
    /\ s \in m_Users
    /\ active[s]
    /\ active' = [active EXCEPT ![s] = FALSE]
    /\ UNCHANGED <<lists, inbox, network, pc, pass, stored>>

IoThread ==
    \/ OnAccept
    \/ \E s \in Session :
        \/ AcceptCompletes(s)
        \/ ReadFails(s)
        \/ WriteFails(s)
        \/ \E m \in Message : ReadBody(s, m)

-----------------------------------------------------------------------------
(* The server thread: UpdateUsers. *)

(***************************************************************************)
(* Both mutexes are taken and the sessions that are not connected any more *)
(* leave m_Users.                                                          *)
(***************************************************************************)
RemoveDisconnected ==
    /\ pc = "update"
    /\ m_Users' = {s \in m_Users : active[s]}
    /\ pc' = "admit"
    /\ UNCHANGED <<m_NewUsers, m_Id, active, inbox, network, pass, stored>>

(* Mutant: the comparison is off by one. *)
RoomForOneTooMany == Cardinality(m_Users) <= MaxUser

RoomForMore == Cardinality(m_Users) < MaxUser

(***************************************************************************)
(* The condition of the while loop that admits waiting sessions.           *)
(***************************************************************************)
LoopContinues ==
    /\ pc = "admit"
    /\ m_NewUsers # <<>>
    /\ RoomForMore

Front == Head(m_NewUsers)

(***************************************************************************)
(* The front of the queue, back at its end.  Mutants: it is not popped, it *)
(* is not pushed, it is pushed at the front.                               *)
(***************************************************************************)
RequeuedTwice == Append(m_NewUsers, Front)

NotRequeued == Tail(m_NewUsers)

RequeuedAtFront == m_NewUsers

Requeued == Append(Tail(m_NewUsers), Front)

(***************************************************************************)
(* GetMessageInUserQueue finds nothing: back to the end of the queue.      *)
(***************************************************************************)
RequeueSilent ==
    /\ LoopContinues
    /\ inbox[Front] = <<>>
    /\ m_NewUsers' = Requeued
    /\ UNCHANGED <<m_Users, m_Id, active, inbox, network, pc, pass, stored>>

(***************************************************************************)
(* The first message is taken as a session id and VerifyUser refuses it:   *)
(* Redis does not have the key or fails, or Redis has it (so the session   *)
(* already got the user's id) and GetUserById throws.                      *)
(***************************************************************************)
RequeueUnverified ==
    /\ LoopContinues
    /\ inbox[Front] # <<>>
    /\ inbox' = [inbox EXCEPT ![Front] = Tail(@)]
    /\ m_NewUsers' = Requeued
    /\ LET key == Head(inbox[Front]) IN
         \/ m_Id' = m_Id
         \/ key \in stored /\ m_Id' = [m_Id EXCEPT ![Front] = KeyOwner[key]]
    /\ UNCHANGED <<m_Users, active, network, pc, pass, stored>>

(***************************************************************************)
(* VerifyUser accepts the first message.  The first session found with the *)
(* same id is closed and leaves m_Users; nobody asks whether the new one   *)
(* is still connected.                                                     *)
(***************************************************************************)
SessionsOf(u) == {s \in m_Users : m_Id[s] = u}

(* Mutant: no duplicate login check. *)
NoDuplicateCheck(u) == {{}}

FoundDuplicates(u) ==
    IF SessionsOf(u) = {} THEN {{}} ELSE {{s} : s \in SessionsOf(u)}

(* Mutant: the old session is erased but not closed. *)
NotClosed(sessions) == active

Closed(sessions) == [s \in Session |-> active[s] /\ s \notin sessions]

AdmitVerified ==
    /\ LoopContinues
    /\ inbox[Front] # <<>>
    /\ Head(inbox[Front]) \in stored
    /\ LET u == KeyOwner[Head(inbox[Front])] IN
         \E old \in FoundDuplicates(u) :
           /\ m_Id' = [m_Id EXCEPT ![Front] = u]
           /\ m_Users' = (m_Users \ old) \cup {Front}
           /\ active' = Closed(old)
    /\ inbox' = [inbox EXCEPT ![Front] = Tail(@)]
    /\ m_NewUsers' = Tail(m_NewUsers)
    /\ UNCHANGED <<network, pc, pass, stored>>

(* The range of the pass.  Mutant: it starts behind the first session. *)
UsersButOne == m_Users \ {CHOOSE s \in Session : m_Users = {} \/ s \in m_Users}

UsersToVisit == m_Users

(***************************************************************************)
(* The loop ends and both mutexes are released.  Update starts its pass    *)
(* over m_Users, or calls UpdateUsers again when there is nobody.          *)
(***************************************************************************)
FinishUpdateUsers ==
    /\ pc = "admit"
    /\ ~LoopContinues
    /\ pc' = IF m_Users = {} THEN "update" ELSE "visit"
    /\ todo' = UsersToVisit
    /\ UNCHANGED <<lists, active, inbox, network, current, stored>>

-----------------------------------------------------------------------------
(* The server thread: the pass over m_Users. *)

Visit(s) ==
    /\ pc = "visit"
    /\ s \in todo
    /\ todo' = todo \ {s}
    /\ IF active[s]
       THEN pc' = "drain" /\ current' = s
       ELSE UNCHANGED <<pc, current>>
    /\ UNCHANGED <<lists, active, inbox, network, stored>>

(***************************************************************************)
(* SendAllUsers erases the disconnected sessions from m_Users while the    *)
(* range-for of Update iterates over it.  Its iterators are then invalid:  *)
(* the process crashes, or the loop goes on over the shifted elements and  *)
(* misses at most one session for each one erased.                         *)
(***************************************************************************)
SendAllUsers ==
    LET erased == {s \in m_Users : ~active[s]} IN
    /\ m_Users' = m_Users \ erased
    /\ \/ erased = {} /\ UNCHANGED <<pc, todo>>
       \/ /\ erased # {}
          /\ pc' = "drain"
          /\ \E missed \in SUBSET (todo \ erased) :
               /\ Cardinality(missed) <= Cardinality(erased)
               /\ todo' = todo \ (erased \cup missed)
       \/ /\ erased # {}
          /\ pc' = "crashed"
          /\ UNCHANGED todo

OnMessage ==
    /\ pc = "drain"
    /\ inbox[current] # <<>>
    /\ inbox' = [inbox EXCEPT ![current] = Tail(@)]
    /\ IF Head(inbox[current]) = "all"
       THEN SendAllUsers
       ELSE UNCHANGED <<m_Users, pc, todo>>
    /\ UNCHANGED <<m_NewUsers, m_Id, active, network, current, stored>>

FinishDrain ==
    /\ pc = "drain"
    /\ inbox[current] = <<>>
    /\ pc' = "visit"
    /\ current' = NoSession
    /\ UNCHANGED <<lists, active, inbox, network, todo, stored>>

FinishPass ==
    /\ pc = "visit"
    /\ todo = {}
    /\ pc' = "update"
    /\ UNCHANGED <<lists, active, inbox, network, pass, stored>>

ServerThread ==
    \/ RemoveDisconnected
    \/ RequeueSilent
    \/ RequeueUnverified
    \/ AdmitVerified
    \/ FinishUpdateUsers
    \/ \E s \in Session : Visit(s)
    \/ OnMessage
    \/ FinishDrain
    \/ FinishPass

(***************************************************************************)
(* The key expires in Redis, or the API server replaces it.                *)
(***************************************************************************)
KeyExpires(key) ==
    /\ key \in stored
    /\ stored' = stored \ {key}
    /\ UNCHANGED <<lists, active, inbox, network, pc, pass>>

Next ==
    \/ IoThread
    \/ ServerThread
    \/ \E key \in SessionKey : KeyExpires(key)

Spec == Init /\ [][Next]_vars

(***************************************************************************)
(* Update never blocks and never returns, so its thread keeps taking       *)
(* steps.  The network and the clients owe nothing.                        *)
(***************************************************************************)
ServerFairness == WF_vars(ServerThread)

FairSpec == Spec /\ ServerFairness

(***************************************************************************)
(* Clients that all send their session id, and a mutex that a thread       *)
(* waiting for it gets if it is released over and over.                    *)
(***************************************************************************)
SendsKey(s) == received[s] = 0 /\ \E key \in SessionKey : ReadBody(s, key)

PoliteSpec ==
    /\ FairSpec
    /\ SF_vars(OnAccept)
    /\ \A s \in Session : SF_vars(SendsKey(s))

-----------------------------------------------------------------------------
(***************************************************************************)
(* Logged-in sessions have a user, and the duplicate-login check of        *)
(* UpdateUsers leaves no user in m_Users twice, although it erases only    *)
(* the first session it finds, ids are set on sessions that then fail      *)
(* verification, and SendAllUsers erases too.                              *)
(***************************************************************************)
OneSessionPerUser ==
    /\ \A s \in m_Users : m_Id[s] \in User
    /\ \A s, t \in m_Users : m_Id[s] = m_Id[t] => s = t

(***************************************************************************)
(* m_Users never grows beyond m_MaxUser: room is checked before every      *)
(* single admission and nothing else adds a session.                       *)
(***************************************************************************)
WithinCapacity == Cardinality(m_Users) <= MaxUser

(***************************************************************************)
(* A session is in one place only: once in m_NewUsers, or in m_Users, or   *)
(* still in the hands of OnAccept.  Requeueing never duplicates or loses   *)
(* a connection and a logged-in session is not waiting any more.           *)
(***************************************************************************)
HeldOnce ==
    /\ \A i, j \in DOMAIN m_NewUsers : m_NewUsers[i] = m_NewUsers[j] => i = j
    /\ Waiting \cap m_Users = {}
    /\ Waiting \cup m_Users \subseteq accepted
    /\ io \notin accepted

(***************************************************************************)
(* A session leaves m_Users only when it is closed: a connection that      *)
(* works is never forgotten by UpdateUsers, by a duplicate login or by a   *)
(* broadcast without IsConnected() telling its owner so.                   *)
(***************************************************************************)
DroppedOnlyIfClosed == [][\A s \in m_Users \ m_Users' : ~active'[s]]_vars

(***************************************************************************)
(* The stall: the io thread sits in OnAccept while UpdateUsers spins with  *)
(* the mutex held over waiting sessions that have no message.  Once there, *)
(* always there: reading, disconnecting and accepting all need the io      *)
(* thread, and UpdateUsers leaves its loop only for a message.             *)
(***************************************************************************)
Stalled ==
    /\ io # NoSession
    /\ LoopContinues
    /\ \A s \in Waiting : inbox[s] = <<>>

StallIsForever == [][Stalled => Stalled']_vars

(***************************************************************************)
(* UpdateUsers takes the waiting sessions in turn, so a message that a     *)
(* waiting session received is looked at whatever the sessions before it   *)
(* do, unless m_Users is full.                                             *)
(***************************************************************************)
HasMessage(s) == inbox[s] # <<>>

WaitersHaveTheirTurn ==
    \A s \in Session :
        s \in Waiting /\ HasMessage(s)
            ~> \/ ~HasMessage(s) \/ s \in m_Users
               \/ ~RoomForMore \/ pc = "crashed"

(***************************************************************************)
(* If UpdateUsers keeps returning, a message of a logged-in session is     *)
(* handled in the end or its session is closed; the pass over m_Users may  *)
(* miss a session after a broadcast but not for ever.                      *)
(***************************************************************************)
ServedIfUpdateReturns ==
    []<>(pc = "update") =>
        \A s \in Session :
            s \in m_Users /\ HasMessage(s) ~> ~HasMessage(s) \/ ~active[s]

(***************************************************************************)
(* Comment of Update: the messages of all connected sessions are handled.  *)
(***************************************************************************)
ConnectedUsersServed ==
    \A s \in Session :
        s \in m_Users /\ active[s] /\ HasMessage(s)
            ~> ~HasMessage(s) \/ ~active[s] \/ pc = "crashed"

-----------------------------------------------------------------------------
(***************************************************************************)
(* The sessions in m_Users, with their ids, implement OnlineUsers.         *)
(***************************************************************************)
Abstract == INSTANCE OnlineUsers WITH
    online  <- [s \in m_Users |-> m_Id[s]],
    retired <- accepted \ (Waiting \cup m_Users)

ImplementsOnlineUsers == Abstract!Init /\ [][Abstract!Next]_(Abstract!vars)
=============================================================================
