---------------------------- MODULE OnlineUsers ----------------------------
(***************************************************************************)
(* What the chat server promises about the users that are logged in,       *)
(* whatever threads, queues and messages it is made of: at most MaxUser    *)
(* sessions are online, no two of them for the same user, and a session    *)
(* that went offline never comes back.  A user who logs in again replaces  *)
(* the session the user had.                                               *)
(*                                                                         *)
(* SessionAdmission (the accept queue and the two threads) and PartyServer *)
(* (logins seen from the party handlers) both implement this module.       *)
(***************************************************************************)
EXTENDS Naturals, FiniteSets

CONSTANTS
    Session,  \* the UserSession objects, one per accepted connection
    User,     \* the values of user.id
    MaxUser   \* m_MaxUser

VARIABLES
    online,   \* the user of each session that is online
    retired   \* the sessions that were online once and are not any more

vars == <<online, retired>>

Sessions == DOMAIN online

TypeOK ==
    /\ Sessions \subseteq Session
    /\ online \in [Sessions -> User]
    /\ retired \subseteq Session

Init ==
    /\ online = [s \in {} |-> s]
    /\ retired = {}

(***************************************************************************)
(* Session s logs in for user u.  The session u had, if any, goes offline  *)
(* in the same step.                                                       *)
(***************************************************************************)
ReplacedBy(u) == {s \in Sessions : online[s] = u}

Room == Cardinality(Sessions) < MaxUser

Fresh(s) == s \notin Sessions \cup retired

Admit(s, u) ==
    /\ Fresh(s)
    /\ Room
    /\ online' = [t \in (Sessions \ ReplacedBy(u)) \cup {s} |->
                      IF t = s THEN u ELSE online[t]]
    /\ retired' = retired \cup ReplacedBy(u)

(***************************************************************************)
(* Sessions whose connection broke are removed together.                   *)
(***************************************************************************)
Drop(dropped) ==
    /\ dropped # {}
    /\ dropped \subseteq Sessions
    /\ online' = [s \in Sessions \ dropped |-> online[s]]
    /\ retired' = retired \cup dropped

Next ==
    \/ \E s \in Session, u \in User : Admit(s, u)
    \/ \E dropped \in SUBSET Sessions : Drop(dropped)

Spec == Init /\ [][Next]_vars

-----------------------------------------------------------------------------
(***************************************************************************)
(* No user is online twice, and capacity is never exceeded, however often  *)
(* users log in over their own older sessions.                             *)
(***************************************************************************)
OneSessionPerUser == \A s, t \in Sessions : online[s] = online[t] => s = t

WithinCapacity == Cardinality(Sessions) <= MaxUser

(***************************************************************************)
(* A session that went offline stays offline: a login kicked out by a      *)
(* duplicate login, or lost with its connection, is not resurrected.       *)
(***************************************************************************)
OfflineForGood == Sessions \cap retired = {}
=============================================================================
