---------------------------- MODULE PartyServer ----------------------------
(***************************************************************************)
(* Parties (Party.cpp, PartyManager.cpp and the party handlers of          *)
(* TcpServer.cpp), together with the comings and goings of the sessions    *)
(* that hold them.                                                         *)
(*                                                                         *)
(* Membership is written down twice: a Party lists user ids, and each      *)
(* UserSession has the id of "its" party.  The two outlive each other: a   *)
(* session dies with its connection, a party's list does not.              *)
(*                                                                         *)
(* Every handler runs on the server thread, on a session of m_Users or on  *)
(* one that its own broadcast has just erased from it.  The early returns  *)
(* of the handlers only answer with an error message and are not steps.    *)
(* The order of the list of members tells nothing apart here, how  *)
(* often a user is in it does.                                             *)
(***************************************************************************)
EXTENDS Naturals, FiniteSets

CONSTANTS
    Session,       \* the UserSession objects
    User,          \* the user ids, none of them 0
    NoUser,        \* m_Id = 0
    NoSession,     \* a null UserSession
    PartyName,     \* the names clients ask for, none of them empty
    MaxUser,       \* m_MaxUser
    FirstPartyId,  \* the first value of m_PartyIdCounter
    MaxParties,    \* bound: parties ever created
    MaxCopies      \* bound: how often one user joins one party

ASSUME PartyAssumption ==
    /\ MaxUser \in Nat
    /\ FirstPartyId \in Nat \ {0}
    /\ MaxParties \in Nat
    /\ MaxCopies \in Nat
    /\ NoUser \notin User
    /\ NoSession \notin Session

VARIABLES
    m_Users,          \* the sessions that are logged in
    orphan,           \* a session erased while its messages are handled
    used,             \* the sessions that ever were
    m_Id,             \* the user id of each session
    m_PartyId,        \* the party id each session holds, 0 for none
    m_MapParties,     \* the parties by id
    m_PartyIdCounter, \* the id of the next party
    speaker,          \* who sent the party message of the last step, if any
    heard             \* how many copies of it each session was sent

vars == <<m_Users, orphan, used, m_Id, m_PartyId, m_MapParties, m_PartyIdCounter,
          speaker, heard>>

Silence == [s \in Session |-> 0]

Party == [name : PartyName, creator : User, members : [User -> Nat]]

Parties == DOMAIN m_MapParties

TypeOK ==
    /\ m_Users \subseteq used
    /\ used \subseteq Session
    /\ orphan \in (used \ m_Users) \cup {NoSession}
    /\ m_Id \in [Session -> User \cup {NoUser}]
    /\ \A s \in used : m_Id[s] \in User
    /\ m_PartyId \in [Session -> Nat]
    /\ Parties \subseteq Nat \ {0}
    /\ m_MapParties \in [Parties -> Party]
    /\ m_PartyIdCounter \in Nat \ {0}
    /\ speaker \in Session \cup {NoSession}
    /\ heard \in [Session -> Nat]

Init ==
    /\ m_Users = {}
    /\ orphan = NoSession
    /\ used = {}
    /\ m_Id = [s \in Session |-> NoUser]
    /\ m_PartyId = [s \in Session |-> 0]
    /\ m_MapParties = [p \in {} |-> p]
    /\ m_PartyIdCounter = FirstPartyId
    /\ speaker = NoSession
    /\ heard = Silence

NobodySpeaks == speaker' = NoSession /\ heard' = Silence

-----------------------------------------------------------------------------
(* Sessions come and go. *)

SessionsOf(u) == {s \in m_Users : m_Id[s] = u}

(* Mutant: no duplicate login check. *)
NoDuplicateCheck(u) == {{}}

FoundDuplicates(u) ==
    IF SessionsOf(u) = {} THEN {{}} ELSE {{s} : s \in SessionsOf(u)}

(***************************************************************************)
(* UpdateUsers admits a new session, which holds no party, in place of the *)
(* first one found with the same user id.  The parties are not told.  By   *)
(* then no message of an erased session is being handled.                  *)
(***************************************************************************)
Login(s, u) ==
    /\ s \notin used
    /\ Cardinality(m_Users) < MaxUser
    /\ \E old \in FoundDuplicates(u) : m_Users' = (m_Users \ old) \cup {s}
    /\ orphan' = NoSession
    /\ used' = used \cup {s}
    /\ m_Id' = [m_Id EXCEPT ![s] = u]
    /\ NobodySpeaks
    /\ UNCHANGED <<m_PartyId, m_MapParties, m_PartyIdCounter>>

(***************************************************************************)
(* UpdateUsers erases the sessions that disconnected.                      *)
(***************************************************************************)
RemoveDisconnected(dropped) ==
    /\ dropped # {}
    /\ m_Users' = m_Users \ dropped
    /\ orphan' = NoSession
    /\ NobodySpeaks
    /\ UNCHANGED <<used, m_Id, m_PartyId, m_MapParties, m_PartyIdCounter>>

(***************************************************************************)
(* The session whose messages are handled is in m_Users, or erased from    *)
(* it.  When the pass goes on to another one, an erased one is destroyed.  *)
(***************************************************************************)
Reachable == m_Users \cup ({orphan} \ {NoSession})

Handled(s) ==
    /\ s \in Reachable
    /\ orphan' = IF s = orphan THEN orphan ELSE NoSession

(***************************************************************************)
(* A broadcast of session s erases the disconnected sessions, s itself     *)
(* maybe among them.                                                       *)
(***************************************************************************)
SendAllUsers(s, dropped) ==
    /\ s \in Reachable
    /\ dropped # {}
    /\ m_Users' = m_Users \ dropped
    /\ orphan' = IF s \in dropped \/ s = orphan THEN s ELSE NoSession
    /\ NobodySpeaks
    /\ UNCHANGED <<used, m_Id, m_PartyId, m_MapParties, m_PartyIdCounter>>

-----------------------------------------------------------------------------
(* PartyManager and Party. *)

PartiesNamed(name) == {p \in Parties : m_MapParties[p].name = name}

(* Mutant: the names are not compared. *)
NameNeverTaken(name) == FALSE

IsPartyNameTaken(name) == PartiesNamed(name) # {}

NewParty(name, creator) ==
    [name |-> name, creator |-> creator,
     members |-> [u \in User |-> IF u = creator THEN 1 ELSE 0]]

(* Mutant: the list is left as it was. *)
NotAdded(members, u) == members

AddMember(members, u) == [members EXCEPT ![u] = @ + 1]

(* Mutant: the predicate of the erase is negated. *)
RemoveOthers(members, u) == [v \in User |-> IF v = u THEN members[v] ELSE 0]

RemoveMember(members, u) == [members EXCEPT ![u] = 0]

(* Mutant: anybody may do what only the leader may, and the reverse. *)
EverybodyLeads(p, s) == TRUE

NobodyLeads(p, s) == FALSE

IsPartyCreator(p, s) == m_MapParties[p].creator = m_Id[s]

(***************************************************************************)
(* The sessions HandlePartyDelete takes out of party p.                    *)
(* Mutant: only the session that asks.                                     *)
(***************************************************************************)
OnlyAsking(p, s) == {s}

ResetByDelete(p, s) == {t \in m_Users : m_PartyId[t] = p}

-----------------------------------------------------------------------------
(* The party handlers of session s. *)

HandlePartyCreate(s, name) ==
    /\ Handled(s)
    /\ m_PartyId[s] = 0
    /\ ~IsPartyNameTaken(name)
    /\ m_PartyIdCounter < FirstPartyId + MaxParties
    /\ m_MapParties' = [p \in Parties \cup {m_PartyIdCounter} |->
                            IF p = m_PartyIdCounter
                            THEN NewParty(name, m_Id[s])
                            ELSE m_MapParties[p]]
    /\ m_PartyId' = [m_PartyId EXCEPT ![s] = m_PartyIdCounter]
    /\ m_PartyIdCounter' = m_PartyIdCounter + 1
    /\ NobodySpeaks
    /\ UNCHANGED <<m_Users, used, m_Id>>

(***************************************************************************)
(* JoinParty does not look at who is a member already.                     *)
(***************************************************************************)
HandlePartyJoin(s, name) ==
    /\ Handled(s)
    /\ m_PartyId[s] = 0
    /\ \E p \in PartiesNamed(name) :
         /\ m_MapParties[p].members[m_Id[s]] < MaxCopies
         /\ m_MapParties' = [m_MapParties EXCEPT
                                 ![p].members = AddMember(@, m_Id[s])]
         /\ m_PartyId' = [m_PartyId EXCEPT ![s] = p]
    /\ NobodySpeaks
    /\ UNCHANGED <<m_Users, used, m_Id, m_PartyIdCounter>>

HandlePartyDelete(s, name) ==
    /\ Handled(s)
    /\ \E p \in PartiesNamed(name) :
         /\ IsPartyCreator(p, s)
         /\ m_MapParties' = [q \in Parties \ {p} |-> m_MapParties[q]]
         /\ m_PartyId' = [t \in Session |->
                              IF t \in ResetByDelete(p, s) THEN 0 ELSE m_PartyId[t]]
    /\ NobodySpeaks
    /\ UNCHANGED <<m_Users, used, m_Id, m_PartyIdCounter>>

(***************************************************************************)
(* The party is the one the message names, whichever the session holds.    *)
(***************************************************************************)
HandlePartyLeave(s, name) ==
    /\ Handled(s)
    /\ m_PartyId[s] # 0
    /\ \E p \in PartiesNamed(name) :
         /\ ~IsPartyCreator(p, s)
         /\ m_MapParties' = [m_MapParties EXCEPT
                                 ![p].members = RemoveMember(@, m_Id[s])]
    /\ m_PartyId' = [m_PartyId EXCEPT ![s] = 0]
    /\ NobodySpeaks
    /\ UNCHANGED <<m_Users, used, m_Id, m_PartyIdCounter>>

(***************************************************************************)
(* SendPartyMessage sends one copy per entry of the list, to the session   *)
(* GetUserById finds for it in m_Users, if there is one.                   *)
(***************************************************************************)
HandlePartyMessage(s) ==
    /\ Handled(s)
    /\ m_PartyId[s] \in Parties
    /\ speaker' = s
    /\ heard' = [t \in Session |->
                     IF t \in m_Users
                     THEN m_MapParties[m_PartyId[s]].members[m_Id[t]]
                     ELSE 0]
    /\ UNCHANGED <<m_Users, used, m_Id, m_PartyId, m_MapParties, m_PartyIdCounter>>

Next ==
    \/ \E s \in Session, u \in User : Login(s, u)
    \/ \E dropped \in SUBSET m_Users : RemoveDisconnected(dropped)
    \/ \E s \in Session : \E dropped \in SUBSET m_Users : SendAllUsers(s, dropped)
    \/ \E s \in Session, name \in PartyName :
        \/ HandlePartyCreate(s, name)
        \/ HandlePartyJoin(s, name)
        \/ HandlePartyDelete(s, name)
        \/ HandlePartyLeave(s, name)
    \/ \E s \in Session : HandlePartyMessage(s)

Spec == Init /\ [][Next]_vars

-----------------------------------------------------------------------------
(***************************************************************************)
(* FindPartyByName is unambiguous: the name check of HandlePartyCreate is  *)
(* enough although names become free again when parties are deleted.       *)
(***************************************************************************)
PartyNamesUnique ==
    \A p, q \in Parties : m_MapParties[p].name = m_MapParties[q].name => p = q

(***************************************************************************)
(* The creator of a party stays in its list as long as the party exists,   *)
(* through reconnects, leaves and joins: LeaveParty refuses the creator.   *)
(***************************************************************************)
CreatorIsMember ==
    \A p \in Parties : m_MapParties[p].members[m_MapParties[p].creator] > 0

(***************************************************************************)
(* The two records of membership agree in one direction: the party that a  *)
(* logged-in session holds exists and lists the session's user.  Deleting, *)
(* leaving by name and logging in again never leave a stale party id.      *)
(***************************************************************************)
HeldPartyListsUser ==
    \A s \in m_Users :
        m_PartyId[s] # 0 =>
            /\ m_PartyId[s] \in Parties
            /\ m_MapParties[m_PartyId[s]].members[m_Id[s]] > 0

(***************************************************************************)
(* A logged-in session that sends a party message gets it back: it never   *)
(* talks to a party that does not list its user.                           *)
(***************************************************************************)
SpeakerHears == speaker \in m_Users => heard[speaker] > 0

(***************************************************************************)
(* A party disappears only while its creator is logged in, and the id of a *)
(* party is never given to another one.                                    *)
(***************************************************************************)
OnlyCreatorDeletes ==
    [][\A p \in Parties :
           \/ p \in Parties' /\ m_MapParties'[p].name = m_MapParties[p].name
                             /\ m_MapParties'[p].creator = m_MapParties[p].creator
           \/ \E s \in Reachable :
                 m_Id[s] = m_MapParties[p].creator /\ p \notin Parties'
      ]_vars

(***************************************************************************)
(* Nobody is taken out of a party that goes on but by a leave of the       *)
(* user's own session: losing the connection, a login elsewhere and what   *)
(* other members do keep the membership.                                   *)
(***************************************************************************)
RemovedByOwnLeave ==
    [][\A p \in Parties \cap Parties', u \in User :
           m_MapParties[p].members[u] > 0 /\ m_MapParties'[p].members[u] = 0 =>
               \E s \in Reachable :
                   m_Id[s] = u /\ m_PartyId[s] # 0 /\ m_PartyId'[s] = 0
      ]_vars

(***************************************************************************)
(* README, PartyManager: joining checks for duplicates.  A user is in one  *)
(* party at most, and once.                                                *)
(***************************************************************************)
NoDuplicateMembership ==
    \A u \in User, p, q \in Parties :
        /\ m_MapParties[p].members[u] <= 1
        /\ m_MapParties[p].members[u] > 0 /\ m_MapParties[q].members[u] > 0 => p = q

-----------------------------------------------------------------------------
(***************************************************************************)
(* Seen from the parties, logins still implement OnlineUsers.              *)
(***************************************************************************)
Abstract == INSTANCE OnlineUsers WITH
    online  <- [s \in m_Users |-> m_Id[s]],
    retired <- used \ m_Users

ImplementsOnlineUsers == Abstract!Init /\ [][Abstract!Next]_(Abstract!vars)
=============================================================================
