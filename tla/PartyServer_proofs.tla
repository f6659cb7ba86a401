------------------------- MODULE PartyServer_proofs -------------------------
(***************************************************************************)
(* Proofs about PartyServer for every set of sessions, users and names and *)
(* every bound: type correctness, the consistency of the two records of    *)
(* membership, and what may end a membership or a party.                   *)
(***************************************************************************)
EXTENDS PartyServer, TLAPS

(* Replacing the member list of one party keeps the map of parties. *)
LEMMA ChangedMembers ==
    ASSUME NEW P, NEW map \in [P -> Party], NEW p \in P, NEW members \in [User -> Nat]
    PROVE  [map EXCEPT ![p].members = members] \in [P -> Party]
<1>1. [map[p] EXCEPT !.members = members] \in Party
  BY DEF Party
<1>2. QED
  BY <1>1

(***************************************************************************)
(* The variables keep their types.                                         *)
(***************************************************************************)
THEOREM TypeCorrect == Spec => []TypeOK
<1> USE PartyAssumption
<1>1. Init => TypeOK
  <2> SUFFICES ASSUME Init PROVE TypeOK
    OBVIOUS
  <2>1. Parties = {} /\ m_MapParties \in [{} -> Party]
    BY DEF Init, Parties
  <2>2. QED
    BY <2>1 DEF Init, TypeOK, Silence
<1>2. TypeOK /\ [Next]_vars => TypeOK'
  <2> SUFFICES ASSUME TypeOK, [Next]_vars PROVE TypeOK'
    OBVIOUS
  <2>1. NobodySpeaks => speaker' \in Session \cup {NoSession} /\ heard' \in [Session -> Nat]
    BY DEF NobodySpeaks, Silence
  <2>2. ASSUME NEW s \in Session, NEW u \in User, Login(s, u) PROVE TypeOK'
    <3>1. PICK old : m_Users' = (m_Users \ old) \cup {s}
      BY <2>2 DEF Login
    <3>2. QED
      BY <2>1, <2>2, <3>1 DEF Login, TypeOK, Parties
  <2>3. ASSUME NEW dropped \in SUBSET m_Users, RemoveDisconnected(dropped) PROVE TypeOK'
    BY <2>1, <2>3 DEF RemoveDisconnected, TypeOK, Parties
  <2>4. ASSUME NEW s \in Session, NEW dropped \in SUBSET m_Users, SendAllUsers(s, dropped)
        PROVE  TypeOK'
    BY <2>1, <2>4 DEF SendAllUsers, TypeOK, Reachable, Parties
  <2>5. ASSUME NEW s \in Session, Handled(s)
        PROVE  s \in used /\ m_Id[s] \in User /\ orphan' \in (used \ m_Users) \cup {NoSession}
    BY <2>5 DEF Handled, TypeOK, Reachable
  <2>6. ASSUME NEW s \in Session, NEW name \in PartyName, HandlePartyCreate(s, name)
        PROVE  TypeOK'
    <3>1. NewParty(name, m_Id[s]) \in Party
      BY <2>5, <2>6 DEF HandlePartyCreate, NewParty, Party
    <3>2. m_MapParties' \in [Parties \cup {m_PartyIdCounter} -> Party]
      BY <2>6, <3>1 DEF HandlePartyCreate, TypeOK
    <3>3. QED
      BY <2>1, <2>5, <2>6, <3>2 DEF HandlePartyCreate, TypeOK, Parties
  <2>7. ASSUME NEW s \in Session, NEW name \in PartyName, HandlePartyJoin(s, name)
        PROVE  TypeOK'
    <3>1. PICK p \in PartiesNamed(name) :
              /\ m_MapParties' = [m_MapParties EXCEPT
                                      ![p].members = AddMember(@, m_Id[s])]
              /\ m_PartyId' = [m_PartyId EXCEPT ![s] = p]
      BY <2>7 DEF HandlePartyJoin
    <3>2. p \in Parties /\ p \in Nat /\ m_Id[s] \in User
      BY <2>5, <2>7 DEF HandlePartyJoin, PartiesNamed, TypeOK
    <3>3. AddMember(m_MapParties[p].members, m_Id[s]) \in [User -> Nat]
      BY <3>2 DEF TypeOK, AddMember, Party
    <3>4. m_MapParties' \in [Parties -> Party]
      BY <3>1, <3>2, <3>3, ChangedMembers DEF TypeOK
    <3>5. QED
      BY <2>1, <2>5, <2>7, <3>1, <3>2, <3>4 DEF HandlePartyJoin, TypeOK, Parties
  <2>8. ASSUME NEW s \in Session, NEW name \in PartyName, HandlePartyDelete(s, name)
        PROVE  TypeOK'
    BY <2>1, <2>5, <2>8 DEF HandlePartyDelete, TypeOK, Parties
  <2>9. ASSUME NEW s \in Session, NEW name \in PartyName, HandlePartyLeave(s, name)
        PROVE  TypeOK'
    <3>1. PICK p \in PartiesNamed(name) :
              m_MapParties' = [m_MapParties EXCEPT
                                   ![p].members = RemoveMember(@, m_Id[s])]
      BY <2>9 DEF HandlePartyLeave
    <3>2. p \in Parties /\ RemoveMember(m_MapParties[p].members, m_Id[s]) \in [User -> Nat]
      BY DEF TypeOK, RemoveMember, Party, PartiesNamed
    <3>3. m_MapParties' \in [Parties -> Party]
      BY <3>1, <3>2, ChangedMembers DEF TypeOK
    <3>4. QED
      BY <2>1, <2>5, <2>9, <3>3 DEF HandlePartyLeave, TypeOK, Parties
  <2>10. ASSUME NEW s \in Session, HandlePartyMessage(s) PROVE TypeOK'
    <3>1. \A t \in m_Users : m_MapParties[m_PartyId[s]].members[m_Id[t]] \in Nat
      BY <2>10 DEF HandlePartyMessage, TypeOK, Party
    <3>2. heard' \in [Session -> Nat]
      BY <2>10, <3>1 DEF HandlePartyMessage
    <3>3. QED
      BY <2>5, <2>10, <3>2 DEF HandlePartyMessage, TypeOK, Parties
  <2>11. CASE UNCHANGED vars
    BY <2>11 DEF vars, TypeOK, Parties
  <2>12. QED
    BY <2>2, <2>3, <2>4, <2>6, <2>7, <2>8, <2>9, <2>10, <2>11 DEF Next
<1>3. QED
  BY <1>1, <1>2, PTL DEF Spec

-----------------------------------------------------------------------------
(***************************************************************************)
(* The inductive invariant.  A leave takes the user out of the named party *)
(* but resets only the leaving session, so HeldPartyListsUser needs that   *)
(* no other session that can act or be asked for has the same user; a new  *)
(* party must get a fresh id, and a session that logs in must hold none.   *)
(***************************************************************************)
OneSessionPerUser == \A s, t \in Reachable : m_Id[s] = m_Id[t] => s = t

IdsBelowCounter == \A p \in Parties : p < m_PartyIdCounter

NewSessionsHoldNone == \A s \in Session \ used : m_PartyId[s] = 0

PartyInv ==
    /\ TypeOK
    /\ OneSessionPerUser
    /\ IdsBelowCounter
    /\ NewSessionsHoldNone
    /\ PartyNamesUnique
    /\ CreatorIsMember
    /\ HeldPartyListsUser
    /\ SpeakerHears

LEMMA InitParties == Init => PartyInv
<1> SUFFICES ASSUME Init PROVE PartyInv
  OBVIOUS
<1>1. Parties = {} /\ m_MapParties \in [{} -> Party]
  BY DEF Init, Parties
<1>2. TypeOK
  BY <1>1, PartyAssumption DEF Init, TypeOK, Silence
<1>3. OneSessionPerUser /\ NewSessionsHoldNone /\ SpeakerHears
  BY PartyAssumption DEF Init, OneSessionPerUser, NewSessionsHoldNone, SpeakerHears, Reachable
<1>4. IdsBelowCounter /\ PartyNamesUnique /\ CreatorIsMember /\ HeldPartyListsUser
  BY <1>1 DEF Init, IdsBelowCounter, PartyNamesUnique, CreatorIsMember, HeldPartyListsUser
<1>5. QED
  BY <1>2, <1>3, <1>4 DEF PartyInv

(* A handler leaves the sessions alone, save for an erased one. *)
LEMMA HandlerKeepsSessions ==
    ASSUME PartyInv, NEW s, Handled(s), UNCHANGED <<m_Users, used, m_Id>>
    PROVE  /\ s \in used /\ s \in Session /\ m_Id[s] \in User
           /\ OneSessionPerUser'
           /\ \A t \in m_Users : t \in used /\ t \in Session /\ m_Id[t] \in User
           /\ \A t \in m_Users : m_Id[t] = m_Id[s] => t = s
BY DEF PartyInv, TypeOK, Handled, Reachable, OneSessionPerUser

(* Steps that change no party and after which nobody spoke. *)
LEMMA SessionsChange ==
    ASSUME PartyInv, TypeOK', OneSessionPerUser', NobodySpeaks,
           UNCHANGED <<m_PartyId, m_MapParties, m_PartyIdCounter>>,
           used \subseteq used',
           \A s \in m_Users' : s \in m_Users \/ m_PartyId[s] = 0,
           \A s \in m_Users : m_Id'[s] = m_Id[s]
    PROVE  PartyInv'
<1>1. Parties' = Parties
  BY DEF Parties
<1>2. NewSessionsHoldNone' /\ IdsBelowCounter' /\ PartyNamesUnique' /\ CreatorIsMember'
  BY <1>1 DEF PartyInv, NewSessionsHoldNone, IdsBelowCounter, PartyNamesUnique, CreatorIsMember
<1>3. HeldPartyListsUser'
  BY <1>1 DEF PartyInv, HeldPartyListsUser
<1>4. SpeakerHears'
  BY PartyAssumption DEF NobodySpeaks, SpeakerHears, TypeOK
<1>5. QED
  BY <1>2, <1>3, <1>4 DEF PartyInv

LEMMA LoginKeepsParties ==
    ASSUME PartyInv, TypeOK', NEW s \in Session, NEW u \in User, Login(s, u)
    PROVE  PartyInv'
<1>1. PICK old \in FoundDuplicates(u) : m_Users' = (m_Users \ old) \cup {s}
  BY DEF Login
<1>2. old = SessionsOf(u)
  BY DEF FoundDuplicates, SessionsOf, PartyInv, OneSessionPerUser, Reachable
<1>3. /\ s \notin used /\ used' = used \cup {s} /\ orphan' = NoSession
      /\ m_Id' = [m_Id EXCEPT ![s] = u]
  BY DEF Login
<1>4. /\ Reachable' = m_Users'
      /\ m_Id'[s] = u
      /\ \A t \in m_Users : t \in Session /\ t # s /\ m_Id'[t] = m_Id[t]
  BY <1>3 DEF Reachable, PartyInv, TypeOK
<1>5. OneSessionPerUser'
  BY <1>1, <1>2, <1>4 DEF SessionsOf, PartyInv, OneSessionPerUser, Reachable
<1>6. m_PartyId[s] = 0
  BY <1>3 DEF PartyInv, NewSessionsHoldNone
<1>7. QED
  BY <1>1, <1>3, <1>4, <1>5, <1>6, SessionsChange DEF Login

LEMMA DepartureKeepsParties ==
    ASSUME PartyInv, TypeOK', m_Users' \subseteq m_Users, Reachable' \subseteq Reachable,
           NobodySpeaks,
           UNCHANGED <<used, m_Id, m_PartyId, m_MapParties, m_PartyIdCounter>>
    PROVE  PartyInv'
<1>1. OneSessionPerUser'
  BY DEF PartyInv, OneSessionPerUser
<1>2. QED
  BY <1>1, SessionsChange

LEMMA CreateKeepsParties ==
    ASSUME PartyInv, TypeOK', NEW s \in Session, NEW name \in PartyName,
           HandlePartyCreate(s, name)
    PROVE  PartyInv'
<1> DEFINE new == m_PartyIdCounter
<1>1. /\ s \in used /\ m_Id[s] \in User /\ OneSessionPerUser'
      /\ \A t \in m_Users : t \in used /\ t \in Session /\ m_Id[t] \in User
  BY HandlerKeepsSessions DEF HandlePartyCreate
<1>2. new \in Nat \ {0} /\ new \notin Parties /\ m_PartyIdCounter' = new + 1
  BY DEF HandlePartyCreate, PartyInv, TypeOK, IdsBelowCounter
<1>3. /\ Parties' = Parties \cup {new}
      /\ m_MapParties'[new] = NewParty(name, m_Id[s])
      /\ \A p \in Parties : m_MapParties'[p] = m_MapParties[p]
  BY <1>2 DEF HandlePartyCreate, Parties
<1>4. IdsBelowCounter' /\ NewSessionsHoldNone'
  BY <1>1, <1>2, <1>3 DEF HandlePartyCreate, PartyInv, TypeOK, IdsBelowCounter, NewSessionsHoldNone
<1>5. PartyNamesUnique'
  <2>1. \A p \in Parties : m_MapParties[p].name # name
    BY DEF HandlePartyCreate, IsPartyNameTaken, PartiesNamed
  <2>2. m_MapParties'[new].name = name
    BY <1>3 DEF NewParty
  <2>3. QED
    BY <1>2, <1>3, <2>1, <2>2 DEF PartyInv, PartyNamesUnique
<1>6. CreatorIsMember'
  <2>1. m_MapParties'[new].members[m_MapParties'[new].creator] > 0
    BY <1>1, <1>3 DEF NewParty
  <2>2. QED
    BY <1>3, <2>1 DEF PartyInv, CreatorIsMember
<1>7. HeldPartyListsUser'
  <2>1. m_Users' = m_Users /\ m_Id' = m_Id /\ m_PartyId' = [m_PartyId EXCEPT ![s] = new]
    BY DEF HandlePartyCreate
  <2>2. m_MapParties'[new].members[m_Id[s]] > 0
    BY <1>1, <1>3 DEF NewParty
  <2>3. ASSUME NEW t \in m_Users, t # s, m_PartyId'[t] # 0
        PROVE  m_PartyId'[t] \in Parties /\ m_MapParties[m_PartyId'[t]].members[m_Id[t]] > 0
    BY <1>1, <2>1, <2>3 DEF PartyInv, TypeOK, HeldPartyListsUser
  <2>4. m_PartyId'[s] = new
    BY <2>1 DEF PartyInv, TypeOK
  <2>5. QED
    BY <1>3, <2>1, <2>2, <2>3, <2>4 DEF HeldPartyListsUser
<1>8. SpeakerHears'
  BY PartyAssumption DEF HandlePartyCreate, NobodySpeaks, SpeakerHears, TypeOK
<1>9. QED
  BY <1>1, <1>4, <1>5, <1>6, <1>7, <1>8 DEF PartyInv

(* Another party's list, or a name, does not change with one party's list. *)
LEMMA ChangedList ==
    ASSUME TypeOK, NEW p \in Parties, NEW members \in [User -> Nat],
           m_MapParties' = [m_MapParties EXCEPT ![p].members = members]
    PROVE  /\ Parties' = Parties
           /\ m_MapParties'[p].members = members
           /\ \A q \in Parties : m_MapParties'[q].name = m_MapParties[q].name
           /\ \A q \in Parties : m_MapParties'[q].creator = m_MapParties[q].creator
           /\ \A q \in Parties \ {p} : m_MapParties'[q] = m_MapParties[q]
<1>1. m_MapParties \in [Parties -> Party]
  BY DEF TypeOK
<1>2. Parties' = Parties
  BY <1>1 DEF Parties
<1>3. m_MapParties'[p] = [m_MapParties[p] EXCEPT !.members = members]
  BY <1>1
<1>4. m_MapParties[p] \in Party
  BY <1>1
<1>5. /\ m_MapParties'[p].members = members
      /\ m_MapParties'[p].name = m_MapParties[p].name
      /\ m_MapParties'[p].creator = m_MapParties[p].creator
  BY <1>3, <1>4 DEF Party
<1>6. \A q \in Parties \ {p} : m_MapParties'[q] = m_MapParties[q]
  BY <1>1
<1>7. QED
  BY <1>2, <1>5, <1>6

LEMMA JoinKeepsParties ==
    ASSUME PartyInv, TypeOK', NEW s \in Session, NEW name \in PartyName,
           HandlePartyJoin(s, name)
    PROVE  PartyInv'
<1>1. /\ s \in used /\ m_Id[s] \in User /\ OneSessionPerUser'
      /\ \A t \in m_Users : t \in used /\ t \in Session /\ m_Id[t] \in User
  BY HandlerKeepsSessions DEF HandlePartyJoin
<1>2. PICK p \in PartiesNamed(name) :
          /\ m_MapParties' = [m_MapParties EXCEPT ![p].members = AddMember(@, m_Id[s])]
          /\ m_PartyId' = [m_PartyId EXCEPT ![s] = p]
  BY DEF HandlePartyJoin
<1> DEFINE before == m_MapParties[p].members
           after  == AddMember(before, m_Id[s])
<1>3. TypeOK /\ p \in Parties /\ p \in Nat \ {0}
  BY DEF PartyInv, PartiesNamed, TypeOK
<1>4. before \in [User -> Nat]
  BY <1>3 DEF TypeOK, Party
<1>5. /\ after \in [User -> Nat] /\ after[m_Id[s]] > 0
      /\ \A u \in User : before[u] > 0 => after[u] > 0
  BY <1>1, <1>4 DEF AddMember
<1> HIDE DEF before, after
<1>6. m_MapParties' = [m_MapParties EXCEPT ![p].members = after]
  BY <1>2 DEF before, after
<1>7. /\ Parties' = Parties
      /\ m_MapParties'[p].members = after
      /\ \A q \in Parties : m_MapParties'[q].name = m_MapParties[q].name
      /\ \A q \in Parties : m_MapParties'[q].creator = m_MapParties[q].creator
      /\ \A q \in Parties \ {p} : m_MapParties'[q] = m_MapParties[q]
  BY <1>3, <1>5, <1>6, ChangedList
<1>8. \A q \in Parties, u \in User :
          m_MapParties[q].members[u] > 0 => m_MapParties'[q].members[u] > 0
  <2> SUFFICES ASSUME NEW q \in Parties, NEW u \in User, m_MapParties[q].members[u] > 0
               PROVE  m_MapParties'[q].members[u] > 0
    OBVIOUS
  <2>1. CASE q = p
    BY <1>5, <1>7, <2>1 DEF before
  <2>2. CASE q # p
    <3>1. m_MapParties'[q] = m_MapParties[q]
      BY <1>7, <2>2
    <3>2. m_MapParties[q].members[u] \in Nat
      BY <1>3 DEF TypeOK, Party
    <3>3. QED
      BY <3>1, <3>2
  <2>3. QED
    BY <2>1, <2>2
<1>9. IdsBelowCounter' /\ NewSessionsHoldNone' /\ PartyNamesUnique'
  BY <1>1, <1>2, <1>7
  DEF HandlePartyJoin, PartyInv, TypeOK, IdsBelowCounter, NewSessionsHoldNone, PartyNamesUnique
<1>10. CreatorIsMember'
  <2>1. \A q \in Parties : m_MapParties[q].creator \in User
    BY <1>3 DEF TypeOK, Party
  <2>2. QED
    BY <1>7, <1>8, <2>1 DEF PartyInv, CreatorIsMember
<1>11. HeldPartyListsUser'
  <2>1. m_Users' = m_Users /\ m_Id' = m_Id
    BY DEF HandlePartyJoin
  <2>2. ASSUME NEW t \in m_Users, t # s, m_PartyId'[t] # 0
        PROVE  m_PartyId'[t] \in Parties /\ m_MapParties[m_PartyId'[t]].members[m_Id[t]] > 0
    BY <1>1, <1>2, <2>2 DEF PartyInv, TypeOK, HeldPartyListsUser
  <2>3. m_PartyId'[s] = p
    BY <1>2, <1>3 DEF TypeOK
  <2>4. QED
    <3>1. \A t \in m_Users : m_PartyId'[t] # 0 =>
              /\ m_PartyId'[t] \in Parties
              /\ m_MapParties'[m_PartyId'[t]].members[m_Id[t]] > 0
      BY <1>1, <1>3, <1>5, <1>7, <1>8, <2>2, <2>3
    <3>2. QED
      BY <1>7, <2>1, <3>1 DEF HeldPartyListsUser
<1>12. SpeakerHears'
  BY PartyAssumption DEF HandlePartyJoin, NobodySpeaks, SpeakerHears, TypeOK
<1>13. QED
  BY <1>1, <1>9, <1>10, <1>11, <1>12 DEF PartyInv

LEMMA LeaveKeepsParties ==
    ASSUME PartyInv, TypeOK', NEW s \in Session, NEW name \in PartyName,
           HandlePartyLeave(s, name)
    PROVE  PartyInv'
<1>1. /\ s \in used /\ m_Id[s] \in User /\ OneSessionPerUser'
      /\ \A t \in m_Users : t \in used /\ t \in Session /\ m_Id[t] \in User
      /\ \A t \in m_Users : m_Id[t] = m_Id[s] => t = s
  BY HandlerKeepsSessions DEF HandlePartyLeave
<1>2. PICK p \in PartiesNamed(name) :
          /\ m_MapParties[p].creator # m_Id[s]
          /\ m_MapParties' = [m_MapParties EXCEPT ![p].members = RemoveMember(@, m_Id[s])]
  BY DEF HandlePartyLeave, IsPartyCreator
<1> DEFINE before == m_MapParties[p].members
           after  == RemoveMember(before, m_Id[s])
<1>3. TypeOK /\ p \in Parties
  BY DEF PartyInv, PartiesNamed
<1>4. before \in [User -> Nat]
  BY <1>3 DEF TypeOK, Party
<1>5. /\ after \in [User -> Nat]
      /\ \A u \in User : u # m_Id[s] => after[u] = before[u]
  BY <1>1, <1>4 DEF RemoveMember
<1> HIDE DEF before, after
<1>6. m_MapParties' = [m_MapParties EXCEPT ![p].members = after]
  BY <1>2 DEF before, after
<1>7. /\ Parties' = Parties
      /\ m_MapParties'[p].members = after
      /\ \A q \in Parties : m_MapParties'[q].name = m_MapParties[q].name
      /\ \A q \in Parties : m_MapParties'[q].creator = m_MapParties[q].creator
      /\ \A q \in Parties \ {p} : m_MapParties'[q] = m_MapParties[q]
  BY <1>3, <1>5, <1>6, ChangedList
<1>8. m_PartyId' = [m_PartyId EXCEPT ![s] = 0] /\ m_Users' = m_Users /\ m_Id' = m_Id
  BY DEF HandlePartyLeave
<1>9. IdsBelowCounter' /\ NewSessionsHoldNone' /\ PartyNamesUnique'
  BY <1>1, <1>7, <1>8
  DEF HandlePartyLeave, PartyInv, TypeOK, IdsBelowCounter, NewSessionsHoldNone, PartyNamesUnique
<1>10. CreatorIsMember'
  <2>1. m_MapParties[p].creator \in User /\ before[m_MapParties[p].creator] > 0
    BY <1>3 DEF TypeOK, Party, PartyInv, CreatorIsMember, before
  <2>2. QED
    BY <1>2, <1>5, <1>7, <2>1 DEF PartyInv, CreatorIsMember
<1>11. HeldPartyListsUser'
  <2>1. m_PartyId'[s] = 0
    BY <1>3, <1>8 DEF TypeOK
  <2>2. SUFFICES ASSUME NEW t \in m_Users, m_PartyId'[t] # 0
                 PROVE  /\ m_PartyId'[t] \in Parties
                        /\ m_MapParties'[m_PartyId'[t]].members[m_Id[t]] > 0
    BY <1>7, <1>8 DEF HeldPartyListsUser
  <2>3. t # s /\ m_Id[t] # m_Id[s] /\ m_Id[t] \in User
    BY <1>1, <2>1, <2>2
  <2>4. m_PartyId'[t] = m_PartyId[t]
    BY <1>1, <1>3, <1>8, <2>3 DEF TypeOK
  <2>5. m_PartyId[t] \in Parties /\ m_MapParties[m_PartyId[t]].members[m_Id[t]] > 0
    BY <2>2, <2>4 DEF PartyInv, HeldPartyListsUser
  <2>6. CASE m_PartyId[t] = p
    BY <1>5, <1>7, <2>3, <2>4, <2>5, <2>6 DEF before
  <2>7. CASE m_PartyId[t] # p
    <3>1. m_MapParties'[m_PartyId[t]] = m_MapParties[m_PartyId[t]]
      BY <1>7, <2>5, <2>7
    <3>2. m_MapParties[m_PartyId[t]].members[m_Id[t]] \in Nat
      BY <1>3, <2>3, <2>5 DEF TypeOK, Party
    <3>3. QED
      BY <1>7, <2>4, <2>5, <3>1, <3>2
  <2>8. QED
    BY <2>6, <2>7
<1>12. SpeakerHears'
  BY PartyAssumption DEF HandlePartyLeave, NobodySpeaks, SpeakerHears, TypeOK
<1>13. QED
  BY <1>1, <1>9, <1>10, <1>11, <1>12 DEF PartyInv

LEMMA DeleteKeepsParties ==
    ASSUME PartyInv, TypeOK', NEW s \in Session, NEW name \in PartyName,
           HandlePartyDelete(s, name)
    PROVE  PartyInv'
<1>1. OneSessionPerUser' /\ \A t \in m_Users : t \in used /\ t \in Session
  BY HandlerKeepsSessions DEF HandlePartyDelete
<1>2. PICK p \in PartiesNamed(name) :
          /\ m_MapParties' = [q \in Parties \ {p} |-> m_MapParties[q]]
          /\ m_PartyId' = [t \in Session |->
                               IF t \in ResetByDelete(p, s) THEN 0 ELSE m_PartyId[t]]
  BY DEF HandlePartyDelete
<1>3. /\ Parties' = Parties \ {p}
      /\ \A q \in Parties' : m_MapParties'[q] = m_MapParties[q]
  BY <1>2 DEF Parties
<1>4. \A t \in m_Users : m_PartyId'[t] # 0 => m_PartyId'[t] = m_PartyId[t] /\ m_PartyId[t] # p
  BY <1>1, <1>2 DEF ResetByDelete
<1>5. IdsBelowCounter' /\ PartyNamesUnique' /\ CreatorIsMember'
  <2>1. IdsBelowCounter'
    BY <1>3 DEF HandlePartyDelete, PartyInv, IdsBelowCounter
  <2>2. PartyNamesUnique'
    BY <1>3 DEF PartyInv, PartyNamesUnique
  <2>3. CreatorIsMember'
    <3>1. \A q \in Parties' : q \in Parties
      BY <1>3
    <3>2. QED
      BY <1>3, <3>1 DEF PartyInv, CreatorIsMember
  <2>4. QED
    BY <2>1, <2>2, <2>3
<1>6. NewSessionsHoldNone'
  BY <1>2 DEF HandlePartyDelete, PartyInv, NewSessionsHoldNone
<1>7. HeldPartyListsUser'
  <2>1. m_Users' = m_Users /\ m_Id' = m_Id
    BY DEF HandlePartyDelete
  <2>2. QED
    BY <1>3, <1>4, <2>1 DEF PartyInv, HeldPartyListsUser
<1>8. SpeakerHears'
  BY PartyAssumption DEF HandlePartyDelete, NobodySpeaks, SpeakerHears, TypeOK
<1>9. QED
  BY <1>1, <1>5, <1>6, <1>7, <1>8 DEF PartyInv

LEMMA MessageKeepsParties ==
    ASSUME PartyInv, TypeOK', NEW s \in Session, HandlePartyMessage(s)
    PROVE  PartyInv'
<1>1. UNCHANGED <<m_Users, used, m_Id, m_PartyId, m_MapParties, m_PartyIdCounter>>
  BY DEF HandlePartyMessage
<1>2. OneSessionPerUser'
  BY <1>1, HandlerKeepsSessions DEF HandlePartyMessage
<1>3. SpeakerHears'
  <2>1. SUFFICES ASSUME s \in m_Users PROVE heard'[s] > 0
    BY <1>1 DEF HandlePartyMessage, SpeakerHears
  <2>2. m_PartyId[s] # 0
    BY DEF HandlePartyMessage, PartyInv, TypeOK
  <2>3. m_MapParties[m_PartyId[s]].members[m_Id[s]] > 0
    BY <2>1, <2>2 DEF PartyInv, HeldPartyListsUser
  <2>4. heard'[s] = m_MapParties[m_PartyId[s]].members[m_Id[s]]
    BY <2>1 DEF HandlePartyMessage
  <2>5. QED
    BY <2>3, <2>4
<1>4. Parties' = Parties
  BY <1>1 DEF Parties
<1>5. IdsBelowCounter' /\ PartyNamesUnique' /\ CreatorIsMember' /\ NewSessionsHoldNone'
  BY <1>1, <1>4
  DEF PartyInv, IdsBelowCounter, PartyNamesUnique, CreatorIsMember, NewSessionsHoldNone
<1>6. HeldPartyListsUser'
  BY <1>1, <1>4 DEF PartyInv, HeldPartyListsUser
<1>7. QED
  BY <1>2, <1>3, <1>5, <1>6 DEF PartyInv

LEMMA NextParties ==
    ASSUME PartyInv, TypeOK', [Next]_vars
    PROVE  PartyInv'
<1>1. ASSUME NEW s \in Session, NEW u \in User, Login(s, u) PROVE PartyInv'
  BY <1>1, LoginKeepsParties
<1>2. ASSUME NEW dropped \in SUBSET m_Users, RemoveDisconnected(dropped) PROVE PartyInv'
  <2>1. m_Users' \subseteq m_Users /\ Reachable' \subseteq Reachable
    BY <1>2 DEF RemoveDisconnected, Reachable
  <2>2. QED
    BY <1>2, <2>1, DepartureKeepsParties DEF RemoveDisconnected
<1>3. ASSUME NEW s \in Session, NEW dropped \in SUBSET m_Users, SendAllUsers(s, dropped)
      PROVE  PartyInv'
  <2>1. m_Users' \subseteq m_Users /\ Reachable' \subseteq Reachable
    BY <1>3 DEF SendAllUsers, Reachable
  <2>2. QED
    BY <1>3, <2>1, DepartureKeepsParties DEF SendAllUsers
<1>4. ASSUME NEW s \in Session, NEW name \in PartyName, HandlePartyCreate(s, name)
      PROVE  PartyInv'
  BY <1>4, CreateKeepsParties
<1>5. ASSUME NEW s \in Session, NEW name \in PartyName, HandlePartyJoin(s, name)
      PROVE  PartyInv'
  BY <1>5, JoinKeepsParties
<1>6. ASSUME NEW s \in Session, NEW name \in PartyName, HandlePartyDelete(s, name)
      PROVE  PartyInv'
  BY <1>6, DeleteKeepsParties
<1>7. ASSUME NEW s \in Session, NEW name \in PartyName, HandlePartyLeave(s, name)
      PROVE  PartyInv'
  BY <1>7, LeaveKeepsParties
<1>8. ASSUME NEW s \in Session, HandlePartyMessage(s) PROVE PartyInv'
  BY <1>8, MessageKeepsParties
<1>9. CASE UNCHANGED vars
  <2>1. Parties' = Parties /\ Reachable' = Reachable
    BY <1>9 DEF vars, Parties, Reachable
  <2>2. /\ OneSessionPerUser' /\ IdsBelowCounter' /\ NewSessionsHoldNone'
        /\ PartyNamesUnique' /\ CreatorIsMember' /\ HeldPartyListsUser' /\ SpeakerHears'
    BY <1>9, <2>1
    DEF vars, PartyInv, OneSessionPerUser, IdsBelowCounter, NewSessionsHoldNone,
        PartyNamesUnique, CreatorIsMember, HeldPartyListsUser, SpeakerHears
  <2>3. QED
    BY <2>2 DEF PartyInv
<1>10. QED
  BY <1>1, <1>2, <1>3, <1>4, <1>5, <1>6, <1>7, <1>8, <1>9 DEF Next

(***************************************************************************)
(* The two records of membership and the map of parties stay consistent,   *)
(* whatever sessions come, go and ask for.                                 *)
(***************************************************************************)
THEOREM PartiesConsistent == Spec => []PartyInv
<1>1. PartyInv /\ TypeOK' /\ [Next]_vars => PartyInv'
  BY NextParties
<1>2. QED
  BY <1>1, InitParties, TypeCorrect, PTL DEF Spec

(* A name stands for one party: FindPartyByName is unambiguous. *)
THEOREM NamesUnique == Spec => []PartyNamesUnique
<1>1. PartyInv => PartyNamesUnique
  BY DEF PartyInv
<1>2. QED
  BY <1>1, PartiesConsistent, PTL

(* LeaveParty and all the rest leave the creator in the list. *)
THEOREM CreatorStaysMember == Spec => []CreatorIsMember
<1>1. PartyInv => CreatorIsMember
  BY DEF PartyInv
<1>2. QED
  BY <1>1, PartiesConsistent, PTL

(* A logged-in session holds no stale party id. *)
THEOREM HeldPartiesListUsers == Spec => []HeldPartyListsUser
<1>1. PartyInv => HeldPartyListsUser
  BY DEF PartyInv
<1>2. QED
  BY <1>1, PartiesConsistent, PTL

(* SendPartyMessage reaches the session that speaks. *)
THEOREM SpeakersHear == Spec => []SpeakerHears
<1>1. PartyInv => SpeakerHears
  BY DEF PartyInv
<1>2. QED
  BY <1>1, PartiesConsistent, PTL

-----------------------------------------------------------------------------
(* What one step may do to a party that exists. *)

DeletedByCreator(p) ==
    \/ p \in Parties' /\ m_MapParties'[p].name = m_MapParties[p].name
                      /\ m_MapParties'[p].creator = m_MapParties[p].creator
    \/ \E s \in Reachable : m_Id[s] = m_MapParties[p].creator /\ p \notin Parties'

RemovedItself(p, u) ==
    m_MapParties[p].members[u] > 0 /\ m_MapParties'[p].members[u] = 0 =>
        \E s \in Reachable : m_Id[s] = u /\ m_PartyId[s] # 0 /\ m_PartyId'[s] = 0

LEMMA PartyEndings ==
    ASSUME PartyInv, [Next]_vars, NEW p \in Parties
    PROVE  DeletedByCreator(p) /\ (p \in Parties' => \A u \in User : RemovedItself(p, u))
<1>1. ASSUME p \in Parties', m_MapParties'[p] = m_MapParties[p]
      PROVE  DeletedByCreator(p) /\ \A u \in User : RemovedItself(p, u)
  <2>1. \A u \in User : RemovedItself(p, u)
    BY <1>1 DEF RemovedItself
  <2>2. QED
    BY <1>1, <2>1 DEF DeletedByCreator
<1>2. CASE m_MapParties' = m_MapParties
  <2>1. p \in Parties'
    BY <1>2 DEF Parties
  <2>2. QED
    BY <1>1, <1>2, <2>1
<1>3. ASSUME NEW s \in Session, NEW name \in PartyName, HandlePartyCreate(s, name)
      PROVE  p \in Parties' /\ m_MapParties'[p] = m_MapParties[p]
  <2>1. p # m_PartyIdCounter
    BY DEF PartyInv, IdsBelowCounter, TypeOK
  <2>2. QED
    BY <1>3, <2>1 DEF HandlePartyCreate, Parties
<1>4. ASSUME NEW s \in Session, NEW name \in PartyName, HandlePartyJoin(s, name)
      PROVE  DeletedByCreator(p) /\ \A u \in User : RemovedItself(p, u)
  <2>1. PICK q \in PartiesNamed(name) :
            m_MapParties' = [m_MapParties EXCEPT ![q].members = AddMember(@, m_Id[s])]
    BY <1>4 DEF HandlePartyJoin
  <2> DEFINE before == m_MapParties[q].members
             after  == AddMember(before, m_Id[s])
  <2>2. TypeOK /\ q \in Parties /\ m_Id[s] \in User
    BY <1>4, HandlerKeepsSessions DEF HandlePartyJoin, PartyInv, PartiesNamed
  <2>3. before \in [User -> Nat]
    BY <2>2 DEF TypeOK, Party
  <2>4. after \in [User -> Nat] /\ \A u \in User : before[u] > 0 => after[u] # 0
    BY <2>2, <2>3 DEF AddMember
  <2> HIDE DEF before, after
  <2>5. m_MapParties' = [m_MapParties EXCEPT ![q].members = after]
    BY <2>1 DEF before, after
  <2>6. /\ Parties' = Parties
        /\ m_MapParties'[q].members = after
        /\ \A r \in Parties : m_MapParties'[r].name = m_MapParties[r].name
        /\ \A r \in Parties : m_MapParties'[r].creator = m_MapParties[r].creator
        /\ \A r \in Parties \ {q} : m_MapParties'[r] = m_MapParties[r]
    BY <2>2, <2>4, <2>5, ChangedList
  <2>7. DeletedByCreator(p)
    BY <2>6 DEF DeletedByCreator
  <2>8. CASE p = q
    <3>1. \A u \in User : RemovedItself(p, u)
      BY <2>4, <2>6, <2>8 DEF RemovedItself, before
    <3>2. QED
      BY <2>7, <3>1
  <2>9. CASE p # q
    BY <1>1, <2>6, <2>9
  <2>10. QED
    BY <2>8, <2>9
<1>5. ASSUME NEW s \in Session, NEW name \in PartyName, HandlePartyDelete(s, name)
      PROVE  \/ p \in Parties' /\ m_MapParties'[p] = m_MapParties[p]
             \/ p \notin Parties' /\ DeletedByCreator(p)
  <2>1. PICK q \in PartiesNamed(name) :
            /\ m_MapParties[q].creator = m_Id[s]
            /\ m_MapParties' = [r \in Parties \ {q} |-> m_MapParties[r]]
    BY <1>5 DEF HandlePartyDelete, IsPartyCreator
  <2>2. s \in Reachable /\ Parties' = Parties \ {q}
    BY <1>5, <2>1 DEF HandlePartyDelete, Handled, Parties
  <2>3. QED
    BY <2>1, <2>2 DEF DeletedByCreator
<1>6. ASSUME NEW s \in Session, NEW name \in PartyName, HandlePartyLeave(s, name)
      PROVE  DeletedByCreator(p) /\ \A u \in User : RemovedItself(p, u)
  <2>1. PICK q \in PartiesNamed(name) :
            m_MapParties' = [m_MapParties EXCEPT ![q].members = RemoveMember(@, m_Id[s])]
    BY <1>6 DEF HandlePartyLeave
  <2> DEFINE before == m_MapParties[q].members
             after  == RemoveMember(before, m_Id[s])
  <2>2. TypeOK /\ q \in Parties /\ m_Id[s] \in User
    BY <1>6, HandlerKeepsSessions DEF HandlePartyLeave, PartyInv, PartiesNamed
  <2>3. before \in [User -> Nat]
    BY <2>2 DEF TypeOK, Party
  <2>4. /\ after \in [User -> Nat]
        /\ \A u \in User : before[u] > 0 /\ after[u] = 0 => u = m_Id[s]
    BY <2>2, <2>3 DEF RemoveMember
  <2> HIDE DEF before, after
  <2>5. m_MapParties' = [m_MapParties EXCEPT ![q].members = after]
    BY <2>1 DEF before, after
  <2>6. /\ Parties' = Parties
        /\ m_MapParties'[q].members = after
        /\ \A r \in Parties : m_MapParties'[r].name = m_MapParties[r].name
        /\ \A r \in Parties : m_MapParties'[r].creator = m_MapParties[r].creator
        /\ \A r \in Parties \ {q} : m_MapParties'[r] = m_MapParties[r]
    BY <2>2, <2>4, <2>5, ChangedList
  <2>7. DeletedByCreator(p)
    BY <2>6 DEF DeletedByCreator
  <2>8. s \in Reachable /\ m_PartyId[s] # 0 /\ m_PartyId'[s] = 0
    BY <1>6, <2>2 DEF HandlePartyLeave, Handled, TypeOK
  <2>9. CASE p = q
    <3>1. \A u \in User : RemovedItself(p, u)
      BY <2>4, <2>6, <2>8, <2>9 DEF RemovedItself, before
    <3>2. QED
      BY <2>7, <3>1
  <2>10. CASE p # q
    BY <1>1, <2>6, <2>10
  <2>11. QED
    BY <2>9, <2>10
<1>7. ASSUME NEW s \in Session, NEW u \in User, Login(s, u)
      PROVE  m_MapParties' = m_MapParties
  BY <1>7 DEF Login
<1>8. ASSUME NEW dropped \in SUBSET m_Users,
             RemoveDisconnected(dropped) \/ \E s \in Session : SendAllUsers(s, dropped)
      PROVE  m_MapParties' = m_MapParties
  BY <1>8 DEF RemoveDisconnected, SendAllUsers
<1>9. ASSUME NEW s \in Session, HandlePartyMessage(s) PROVE m_MapParties' = m_MapParties
  BY <1>9 DEF HandlePartyMessage
<1>10. CASE UNCHANGED vars
  BY <1>2, <1>10 DEF vars
<1>11. QED
  BY <1>1, <1>2, <1>3, <1>4, <1>5, <1>6, <1>7, <1>8, <1>9, <1>10 DEF Next

(***************************************************************************)
(* DeleteParty checks the creator, CreateParty never reuses an id.         *)
(***************************************************************************)
THEOREM CreatorsDelete == Spec => OnlyCreatorDeletes
<1>1. PartyInv /\ [Next]_vars => \A p \in Parties : DeletedByCreator(p)
  BY PartyEndings
<1>2. QED
  BY <1>1, PartiesConsistent, PTL DEF Spec, OnlyCreatorDeletes, DeletedByCreator

(***************************************************************************)
(* Membership outlives connections and ends with the member's own leave.   *)
(***************************************************************************)
THEOREM MembersRemoveThemselves == Spec => RemovedByOwnLeave
<1>1. PartyInv /\ [Next]_vars =>
          \A p \in Parties \cap Parties', u \in User : RemovedItself(p, u)
  BY PartyEndings
<1>2. QED
  BY <1>1, PartiesConsistent, PTL DEF Spec, RemovedByOwnLeave, RemovedItself

-----------------------------------------------------------------------------
(* The sessions of PartyServer implement OnlineUsers. *)

Online == [s \in m_Users |-> m_Id[s]]

Retired == used \ m_Users

(* The instance has a copy of its own of Cardinality. *)
LEMMA SameCardinality == ASSUME NEW S PROVE Abstract!Cardinality(S) = Cardinality(S)
BY DEF Abstract!Cardinality, Cardinality, Abstract!IsFiniteSet, IsFiniteSet

LEMMA ErasingDrops ==
    ASSUME PartyInv, m_Users' \subseteq m_Users, UNCHANGED <<used, m_Id>>
    PROVE  [Abstract!Next]_(Abstract!vars)
<1>1. PICK dropped : dropped = m_Users \ m_Users'
  OBVIOUS
<1>2. CASE dropped = {}
  <2>1. m_Users' = m_Users
    BY <1>1, <1>2
  <2>2. QED
    BY <2>1 DEF Abstract!vars
<1>3. CASE dropped # {}
  <2>1. DOMAIN Online = m_Users /\ \A s \in m_Users : Online[s] = m_Id[s]
    BY DEF Online
  <2>2. Online' = [s \in (DOMAIN Online) \ dropped |-> Online[s]]
    BY <1>1, <2>1 DEF Online
  <2>3. Retired' = Retired \cup dropped
    BY <1>1 DEF Retired, PartyInv, TypeOK
  <2>4. Abstract!Drop(dropped)
    BY <1>1, <1>3, <2>1, <2>2, <2>3 DEF Abstract!Drop, Abstract!Sessions, Online, Retired
  <2>5. dropped \in SUBSET Abstract!Sessions
    BY <1>1, <2>1 DEF Abstract!Sessions, Online
  <2>6. QED
    BY <2>4, <2>5 DEF Abstract!Next
<1>4. QED
  BY <1>2, <1>3

LEMMA LoginAdmits ==
    ASSUME PartyInv, NEW s \in Session, NEW u \in User, Login(s, u)
    PROVE  Abstract!Next
<1>1. PICK old \in FoundDuplicates(u) : m_Users' = (m_Users \ old) \cup {s}
  BY DEF Login
<1>2. old = SessionsOf(u)
  BY DEF FoundDuplicates, SessionsOf, PartyInv, OneSessionPerUser, Reachable
<1>3. /\ s \notin used /\ s \notin m_Users /\ m_Users \subseteq used
      /\ used' = used \cup {s} /\ m_Id' = [m_Id EXCEPT ![s] = u]
  BY DEF Login, PartyInv, TypeOK
<1>4. DOMAIN Online = m_Users /\ \A t \in m_Users : Online[t] = m_Id[t]
  BY DEF Online
<1>5. Abstract!ReplacedBy(u) = SessionsOf(u)
  BY <1>4 DEF Abstract!ReplacedBy, Abstract!Sessions, SessionsOf, Online
<1>6. Online' = [t \in ((DOMAIN Online) \ SessionsOf(u)) \cup {s} |->
                     IF t = s THEN u ELSE Online[t]]
  <2>1. \A t \in m_Users' : m_Id'[t] = IF t = s THEN u ELSE m_Id[t]
    BY <1>1, <1>3 DEF PartyInv, TypeOK
  <2>2. QED
    BY <1>1, <1>2, <1>4, <2>1 DEF Online
<1>7. Retired' = Retired \cup SessionsOf(u)
  BY <1>1, <1>2, <1>3 DEF Retired, SessionsOf
<1>8. Abstract!Fresh(s) /\ Abstract!Room
  <2>1. Abstract!Sessions = m_Users
    BY <1>4 DEF Abstract!Sessions, Online
  <2>2. Abstract!Fresh(s)
    BY <1>3, <2>1 DEF Abstract!Fresh
  <2>3. QED
    BY <2>1, <2>2, SameCardinality DEF Abstract!Room, Login
<1>9. Abstract!Admit(s, u)
  BY <1>5, <1>6, <1>7, <1>8 DEF Abstract!Admit, Abstract!Sessions, Online, Retired
<1>10. QED
  BY <1>9 DEF Abstract!Next

(***************************************************************************)
(* Logins and departures around the parties are those of OnlineUsers.      *)
(***************************************************************************)
THEOREM PartiesImplementOnlineUsers == Spec => ImplementsOnlineUsers
<1>1. Init => Abstract!Init
  BY DEF Init, Abstract!Init
<1>2. PartyInv /\ [Next]_vars => [Abstract!Next]_(Abstract!vars)
  <2> SUFFICES ASSUME PartyInv, [Next]_vars PROVE [Abstract!Next]_(Abstract!vars)
    OBVIOUS
  <2>1. ASSUME NEW s \in Session, NEW u \in User, Login(s, u)
        PROVE  [Abstract!Next]_(Abstract!vars)
    BY <2>1, LoginAdmits
  <2>2. ASSUME NEW dropped \in SUBSET m_Users,
               RemoveDisconnected(dropped) \/ \E s \in Session : SendAllUsers(s, dropped)
        PROVE  [Abstract!Next]_(Abstract!vars)
    BY <2>2, ErasingDrops DEF RemoveDisconnected, SendAllUsers
  <2>3. ASSUME NEW s \in Session, NEW name \in PartyName,
               \/ HandlePartyCreate(s, name) \/ HandlePartyJoin(s, name)
               \/ HandlePartyDelete(s, name) \/ HandlePartyLeave(s, name)
        PROVE  [Abstract!Next]_(Abstract!vars)
    BY <2>3, ErasingDrops
       DEF HandlePartyCreate, HandlePartyJoin, HandlePartyDelete, HandlePartyLeave
  <2>4. ASSUME NEW s \in Session, HandlePartyMessage(s)
        PROVE  [Abstract!Next]_(Abstract!vars)
    BY <2>4, ErasingDrops DEF HandlePartyMessage
  <2>5. CASE UNCHANGED vars
    BY <2>5, ErasingDrops DEF vars
  <2>6. QED
    BY <2>1, <2>2, <2>3, <2>4, <2>5 DEF Next
<1>3. QED
  BY PartiesConsistent, <1>1, <1>2, PTL DEF Spec, ImplementsOnlineUsers
=============================================================================
