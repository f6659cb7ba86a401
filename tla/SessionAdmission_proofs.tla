---------------------- MODULE SessionAdmission_proofs ----------------------
(***************************************************************************)
(* Proofs about SessionAdmission for every set of sessions, users and      *)
(* keys and every capacity: type correctness, the invariants of the two    *)
(* user lists, the permanence of the stall, and that the module implements *)
(* OnlineUsers.                                                            *)
(***************************************************************************)
EXTENDS SessionAdmission, FiniteSetTheorems, TLAPS

(***************************************************************************)
(* What moving the head of a queue to its end, taking it off and adding an *)
(* element do to the elements of the queue.                                *)
(***************************************************************************)
Elements(q) == {q[i] : i \in DOMAIN q}

NoRepeats(q) == \A i, j \in DOMAIN q : q[i] = q[j] => i = j

(* Requeueing keeps the elements and repeats none. *)
LEMMA RotationKeepsElements ==
    ASSUME NEW S, NEW q \in Seq(S), q # <<>>
    PROVE  /\ Append(Tail(q), Head(q)) \in Seq(S)
           /\ Append(Tail(q), Head(q)) # <<>>
           /\ Elements(Append(Tail(q), Head(q))) = Elements(q)
           /\ NoRepeats(q) => NoRepeats(Append(Tail(q), Head(q)))
<1> DEFINE r == Append(Tail(q), Head(q))
<1>0. Len(q) \in Nat \ {0} /\ Len(r) = Len(q)
  OBVIOUS
<1>1. /\ r \in Seq(S) /\ r # <<>>
      /\ DOMAIN q = 1 .. Len(q) /\ DOMAIN r = 1 .. Len(q)
  <2>1. Tail(q) \in Seq(S) /\ Head(q) \in S
    OBVIOUS
  <2>2. r \in Seq(S)
    BY <2>1
  <2>3. QED
    BY <1>0, <2>2
<1>2. \A i \in 1 .. Len(q) : r[i] = IF i = Len(q) THEN q[1] ELSE q[i + 1]
  OBVIOUS
<1> HIDE DEF r
<1>3. Elements(r) = Elements(q)
  <2>1. ASSUME NEW x \in Elements(r) PROVE x \in Elements(q)
    <3>1. PICK i \in 1 .. Len(q) : x = r[i]
      BY <1>1 DEF Elements
    <3>2. PICK j \in 1 .. Len(q) : x = q[j]
      <4>1. CASE i = Len(q)
        <5>1. x = q[1] /\ 1 \in 1 .. Len(q)
          BY <1>0, <1>2, <3>1, <4>1
        <5>2. QED
          BY <5>1
      <4>2. CASE i # Len(q)
        <5>1. x = q[i + 1] /\ i + 1 \in 1 .. Len(q)
          BY <1>0, <1>2, <3>1, <4>2
        <5>2. QED
          BY <5>1
      <4>3. QED
        BY <4>1, <4>2
    <3>3. QED
      BY <1>1, <3>2 DEF Elements
  <2>2. ASSUME NEW x \in Elements(q) PROVE x \in Elements(r)
    <3>1. PICK i \in 1 .. Len(q) : x = q[i]
      BY <1>1 DEF Elements
    <3>2. PICK j \in 1 .. Len(q) : x = r[j]
      <4>1. CASE i = 1
        <5>1. x = r[Len(q)] /\ Len(q) \in 1 .. Len(q)
          BY <1>0, <1>2, <3>1, <4>1
        <5>2. QED
          BY <5>1
      <4>2. CASE i # 1
        <5>1. x = r[i - 1] /\ i - 1 \in 1 .. Len(q)
          BY <1>0, <1>2, <3>1, <4>2
        <5>2. QED
          BY <5>1
      <4>3. QED
        BY <4>1, <4>2
    <3>3. QED
      BY <1>1, <3>2 DEF Elements
  <2>3. QED
    BY <2>1, <2>2
<1>4. ASSUME NoRepeats(q) PROVE NoRepeats(r)
  <2>1. ASSUME NEW i \in 1 .. Len(q), NEW j \in 1 .. Len(q), r[i] = r[j]
        PROVE  i = j
    <3>1. \A m, n \in 1 .. Len(q) : q[m] = q[n] => m = n
      BY <1>1, <1>4 DEF NoRepeats
    <3>2. QED
      BY <1>0, <1>2, <2>1, <3>1
  <2>2. QED
    BY <1>1, <2>1 DEF NoRepeats
<1>5. QED
  BY <1>1, <1>3, <1>4 DEF r

(* Taking the head off removes exactly that element. *)
LEMMA TailDropsHead ==
    ASSUME NEW S, NEW q \in Seq(S), q # <<>>, NoRepeats(q)
    PROVE  /\ Tail(q) \in Seq(S)
           /\ Elements(Tail(q)) = Elements(q) \ {Head(q)}
           /\ NoRepeats(Tail(q))
<1> DEFINE r == Tail(q)
<1>1. /\ Len(q) \in Nat \ {0} /\ Len(r) = Len(q) - 1 /\ r \in Seq(S)
      /\ DOMAIN q = 1 .. Len(q) /\ DOMAIN r = 1 .. (Len(q) - 1)
      /\ Head(q) = q[1]
  OBVIOUS
<1>2. \A i \in 1 .. (Len(q) - 1) : r[i] = q[i + 1] /\ i + 1 \in 1 .. Len(q)
  OBVIOUS
<1> HIDE DEF r
<1>3. ASSUME NEW x \in Elements(r) PROVE x \in Elements(q) \ {Head(q)}
  <2>1. PICK i \in 1 .. (Len(q) - 1) : x = r[i]
    BY <1>1 DEF Elements
  <2>2. x = q[i + 1] /\ i + 1 \in DOMAIN q /\ 1 \in DOMAIN q /\ i + 1 # 1
    BY <1>1, <1>2, <2>1
  <2>3. QED
    BY <1>1, <2>2 DEF Elements, NoRepeats
<1>4. ASSUME NEW x \in Elements(q) \ {Head(q)} PROVE x \in Elements(r)
  <2>1. PICK i \in 1 .. Len(q) : x = q[i]
    BY <1>1 DEF Elements
  <2>2. i - 1 \in 1 .. (Len(q) - 1)
    BY <1>1, <2>1
  <2>3. r[i - 1] = x
    BY <1>1, <1>2, <2>1, <2>2
  <2>4. QED
    BY <1>1, <2>2, <2>3 DEF Elements
<1>5. NoRepeats(r)
  BY <1>1, <1>2 DEF NoRepeats
<1>6. QED
  BY <1>1, <1>3, <1>4, <1>5 DEF r

(* Pushing adds exactly that element. *)
LEMMA AppendAddsElement ==
    ASSUME NEW S, NEW q \in Seq(S), NEW x \in S
    PROVE  /\ Append(q, x) \in Seq(S)
           /\ Elements(Append(q, x)) = Elements(q) \cup {x}
           /\ NoRepeats(q) /\ x \notin Elements(q) => NoRepeats(Append(q, x))
<1> DEFINE r == Append(q, x)
<1>1. /\ Len(q) \in Nat /\ Len(r) = Len(q) + 1 /\ r \in Seq(S)
      /\ DOMAIN q = 1 .. Len(q) /\ DOMAIN r = 1 .. (Len(q) + 1)
  OBVIOUS
<1>2. /\ \A i \in 1 .. Len(q) : r[i] = q[i] /\ i \in DOMAIN r
      /\ r[Len(q) + 1] = x /\ Len(q) + 1 \in DOMAIN r
  OBVIOUS
<1> HIDE DEF r
<1>3. ASSUME NEW y \in Elements(r) PROVE y \in Elements(q) \cup {x}
  <2>1. PICK i \in 1 .. (Len(q) + 1) : y = r[i]
    BY <1>1 DEF Elements
  <2>2. CASE i = Len(q) + 1
    BY <1>2, <2>1, <2>2
  <2>3. CASE i # Len(q) + 1
    <3>1. i \in 1 .. Len(q) /\ y = q[i]
      BY <1>1, <1>2, <2>1, <2>3
    <3>2. QED
      BY <1>1, <3>1 DEF Elements
  <2>4. QED
    BY <2>2, <2>3
<1>4. ASSUME NEW y \in Elements(q) \cup {x} PROVE y \in Elements(r)
  BY <1>1, <1>2 DEF Elements
<1>5. ASSUME NoRepeats(q), x \notin Elements(q) PROVE NoRepeats(r)
  <2>1. \A i \in 1 .. Len(q) : q[i] # x
    BY <1>1, <1>5 DEF Elements
  <2>2. QED
    BY <1>1, <1>2, <1>5, <2>1 DEF NoRepeats
<1>6. QED
  BY <1>1, <1>3, <1>4, <1>5 DEF r

-----------------------------------------------------------------------------
LEMMA WaitingIsElements == Waiting = Elements(m_NewUsers)
BY DEF Waiting, Elements

(***************************************************************************)
(* The variables keep their types, whatever handler runs and however       *)
(* VerifyUser fails.                                                       *)
(***************************************************************************)
THEOREM TypeCorrect == Spec => []TypeOK
<1> USE AdmissionAssumption
<1>1. Init => TypeOK
  BY DEF Init, TypeOK
<1>2. TypeOK /\ [Next]_vars => TypeOK'
  <2> SUFFICES ASSUME TypeOK, [Next]_vars PROVE TypeOK'
    OBVIOUS
  <2> USE DEF TypeOK, lists, network, pass
  <2>1. CASE OnAccept
    BY <2>1 DEF OnAccept, QueuedNew
  <2>2. ASSUME NEW s \in Session, AcceptCompletes(s) PROVE TypeOK'
    BY <2>2 DEF AcceptCompletes
  <2>3. ASSUME NEW s \in Session, ReadFails(s) PROVE TypeOK'
    BY <2>3 DEF ReadFails
  <2>4. ASSUME NEW s \in Session, WriteFails(s) PROVE TypeOK'
    BY <2>4 DEF WriteFails
  <2>5. ASSUME NEW s \in Session, NEW m \in Message, ReadBody(s, m) PROVE TypeOK'
    BY <2>5 DEF ReadBody
  <2>6. CASE RemoveDisconnected
    BY <2>6 DEF RemoveDisconnected
  <2>7. LoopContinues => /\ Front \in Session /\ Tail(m_NewUsers) \in Seq(Session)
                         /\ Requeued \in Seq(Session)
    BY DEF LoopContinues, Front, Requeued
  <2>8. ASSUME NEW s \in Session, inbox[s] # <<>>
        PROVE  /\ Head(inbox[s]) \in Message
               /\ [inbox EXCEPT ![s] = Tail(@)] \in [Session -> Seq(Message)]
    BY <2>8
  <2>9. CASE RequeueSilent
    BY <2>7, <2>9 DEF RequeueSilent
  <2>10. CASE RequeueUnverified
    <3>1. inbox' \in [Session -> Seq(Message)] /\ m_NewUsers' \in Seq(Session)
      BY <2>7, <2>8, <2>10 DEF RequeueUnverified
    <3>2. m_Id' \in [Session -> User \cup {NoUser}]
      BY <2>7, <2>10 DEF RequeueUnverified
    <3>3. QED
      BY <2>10, <3>1, <3>2 DEF RequeueUnverified
  <2>11. CASE AdmitVerified
    <3>1. inbox' \in [Session -> Seq(Message)] /\ m_NewUsers' \in Seq(Session)
      BY <2>7, <2>8, <2>11 DEF AdmitVerified
    <3>2. PICK old : /\ m_Users' = (m_Users \ old) \cup {Front}
                     /\ active' = Closed(old)
      BY <2>11 DEF AdmitVerified
    <3>3. m_Users' \subseteq Session /\ active' \in [Session -> BOOLEAN]
      BY <2>7, <2>11, <3>2 DEF AdmitVerified, Closed
    <3>4. m_Id' \in [Session -> User \cup {NoUser}]
      BY <2>7, <2>11 DEF AdmitVerified
    <3>5. QED
      BY <2>11, <3>1, <3>3, <3>4 DEF AdmitVerified
  <2>12. CASE FinishUpdateUsers
    BY <2>12 DEF FinishUpdateUsers, UsersToVisit
  <2>13. ASSUME NEW s \in Session, Visit(s) PROVE TypeOK'
    BY <2>13 DEF Visit
  <2>14. CASE OnMessage
    <3>1. /\ inbox' \in [Session -> Seq(Message)]
          /\ UNCHANGED <<m_NewUsers, m_Id, active, received, accepted, broken, io,
                         current, stored>>
      BY <2>8, <2>14 DEF OnMessage
    <3>2. m_Users' \subseteq m_Users /\ todo' \subseteq todo /\ pc' \in {"drain", "crashed"}
      BY <2>14 DEF OnMessage, SendAllUsers
    <3>3. QED
      BY <2>14, <3>1, <3>2 DEF OnMessage
  <2>15. CASE FinishDrain
    BY <2>15 DEF FinishDrain
  <2>16. CASE FinishPass
    BY <2>16 DEF FinishPass
  <2>17. ASSUME NEW key \in SessionKey, KeyExpires(key) PROVE TypeOK'
    BY <2>17 DEF KeyExpires
  <2>18. CASE UNCHANGED vars
    BY <2>18 DEF vars
  <2>19. QED
    BY <2>1, <2>2, <2>3, <2>4, <2>5, <2>6, <2>9, <2>10, <2>11, <2>12, <2>13, <2>14,
       <2>15, <2>16, <2>17, <2>18 DEF Next, IoThread, ServerThread
<1>3. QED
  BY <1>1, <1>2, PTL DEF Spec

-----------------------------------------------------------------------------
(***************************************************************************)
(* The inductive invariant.  That the two lists share no session and       *)
(* repeat none is what makes the duplicate-login check sufficient: the     *)
(* session being admitted is not in m_Users itself, and an id set on a     *)
(* session that fails verification is not the id of a logged-in one.       *)
(***************************************************************************)
ListsInv ==
    /\ TypeOK
    /\ HeldOnce
    /\ OneSessionPerUser
    /\ IsFiniteSet(m_Users)
    /\ WithinCapacity

(* One turn of the loop that requeues the front keeps who waits. *)
LEMMA RequeueKeepsWaiting ==
    ASSUME TypeOK, HeldOnce, LoopContinues
    PROVE  /\ Elements(Requeued) = Waiting
           /\ NoRepeats(Requeued)
           /\ Requeued # <<>>
BY RotationKeepsElements, WaitingIsElements
   DEF TypeOK, HeldOnce, LoopContinues, Requeued, Front, NoRepeats

(* The session the loop looks at waits and is not logged in. *)
LEMMA FrontWaits ==
    ASSUME TypeOK, HeldOnce, LoopContinues
    PROVE  /\ Front \in Waiting /\ Front \in Session /\ Front \notin m_Users
           /\ Front \in accepted
           /\ Elements(Tail(m_NewUsers)) = Waiting \ {Front}
           /\ NoRepeats(Tail(m_NewUsers))
<1>1. m_NewUsers \in Seq(Session) /\ m_NewUsers # <<>> /\ NoRepeats(m_NewUsers)
  BY DEF TypeOK, HeldOnce, LoopContinues, NoRepeats
<1>2. Front \in Waiting /\ Front \in Session
  BY <1>1 DEF Front, Waiting
<1>3. Front \notin m_Users /\ Front \in accepted
  BY <1>2 DEF HeldOnce
<1>4. QED
  BY <1>1, <1>2, <1>3, TailDropsHead, WaitingIsElements DEF Front

(***************************************************************************)
(* What an admission does, given the invariant: exactly the sessions of    *)
(* the same user are replaced.                                             *)
(***************************************************************************)
LEMMA AdmissionReplaces ==
    ASSUME ListsInv, AdmitVerified, NEW u, u = KeyOwner[Head(inbox[Front])]
    PROVE  /\ u \in User
           /\ m_Users' = (m_Users \ SessionsOf(u)) \cup {Front}
           /\ active' = Closed(SessionsOf(u))
           /\ m_Id' = [m_Id EXCEPT ![Front] = u]
<1>1. u \in User
  BY AdmissionAssumption DEF AdmitVerified, ListsInv, TypeOK
<1>2. PICK old \in FoundDuplicates(u) :
          /\ m_Users' = (m_Users \ old) \cup {Front}
          /\ active' = Closed(old)
          /\ m_Id' = [m_Id EXCEPT ![Front] = u]
  BY DEF AdmitVerified
<1>3. old = SessionsOf(u)
  BY DEF FoundDuplicates, SessionsOf, ListsInv, OneSessionPerUser
<1>4. QED
  BY <1>1, <1>2, <1>3

LEMMA InitLists == Init => ListsInv
<1> SUFFICES ASSUME Init PROVE ListsInv
  OBVIOUS
<1>1. TypeOK
  BY AdmissionAssumption DEF Init, TypeOK
<1>2. HeldOnce /\ OneSessionPerUser
  BY AdmissionAssumption DEF Init, HeldOnce, OneSessionPerUser, Waiting
<1>3. IsFiniteSet(m_Users) /\ WithinCapacity
  BY AdmissionAssumption, FS_EmptySet DEF Init, WithinCapacity
<1>4. QED
  BY <1>1, <1>2, <1>3 DEF ListsInv

(* m_Users only shrinks, its ids and the queue stay: the rest follows. *)
LEMMA ShrinkingKeepsLists ==
    ASSUME ListsInv, TypeOK', m_Users' \subseteq m_Users,
           UNCHANGED <<m_NewUsers, m_Id, accepted, io>>
    PROVE  ListsInv'
<1>1. IsFiniteSet(m_Users') /\ Cardinality(m_Users') <= Cardinality(m_Users)
  BY FS_Subset DEF ListsInv
<1>2. Cardinality(m_Users) \in Nat /\ Cardinality(m_Users') \in Nat
  BY <1>1, FS_CardinalityType DEF ListsInv
<1>3. WithinCapacity'
  BY <1>1, <1>2, AdmissionAssumption DEF ListsInv, WithinCapacity
<1>4. HeldOnce' /\ OneSessionPerUser'
  BY DEF ListsInv, HeldOnce, OneSessionPerUser, Waiting
<1>5. QED
  BY <1>1, <1>3, <1>4 DEF ListsInv

LEMMA NextLists == ListsInv /\ TypeOK' /\ [Next]_vars => ListsInv'
<1> SUFFICES ASSUME ListsInv, TypeOK', [Next]_vars PROVE ListsInv'
  OBVIOUS
<1> USE DEF lists, network, pass
<1>1. CASE OnAccept
  <2>1. io \in Session /\ io \notin Waiting /\ io \notin m_Users
    BY <1>1 DEF OnAccept, ListsInv, TypeOK, HeldOnce
  <2>2. /\ Elements(m_NewUsers') = Waiting \cup {io}
        /\ NoRepeats(m_NewUsers')
    BY <1>1, <2>1, AppendAddsElement, WaitingIsElements
       DEF OnAccept, QueuedNew, ListsInv, TypeOK, HeldOnce, NoRepeats
  <2>3. HeldOnce'
    <3>1. Waiting' = Waiting \cup {io}
      BY <2>2 DEF Waiting, Elements
    <3>2. io' \notin accepted'
      BY <1>1, <2>1, AdmissionAssumption DEF OnAccept, ListsInv, TypeOK
    <3>3. /\ Waiting' \cap m_Users' = {}
          /\ Waiting' \cup m_Users' \subseteq accepted'
      BY <1>1, <2>1, <3>1 DEF OnAccept, ListsInv, HeldOnce
    <3>4. QED
      BY <2>2, <3>2, <3>3 DEF HeldOnce, NoRepeats
  <2>4. QED
    BY <1>1, <2>3 DEF OnAccept, ListsInv, OneSessionPerUser, WithinCapacity
<1>2. ASSUME NEW s \in Session, AcceptCompletes(s) PROVE ListsInv'
  BY <1>2 DEF AcceptCompletes, ListsInv, HeldOnce, OneSessionPerUser, WithinCapacity, Waiting
<1>3. ASSUME NEW s \in Session, ReadFails(s) PROVE ListsInv'
  BY <1>3, ShrinkingKeepsLists DEF ReadFails
<1>4. ASSUME NEW s \in Session, WriteFails(s) PROVE ListsInv'
  BY <1>4, ShrinkingKeepsLists DEF WriteFails
<1>5. ASSUME NEW s \in Session, NEW m \in Message, ReadBody(s, m) PROVE ListsInv'
  BY <1>5, ShrinkingKeepsLists DEF ReadBody
<1>6. CASE RemoveDisconnected
  BY <1>6, ShrinkingKeepsLists DEF RemoveDisconnected
<1>7. ASSUME LoopContinues, m_NewUsers' = Requeued,
             m_Id' = m_Id \/ \E u \in User : m_Id' = [m_Id EXCEPT ![Front] = u],
             UNCHANGED <<m_Users, accepted, io>>
      PROVE  ListsInv'
  <2>1. Waiting' = Waiting /\ NoRepeats(m_NewUsers')
    BY <1>7, RequeueKeepsWaiting, WaitingIsElements DEF ListsInv, Waiting, Elements
  <2>2. HeldOnce'
    BY <1>7, <2>1 DEF ListsInv, HeldOnce, NoRepeats
  <2>3. \A s \in m_Users : m_Id'[s] = m_Id[s]
    BY <1>7, FrontWaits DEF ListsInv, TypeOK
  <2>4. QED
    BY <1>7, <2>2, <2>3 DEF ListsInv, OneSessionPerUser, WithinCapacity
<1>8. CASE RequeueSilent
  BY <1>7, <1>8 DEF RequeueSilent
<1>9. CASE RequeueUnverified
  BY <1>7, <1>9, AdmissionAssumption DEF RequeueUnverified, ListsInv, TypeOK
<1>10. CASE AdmitVerified
  <2> DEFINE u == KeyOwner[Head(inbox[Front])]
             kept == m_Users \ SessionsOf(u)
  <2>1. /\ u \in User
        /\ m_Users' = kept \cup {Front}
        /\ m_Id' = [m_Id EXCEPT ![Front] = u]
    BY <1>10, AdmissionReplaces
  <2>2. /\ Front \in Session /\ Front \in Waiting /\ Front \notin m_Users /\ Front \in accepted
        /\ Elements(Tail(m_NewUsers)) = Waiting \ {Front}
        /\ NoRepeats(Tail(m_NewUsers))
    BY <1>10, FrontWaits DEF AdmitVerified, ListsInv
  <2>3. OneSessionPerUser'
    <3>1. \A s \in kept : m_Id'[s] = m_Id[s] /\ m_Id[s] # u /\ s \in m_Users
      BY <2>1, <2>2 DEF SessionsOf, ListsInv, TypeOK
    <3>2. m_Id'[Front] = u
      BY <2>1, <2>2 DEF ListsInv, TypeOK
    <3>3. QED
      BY <2>1, <3>1, <3>2 DEF ListsInv, OneSessionPerUser
  <2>4. HeldOnce'
    <3>1. Waiting' = Waiting \ {Front} /\ NoRepeats(m_NewUsers')
      BY <1>10, <2>2 DEF AdmitVerified, Waiting, Elements
    <3>2. QED
      BY <1>10, <2>1, <2>2, <3>1 DEF AdmitVerified, ListsInv, HeldOnce, NoRepeats
  <2>5. IsFiniteSet(m_Users') /\ WithinCapacity'
    <3>1. IsFiniteSet(kept) /\ Cardinality(kept) <= Cardinality(m_Users)
      BY FS_Subset DEF ListsInv
    <3>2. Cardinality(kept) \in Nat /\ Cardinality(m_Users) \in Nat
      BY <3>1, FS_CardinalityType DEF ListsInv
    <3>3. /\ IsFiniteSet(kept \cup {Front})
          /\ Cardinality(kept \cup {Front}) <= Cardinality(kept) + 1
      BY <3>1, <3>2, FS_AddElement
    <3>4. Cardinality(m_Users) < MaxUser
      BY <1>10 DEF AdmitVerified, LoopContinues, RoomForMore
    <3>5. Cardinality(kept \cup {Front}) \in Nat
      BY <3>3, FS_CardinalityType
    <3>6. QED
      BY <2>1, <3>1, <3>2, <3>3, <3>4, <3>5, AdmissionAssumption DEF WithinCapacity
  <2>6. QED
    BY <2>3, <2>4, <2>5 DEF ListsInv
<1>11. CASE FinishUpdateUsers
  BY <1>11, ShrinkingKeepsLists DEF FinishUpdateUsers
<1>12. ASSUME NEW s \in Session, Visit(s) PROVE ListsInv'
  BY <1>12, ShrinkingKeepsLists DEF Visit
<1>13. CASE OnMessage
  <2>1. m_Users' \subseteq m_Users
    BY <1>13 DEF OnMessage, SendAllUsers
  <2>2. QED
    BY <1>13, <2>1, ShrinkingKeepsLists DEF OnMessage
<1>14. CASE FinishDrain
  BY <1>14, ShrinkingKeepsLists DEF FinishDrain
<1>15. CASE FinishPass
  BY <1>15, ShrinkingKeepsLists DEF FinishPass
<1>16. ASSUME NEW key \in SessionKey, KeyExpires(key) PROVE ListsInv'
  BY <1>16, ShrinkingKeepsLists DEF KeyExpires
<1>17. CASE UNCHANGED vars
  BY <1>17, ShrinkingKeepsLists DEF vars
<1>18. QED
  BY <1>1, <1>2, <1>3, <1>4, <1>5, <1>6, <1>8, <1>9, <1>10, <1>11, <1>12, <1>13,
     <1>14, <1>15, <1>16, <1>17 DEF Next, IoThread, ServerThread

(***************************************************************************)
(* Through accepting, requeueing, admitting and erasing, both lists and    *)
(* the hands of OnAccept agree on where each session is.                   *)
(***************************************************************************)
THEOREM ListsCorrect == Spec => []ListsInv
<1>1. ListsInv => TypeOK
  BY DEF ListsInv
<1>2. QED
  BY InitLists, NextLists, TypeCorrect, <1>1, PTL DEF Spec

(***************************************************************************)
(* UpdateUsers leaves no user logged in twice, at any capacity.            *)
(***************************************************************************)
THEOREM UniqueLogins == Spec => []OneSessionPerUser
<1>1. ListsInv => OneSessionPerUser
  BY DEF ListsInv
<1>2. QED
  BY ListsCorrect, <1>1, PTL

(***************************************************************************)
(* m_MaxUser is never exceeded.                                            *)
(***************************************************************************)
THEOREM CapacityKept == Spec => []WithinCapacity
<1>1. ListsInv => WithinCapacity
  BY DEF ListsInv
<1>2. QED
  BY ListsCorrect, <1>1, PTL

(***************************************************************************)
(* A session is in one of the lists only, and once.                        *)
(***************************************************************************)
THEOREM SessionsHeldOnce == Spec => []HeldOnce
<1>1. ListsInv => HeldOnce
  BY DEF ListsInv
<1>2. QED
  BY ListsCorrect, <1>1, PTL

-----------------------------------------------------------------------------
(***************************************************************************)
(* The stall is permanent: from the moment the io thread waits in OnAccept *)
(* for the mutex of a loop that has room and no message to look at,        *)
(* nothing in the process can change either.                               *)
(***************************************************************************)
THEOREM StallIsPermanent == Spec => StallIsForever
<1>1. ListsInv /\ [Next]_vars => (Stalled => Stalled')
  <2> SUFFICES ASSUME ListsInv, [Next]_vars, Stalled PROVE Stalled'
    OBVIOUS
  <2> USE DEF lists, network, pass
  <2>1. io # NoSession /\ pc = "admit" /\ m_NewUsers # <<>> /\ RoomForMore
    BY DEF Stalled, LoopContinues
  <2>2. inbox[Front] = <<>>
    BY FrontWaits DEF Stalled, ListsInv
  <2>3. CASE RequeueSilent
    <3>1. Waiting' = Waiting /\ m_NewUsers' # <<>>
      BY <2>3, RequeueKeepsWaiting, WaitingIsElements
         DEF RequeueSilent, ListsInv, Waiting, Elements
    <3>2. QED
      BY <2>1, <2>3, <3>1 DEF RequeueSilent, Stalled, LoopContinues, RoomForMore
  <2>4. ASSUME NEW key \in SessionKey, KeyExpires(key) PROVE Stalled'
    BY <2>1, <2>4 DEF KeyExpires, Stalled, LoopContinues, RoomForMore, Waiting
  <2>5. CASE UNCHANGED vars
    BY <2>5 DEF vars, Stalled, LoopContinues, RoomForMore, Waiting
  <2>6. ~IoThread
    BY <2>1 DEF IoThread, OnAccept, NewUsersMutexFree, AcceptCompletes, ReadFails,
                WriteFails, ReadBody, IoIdle
  <2>7. ServerThread => RequeueSilent
    BY <2>1, <2>2 DEF ServerThread, RemoveDisconnected, RequeueUnverified, AdmitVerified,
                      FinishUpdateUsers, LoopContinues, Visit, OnMessage, FinishDrain,
                      FinishPass
  <2>8. QED
    BY <2>3, <2>4, <2>5, <2>6, <2>7 DEF Next
<1>2. QED
  BY ListsCorrect, <1>1, PTL DEF Spec, StallIsForever

-----------------------------------------------------------------------------
(***************************************************************************)
(* A session leaves m_Users only after it was closed.                      *)
(***************************************************************************)
THEOREM NobodyDroppedOpen == Spec => DroppedOnlyIfClosed
<1>1. ListsInv /\ [Next]_vars => \A s \in m_Users \ m_Users' : ~active'[s]
  <2> SUFFICES ASSUME ListsInv, [Next]_vars, NEW s \in m_Users \ m_Users'
               PROVE  ~active'[s]
    OBVIOUS
  <2> USE DEF lists, network, pass
  <2>1. s \in Session
    BY DEF ListsInv, TypeOK
  <2>2. CASE RemoveDisconnected
    BY <2>1, <2>2 DEF RemoveDisconnected
  <2>3. CASE AdmitVerified
    BY <2>1, <2>3, AdmissionReplaces DEF Closed
  <2>4. CASE OnMessage
    BY <2>1, <2>4 DEF OnMessage, SendAllUsers
  <2>5. CASE IoThread
    BY <2>5 DEF IoThread, OnAccept, AcceptCompletes, ReadFails, WriteFails, ReadBody
  <2>6. QED
    BY <2>2, <2>3, <2>4, <2>5
       DEF Next, ServerThread, RequeueSilent, RequeueUnverified, FinishUpdateUsers,
           Visit, FinishDrain, FinishPass, KeyExpires, vars
<1>2. QED
  BY ListsCorrect, <1>1, PTL DEF Spec, DroppedOnlyIfClosed

-----------------------------------------------------------------------------
(***************************************************************************)
(* SessionAdmission implements OnlineUsers.  The refinement mapping, as    *)
(* state functions, and the two kinds of steps that change them.           *)
(***************************************************************************)
Online == [s \in m_Users |-> m_Id[s]]

Retired == accepted \ (Waiting \cup m_Users)

LEMMA SameListsStutter ==
    ASSUME \A s \in m_Users : m_Id'[s] = m_Id[s], m_Users' = m_Users,
           Retired' = Retired
    PROVE  UNCHANGED Abstract!vars
<1>1. Online' = Online
  BY DEF Online
<1>2. QED
  BY <1>1 DEF Abstract!vars, Online, Retired

(* The instance has a copy of its own of Cardinality. *)
LEMMA SameCardinality == ASSUME NEW S PROVE Abstract!Cardinality(S) = Cardinality(S)
BY DEF Abstract!Cardinality, Cardinality, Abstract!IsFiniteSet, IsFiniteSet

LEMMA ShrinkingDrops ==
    ASSUME ListsInv, m_Users' \subseteq m_Users,
           UNCHANGED <<m_NewUsers, m_Id, accepted>>
    PROVE  [Abstract!Next]_(Abstract!vars)
<1>1. PICK dropped : dropped = m_Users \ m_Users'
  OBVIOUS
<1>2. CASE dropped = {}
  BY <1>1, <1>2, SameListsStutter DEF Retired, Waiting
<1>3. CASE dropped # {}
  <2>1. DOMAIN Online = m_Users /\ \A s \in m_Users : Online[s] = m_Id[s]
    BY DEF Online
  <2>2. Online' = [s \in (DOMAIN Online) \ dropped |-> Online[s]]
    BY <1>1, <2>1 DEF Online
  <2>3. Retired' = Retired \cup dropped
    BY <1>1 DEF Retired, ListsInv, HeldOnce, Waiting
  <2>4. Abstract!Drop(dropped)
    BY <1>1, <1>3, <2>1, <2>2, <2>3 DEF Abstract!Drop, Abstract!Sessions, Online, Retired
  <2>5. dropped \in SUBSET Abstract!Sessions
    BY <1>1, <2>1 DEF Abstract!Sessions, Online
  <2>6. QED
    BY <2>4, <2>5 DEF Abstract!Next
<1>4. QED
  BY <1>2, <1>3

LEMMA AdmissionAdmits ==
    ASSUME ListsInv, AdmitVerified
    PROVE  Abstract!Next
<1>1. PICK u : u = KeyOwner[Head(inbox[Front])]
  OBVIOUS
<1>2. PICK s : s = Front
  OBVIOUS
<1>3. /\ u \in User
      /\ m_Users' = (m_Users \ SessionsOf(u)) \cup {s}
      /\ m_Id' = [m_Id EXCEPT ![s] = u]
  BY <1>1, <1>2, AdmissionReplaces
<1>4. /\ s \in Waiting /\ s \in Session /\ s \notin m_Users /\ s \in accepted
      /\ Elements(Tail(m_NewUsers)) = Waiting \ {s}
  BY <1>2, FrontWaits DEF AdmitVerified, ListsInv
<1>5. DOMAIN Online = m_Users /\ \A t \in m_Users : Online[t] = m_Id[t]
  BY DEF Online
<1>6. Abstract!ReplacedBy(u) = SessionsOf(u)
  BY <1>5 DEF Abstract!ReplacedBy, Abstract!Sessions, SessionsOf, Online
<1>7. Online' = [t \in ((DOMAIN Online) \ SessionsOf(u)) \cup {s} |->
                     IF t = s THEN u ELSE Online[t]]
  <2>1. \A t \in m_Users' : m_Id'[t] = IF t = s THEN u ELSE m_Id[t]
    BY <1>3, <1>4 DEF ListsInv, TypeOK
  <2>2. QED
    BY <1>3, <1>5, <2>1 DEF Online
<1>8. Retired' = Retired \cup SessionsOf(u)
  <2>1. Waiting' = Waiting \ {s} /\ accepted' = accepted
    BY <1>4 DEF AdmitVerified, network, Waiting, Elements
  <2>2. SessionsOf(u) \subseteq m_Users
    BY DEF SessionsOf
  <2>3. QED
    BY <1>3, <1>4, <2>1, <2>2 DEF Retired, ListsInv, HeldOnce
<1>9. Abstract!Fresh(s) /\ Abstract!Room
  <2>1. Abstract!Sessions = m_Users
    BY <1>5 DEF Abstract!Sessions, Online
  <2>2. Abstract!Fresh(s)
    BY <1>4, <2>1 DEF Abstract!Fresh
  <2>3. Cardinality(m_Users) < MaxUser
    BY DEF AdmitVerified, LoopContinues, RoomForMore
  <2>4. QED
    BY <2>1, <2>2, <2>3, SameCardinality DEF Abstract!Room
<1>10. Abstract!Admit(s, u)
  BY <1>6, <1>7, <1>8, <1>9 DEF Abstract!Admit, Abstract!Sessions, Online, Retired
<1>11. QED
  BY <1>3, <1>4, <1>10 DEF Abstract!Next

(***************************************************************************)
(* The two threads, the queue, the spinning loop and the failing           *)
(* verifications add up to logins, replacements and departures.            *)
(***************************************************************************)
THEOREM AdmissionImplementsOnlineUsers == Spec => ImplementsOnlineUsers
<1>1. Init => Abstract!Init
  BY DEF Init, Abstract!Init, Waiting
<1>2. ListsInv /\ [Next]_vars => [Abstract!Next]_(Abstract!vars)
  <2> SUFFICES ASSUME ListsInv, [Next]_vars PROVE [Abstract!Next]_(Abstract!vars)
    OBVIOUS
  <2> USE DEF lists, network, pass
  <2>1. CASE OnAccept
    <3>1. io \in Session /\ io \notin accepted
      BY <2>1 DEF OnAccept, ListsInv, TypeOK, HeldOnce
    <3>2. Waiting' = Waiting \cup {io}
      <4>1. Elements(m_NewUsers') = Waiting \cup {io}
        BY <2>1, <3>1, AppendAddsElement, WaitingIsElements
           DEF OnAccept, QueuedNew, ListsInv, TypeOK
      <4>2. QED
        BY <4>1 DEF Waiting, Elements
    <3>3. Retired' = Retired
      BY <2>1, <3>1, <3>2 DEF OnAccept, Retired
    <3>4. QED
      BY <2>1, <3>3, SameListsStutter DEF OnAccept
  <2>2. ASSUME NEW s \in Session,
               AcceptCompletes(s) \/ ReadFails(s) \/ WriteFails(s)
                 \/ \E m \in Message : ReadBody(s, m)
        PROVE  [Abstract!Next]_(Abstract!vars)
    BY <2>2, ShrinkingDrops DEF AcceptCompletes, ReadFails, WriteFails, ReadBody
  <2>3. CASE RemoveDisconnected
    BY <2>3, ShrinkingDrops DEF RemoveDisconnected
  <2>4. CASE RequeueSilent \/ RequeueUnverified
    <3>1. Waiting' = Waiting /\ accepted' = accepted /\ m_Users' = m_Users
      <4>1. TypeOK /\ HeldOnce /\ LoopContinues /\ m_NewUsers' = Requeued
        BY <2>4 DEF RequeueSilent, RequeueUnverified, ListsInv
      <4>2. Elements(m_NewUsers') = Waiting
        BY <4>1, RequeueKeepsWaiting
      <4>3. Waiting' = Elements(m_NewUsers')
        BY DEF Waiting, Elements
      <4>4. accepted' = accepted /\ m_Users' = m_Users
        BY <2>4 DEF RequeueSilent, RequeueUnverified
      <4>5. QED
        BY <4>2, <4>3, <4>4
    <3>2. \A s \in m_Users : m_Id'[s] = m_Id[s]
      BY <2>4, FrontWaits DEF RequeueSilent, RequeueUnverified, ListsInv, TypeOK
    <3>3. QED
      BY <3>1, <3>2, SameListsStutter DEF Retired
  <2>5. CASE AdmitVerified
    BY <2>5, AdmissionAdmits
  <2>6. CASE FinishUpdateUsers
    BY <2>6, ShrinkingDrops DEF FinishUpdateUsers
  <2>7. CASE OnMessage
    <3>1. m_Users' \subseteq m_Users
      BY <2>7 DEF OnMessage, SendAllUsers
    <3>2. QED
      BY <2>7, <3>1, ShrinkingDrops DEF OnMessage
  <2>8. ASSUME NEW s \in Session, Visit(s) PROVE [Abstract!Next]_(Abstract!vars)
    BY <2>8, ShrinkingDrops DEF Visit
  <2>9. CASE FinishDrain \/ FinishPass
    BY <2>9, ShrinkingDrops DEF FinishDrain, FinishPass
  <2>10. ASSUME NEW key \in SessionKey, KeyExpires(key)
         PROVE  [Abstract!Next]_(Abstract!vars)
    BY <2>10, ShrinkingDrops DEF KeyExpires
  <2>11. CASE UNCHANGED vars
    BY <2>11, ShrinkingDrops DEF vars
  <2>12. QED
    BY <2>1, <2>2, <2>3, <2>4, <2>5, <2>6, <2>7, <2>8, <2>9, <2>10, <2>11
       DEF Next, IoThread, ServerThread
<1>3. QED
  BY ListsCorrect, <1>1, <1>2, PTL DEF Spec, ImplementsOnlineUsers
=============================================================================
