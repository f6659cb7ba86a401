------------------------ MODULE OnlineUsers_proofs -------------------------
(***************************************************************************)
(* What OnlineUsers promises holds for any sessions, users and capacity,   *)
(* and with it for every module that implements OnlineUsers.               *)
(***************************************************************************)
EXTENDS OnlineUsers, FiniteSetTheorems, TLAPS

Inv ==
    /\ TypeOK
    /\ IsFiniteSet(Sessions)
    /\ OneSessionPerUser
    /\ WithinCapacity
    /\ OfflineForGood

LEMMA InvInit == ASSUME MaxUser \in Nat, Init PROVE Inv
<1>1. Sessions = {} /\ retired = {}
  BY DEF Init, Sessions
<1>2. TypeOK
  BY DEF Init, TypeOK, Sessions
<1>3. IsFiniteSet(Sessions) /\ WithinCapacity
  BY <1>1, FS_EmptySet DEF WithinCapacity
<1>4. QED
  BY <1>1, <1>2, <1>3 DEF Inv, OneSessionPerUser, OfflineForGood

LEMMA InvAdmit ==
    ASSUME MaxUser \in Nat, Inv, NEW s \in Session, NEW u \in User, Admit(s, u)
    PROVE  Inv'
<1>1. /\ TypeOK /\ IsFiniteSet(Sessions) /\ OneSessionPerUser /\ WithinCapacity
      /\ OfflineForGood
  BY DEF Inv
<1>2. /\ Sessions' = (Sessions \ ReplacedBy(u)) \cup {s}
      /\ \A t \in Sessions' : online'[t] = IF t = s THEN u ELSE online[t]
      /\ retired' = retired \cup ReplacedBy(u)
  BY DEF Admit, Sessions
<1>3. s \notin Sessions /\ s \notin retired
  BY DEF Admit, Fresh
<1>4. TypeOK'
  <2>1. Sessions' \subseteq Session /\ retired' \subseteq Session
    BY <1>1, <1>2 DEF TypeOK, ReplacedBy
  <2>2. online' \in [Sessions' -> User]
    BY <1>1, <1>2 DEF Admit, TypeOK
  <2>3. QED
    BY <2>1, <2>2 DEF TypeOK
<1>5. IsFiniteSet(Sessions') /\ WithinCapacity'
  <2>1. Sessions \ ReplacedBy(u) \in SUBSET Sessions
    OBVIOUS
  <2>2. /\ IsFiniteSet(Sessions \ ReplacedBy(u))
        /\ Cardinality(Sessions \ ReplacedBy(u)) <= Cardinality(Sessions)
    BY <1>1, <2>1, FS_Subset
  <2>3. /\ IsFiniteSet(Sessions')
        /\ Cardinality(Sessions') = Cardinality(Sessions \ ReplacedBy(u)) + 1
    BY <1>2, <1>3, <2>2, FS_AddElement
  <2>4. Cardinality(Sessions) \in Nat /\ Cardinality(Sessions \ ReplacedBy(u)) \in Nat
    BY <1>1, <2>2, FS_CardinalityType
  <2>5. Cardinality(Sessions) < MaxUser
    BY DEF Admit, Room
  <2>6. QED
    BY <2>2, <2>3, <2>4, <2>5 DEF WithinCapacity
<1>6. OneSessionPerUser'
  BY <1>1, <1>2, <1>3 DEF OneSessionPerUser, ReplacedBy
<1>7. OfflineForGood'
  BY <1>1, <1>2, <1>3 DEF OfflineForGood, ReplacedBy
<1>8. QED
  BY <1>4, <1>5, <1>6, <1>7 DEF Inv

LEMMA InvDrop ==
    ASSUME MaxUser \in Nat, Inv, NEW dropped \in SUBSET Sessions, Drop(dropped)
    PROVE  Inv'
<1>1. /\ TypeOK /\ IsFiniteSet(Sessions) /\ OneSessionPerUser /\ WithinCapacity
      /\ OfflineForGood
  BY DEF Inv
<1>2. /\ Sessions' = Sessions \ dropped
      /\ \A t \in Sessions' : online'[t] = online[t]
      /\ retired' = retired \cup dropped
  BY DEF Drop, Sessions
<1>3. TypeOK'
  <2>1. Sessions' \subseteq Session /\ retired' \subseteq Session
    BY <1>1, <1>2 DEF TypeOK
  <2>2. online' \in [Sessions' -> User]
    BY <1>1, <1>2 DEF Drop, TypeOK
  <2>3. QED
    BY <2>1, <2>2 DEF TypeOK
<1>4. IsFiniteSet(Sessions') /\ WithinCapacity'
  <2>1. Sessions' \in SUBSET Sessions
    BY <1>2
  <2>2. IsFiniteSet(Sessions') /\ Cardinality(Sessions') <= Cardinality(Sessions)
    BY <1>1, <2>1, FS_Subset
  <2>3. Cardinality(Sessions) \in Nat /\ Cardinality(Sessions') \in Nat
    BY <1>1, <2>2, FS_CardinalityType
  <2>4. QED
    BY <1>1, <2>2, <2>3 DEF WithinCapacity
<1>5. OneSessionPerUser' /\ OfflineForGood'
  BY <1>1, <1>2 DEF OneSessionPerUser, OfflineForGood
<1>6. QED
  BY <1>3, <1>4, <1>5 DEF Inv

(* What UpdateUsers (TcpServer.cpp:107) keeps about the sessions of m_Users: *)
(* one for each user, m_MaxUser at most, and none that was erased before.    *)
THEOREM PromisesKept ==
    ASSUME MaxUser \in Nat
    PROVE  Spec => [](OneSessionPerUser /\ WithinCapacity /\ OfflineForGood)
<1>1. Init => Inv
  BY InvInit
<1>2. Inv /\ [Next]_vars => Inv'
  <2>1. ASSUME Inv, UNCHANGED vars PROVE Inv'
    BY <2>1 DEF Inv, vars, TypeOK, Sessions, OneSessionPerUser, WithinCapacity, OfflineForGood
  <2>2. QED
    BY <2>1, InvAdmit, InvDrop DEF Next
<1>3. Inv => OneSessionPerUser /\ WithinCapacity /\ OfflineForGood
  BY DEF Inv
<1>4. QED
  BY <1>1, <1>2, <1>3, PTL DEF Spec
=============================================================================
