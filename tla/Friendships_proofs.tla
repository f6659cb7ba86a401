------------------------- MODULE Friendships_proofs -------------------------
(***************************************************************************)
(* Proofs about Friendships for every set of users.  Types hold whatever   *)
(* fails; the rest needs queries that answer and transactions that end:    *)
(* statements, begin and commit may fail, the connection may break and the *)
(* process may be restarted at any point.                                  *)
(***************************************************************************)
EXTENDS Friendships, TLAPS

-----------------------------------------------------------------------------
(* Pairs and tables. *)

LEMMA PairFacts ==
    ASSUME NEW p \in Pair
    PROVE  Reverse(p) \in Pair /\ Reverse(p) # p /\ Reverse(Reverse(p)) = p
BY DEF Pair, Reverse

LEMMA InsertRequestFacts ==
    ASSUME NEW t \in Tables, NEW p \in Pair
    PROVE  /\ InsertRequest(t, p) \in Tables
           /\ InsertRequest(t, p).pending = [t.pending EXCEPT ![p] = @ + 1]
           /\ InsertRequest(t, p).accepted = t.accepted
           /\ InsertRequest(t, p).friends = t.friends
<1>1. t.pending \in [Pair -> Nat]
  BY DEF Tables
<1>2. [t.pending EXCEPT ![p] = @ + 1] \in [Pair -> Nat]
  BY <1>1
<1>3. QED
  BY <1>2 DEF Tables, InsertRequest

LEMMA SetAcceptedFacts ==
    ASSUME NEW t \in Tables, NEW p \in Pair
    PROVE  /\ SetAccepted(t, p) \in Tables
           /\ SetAccepted(t, p).pending = [t.pending EXCEPT ![p] = 0]
           /\ SetAccepted(t, p).accepted = [t.accepted EXCEPT ![p] = @ + t.pending[p]]
           /\ SetAccepted(t, p).friends = t.friends
<1>1. t.pending \in [Pair -> Nat] /\ t.accepted \in [Pair -> Nat]
  BY DEF Tables
<1>2. /\ [t.pending EXCEPT ![p] = 0] \in [Pair -> Nat]
      /\ [t.accepted EXCEPT ![p] = @ + t.pending[p]] \in [Pair -> Nat]
  BY <1>1
<1>3. QED
  BY <1>2 DEF Tables, SetAccepted

LEMMA DeleteRowsFacts ==
    ASSUME NEW t \in Tables, NEW p \in Pair
    PROVE  /\ DeleteRows(t, p) \in Tables
           /\ DeleteRows(t, p).pending = [t.pending EXCEPT ![p] = 0]
           /\ DeleteRows(t, p).accepted = [t.accepted EXCEPT ![p] = 0]
           /\ DeleteRows(t, p).friends = t.friends
<1>1. /\ [t.pending EXCEPT ![p] = 0] \in [Pair -> Nat]
      /\ [t.accepted EXCEPT ![p] = 0] \in [Pair -> Nat]
  BY DEF Tables
<1>2. QED
  BY <1>1 DEF Tables, DeleteRows

LEMMA InsertFriendsFacts ==
    ASSUME NEW t \in Tables, NEW p \in Pair
    PROVE  /\ InsertFriends(t, p) \in Tables
           /\ InsertFriends(t, p).pending = t.pending
           /\ InsertFriends(t, p).accepted = t.accepted
           /\ InsertFriends(t, p).friends = [t.friends EXCEPT ![p] = @ + 1]
<1>1. t.friends \in [Pair -> Nat]
  BY DEF Tables
<1>2. [t.friends EXCEPT ![p] = @ + 1] \in [Pair -> Nat]
  BY <1>1
<1>3. QED
  BY <1>2 DEF Tables, InsertFriends

(* No action breaks the types. *)
LEMMA TypeStep == TypeOK /\ [Next]_vars => TypeOK'
<1> SUFFICES ASSUME TypeOK, [Next]_vars PROVE TypeOK'
  OBVIOUS
<1> USE DEF session, op, Continues, Replies
<1>1. /\ saved \in Tables /\ view \in Tables /\ pair \in Pair
      /\ InsertRequest(view, pair) \in Tables
      /\ SetAccepted(view, pair) \in Tables
      /\ DeleteRows(view, pair) \in Tables
      /\ InsertFriends(view, pair) \in Tables
  BY InsertRequestFacts, SetAcceptedFacts, DeleteRowsFacts, InsertFriendsFacts DEF TypeOK
<1>2. ASSUME NEW tables \in Tables, Executes(tables)
      PROVE  saved' \in Tables /\ view' \in Tables
  BY <1>1, <1>2 DEF Executes
<1>3. RestoresAutocommit => autocommit' \in BOOLEAN
  BY DEF RestoresAutocommit
<1>4. ASSUME NEW p \in Pair,
             HandleFriendRequest(p) \/ HandleFriendAccept(p) \/ HandleFriendReject(p)
      PROVE  TypeOK'
  BY <1>4 DEF HandleFriendRequest, HandleFriendAccept, HandleFriendReject, Starts, TypeOK
<1>5. CASE CheckFriendRequestStatus
  BY <1>5 DEF CheckFriendRequestStatus, TypeOK
<1>6. CASE AddFriendRequest
  BY <1>1, <1>2, <1>6 DEF AddFriendRequest, TypeOK
<1>7. CASE AddFriendRequestFails
  BY <1>7 DEF AddFriendRequestFails, TypeOK
<1>8. CASE BeginTransaction
  BY <1>8 DEF BeginTransaction, ModeBegun, TypeOK
<1>9. CASE UpdateFriend
  BY <1>1, <1>2, <1>9 DEF UpdateFriend, TypeOK
<1>10. CASE AddFriendship
  BY <1>1, <1>2, <1>10 DEF AddFriendship, TypeOK
<1>11. CASE DeleteFriendRequest
  BY <1>1, <1>2, <1>11 DEF DeleteFriendRequest, TypeOK
<1>12. CASE TransactionThrows
  BY <1>12 DEF TransactionThrows, TypeOK
<1>13. CASE CommitTransaction
  BY <1>3, <1>13 DEF CommitTransaction, Committed, TypeOK
<1>14. CASE RollbackTransaction
  BY <1>3, <1>14 DEF RollbackTransaction, Undone, TypeOK
<1>15. CASE RollbackFails
  BY <1>15 DEF RollbackFails, TypeOK
<1>16. CASE LoseConnection
  BY <1>1, <1>16 DEF LoseConnection, Committed, TypeOK
<1>17. CASE Restart
  BY <1>17 DEF Restart, TypeOK
<1>18. CASE UNCHANGED vars
  BY <1>18 DEF vars, TypeOK
<1>19. QED
  BY <1>4, <1>5, <1>6, <1>7, <1>8, <1>9, <1>10, <1>11, <1>12, <1>13, <1>14, <1>15,
     <1>16, <1>17, <1>18 DEF Next

(***************************************************************************)
(* The variables keep their types, whichever calls fail.                   *)
(***************************************************************************)
THEOREM TypeCorrect == Spec => []TypeOK
<1>1. Init => TypeOK
  BY DEF Init, TypeOK, Empty, NoRows, Tables
<1>2. QED
  BY <1>1, TypeStep, PTL DEF Spec

-----------------------------------------------------------------------------
(***************************************************************************)
(* The inductive invariant says what the open transaction has done so far: *)
(* the difference between view and saved at each point of a handler.       *)
(***************************************************************************)
Steady == Failing \cap {"query", "rollback", "restore"} = {}

Asked(t, p) == t.pending[p] > 0 \/ t.accepted[p] > 0

(* At most one row at p and its reverse. *)
OneRow(t, p) ==
    t.pending[p] + t.accepted[p] + t.pending[Reverse(p)] + t.accepted[Reverse(p)] <= 1

HandlerKinds ==
    /\ pc \in {"status", "insert"} => kind = "request"
    /\ pc \in {"update", "befriend"} => kind = "accept"
    /\ pc = "delete" => kind = "reject"
    /\ pc \in {"begin", "commit", "rollback"} => kind \in {"accept", "reject"}

Modes ==
    connected => /\ pc \in {"idle", "status", "insert", "begin"} => autocommit
                 /\ pc \in {"update", "befriend", "delete", "commit"} => ~autocommit

OpenWork ==
    /\ ~connected \/ pc \notin {"befriend", "commit", "rollback"} => view = saved
    /\ connected /\ pc = "insert" => ~Asked(saved, pair) /\ ~Asked(saved, Reverse(pair))
    /\ connected /\ pc = "befriend" =>
           saved.pending[pair] > 0 /\ view = SetAccepted(saved, pair)
    /\ connected /\ pc = "commit" /\ kind = "accept" =>
           /\ saved.pending[pair] > 0
           /\ view = InsertFriends(SetAccepted(saved, pair), pair)
    /\ connected /\ pc = "commit" /\ kind = "reject" =>
           Asked(saved, pair) /\ view = DeleteRows(saved, pair)

RowsOK(t) == \A q \in Pair : OneRow(t, q) /\ t.accepted[q] <= t.friends[q]

FriendsInv ==
    /\ TypeOK
    /\ HandlerKinds
    /\ Modes
    /\ OpenWork
    /\ RowsOK(saved)
    /\ reply = "success" => pc = "idle"
    /\ SuccessIsSaved

(* What the three commands do to tables that have one row per pair. *)

LEMMA RequestRows ==
    ASSUME NEW t \in Tables, NEW p \in Pair, ~Asked(t, p), ~Asked(t, Reverse(p)),
           RowsOK(t),
           NEW u, u = InsertRequest(t, p)
    PROVE  /\ RowsOK(u)
           /\ u.pending[p] > 0
<1>1. /\ t.pending \in [Pair -> Nat] /\ t.accepted \in [Pair -> Nat]
      /\ t.friends \in [Pair -> Nat]
  BY DEF Tables
<1>2. /\ u.pending = [t.pending EXCEPT ![p] = @ + 1]
      /\ u.accepted = t.accepted /\ u.friends = t.friends
  BY InsertRequestFacts
<1>3. /\ t.pending[p] = 0 /\ t.accepted[p] = 0
      /\ t.pending[Reverse(p)] = 0 /\ t.accepted[Reverse(p)] = 0
  BY <1>1, PairFacts DEF Asked
<1>4. u.pending[p] = 1 /\ \A q \in Pair : q # p => u.pending[q] = t.pending[q]
  BY <1>1, <1>2, <1>3
<1>5. ASSUME NEW q \in Pair PROVE OneRow(u, q)
  <2>1. /\ t.pending[q] \in Nat /\ t.accepted[q] \in Nat
        /\ t.pending[Reverse(q)] \in Nat /\ t.accepted[Reverse(q)] \in Nat
        /\ Reverse(q) \in Pair /\ Reverse(q) # q /\ OneRow(t, q)
    BY <1>1, PairFacts DEF RowsOK
  <2>2. CASE q = p
    <3>1. /\ u.pending[q] = 1 /\ u.accepted[q] = 0
          /\ u.pending[Reverse(q)] = 0 /\ u.accepted[Reverse(q)] = 0
      BY <1>2, <1>3, <1>4, <2>1, <2>2
    <3>2. QED
      BY <3>1 DEF OneRow
  <2>3. CASE q = Reverse(p)
    <3>1. Reverse(q) = p
      BY <2>3, PairFacts
    <3>2. /\ u.pending[q] = 0 /\ u.accepted[q] = 0
          /\ u.pending[Reverse(q)] = 1 /\ u.accepted[Reverse(q)] = 0
      BY <1>2, <1>3, <1>4, <2>1, <2>3, <3>1
    <3>3. QED
      BY <3>2 DEF OneRow
  <2>4. CASE q # p /\ q # Reverse(p)
    <3>1. Reverse(q) # p
      BY <2>4, PairFacts
    <3>2. /\ u.pending[q] = t.pending[q] /\ u.accepted[q] = t.accepted[q]
          /\ u.pending[Reverse(q)] = t.pending[Reverse(q)]
          /\ u.accepted[Reverse(q)] = t.accepted[Reverse(q)]
      BY <1>2, <1>4, <2>1, <2>4, <3>1
    <3>3. QED
      BY <2>1, <3>2 DEF OneRow
  <2>5. QED
    BY <2>2, <2>3, <2>4
<1>6. QED
  BY <1>2, <1>4, <1>5 DEF RowsOK

LEMMA AcceptRows ==
    ASSUME NEW t \in Tables, NEW p \in Pair, t.pending[p] > 0,
           RowsOK(t),
           NEW u, u = InsertFriends(SetAccepted(t, p), p)
    PROVE  /\ u \in Tables
           /\ u.pending = [t.pending EXCEPT ![p] = 0]
           /\ u.accepted = [t.accepted EXCEPT ![p] = @ + t.pending[p]]
           /\ u.friends = [t.friends EXCEPT ![p] = @ + 1]
           /\ RowsOK(u)
           /\ u.accepted[p] > 0 /\ u.friends[p] > 0
<1>1. /\ t.pending \in [Pair -> Nat] /\ t.accepted \in [Pair -> Nat]
      /\ t.friends \in [Pair -> Nat]
  BY DEF Tables
<1>2. /\ u \in Tables
      /\ u.pending = [t.pending EXCEPT ![p] = 0]
      /\ u.accepted = [t.accepted EXCEPT ![p] = @ + t.pending[p]]
      /\ u.friends = [t.friends EXCEPT ![p] = @ + 1]
  <2> DEFINE a == SetAccepted(t, p)
  <2>1. /\ a \in Tables /\ a.pending = [t.pending EXCEPT ![p] = 0]
        /\ a.accepted = [t.accepted EXCEPT ![p] = @ + t.pending[p]]
        /\ a.friends = t.friends
    BY SetAcceptedFacts
  <2>2. u = InsertFriends(a, p)
    OBVIOUS
  <2> HIDE DEF a
  <2>3. /\ u \in Tables /\ u.pending = a.pending /\ u.accepted = a.accepted
        /\ u.friends = [a.friends EXCEPT ![p] = @ + 1]
    BY <2>1, <2>2, InsertFriendsFacts
  <2>4. QED
    BY <2>1, <2>3
<1>3. /\ Reverse(p) \in Pair /\ Reverse(p) # p /\ OneRow(t, p)
      /\ t.pending[p] \in Nat /\ t.accepted[p] \in Nat
      /\ t.pending[Reverse(p)] \in Nat /\ t.accepted[Reverse(p)] \in Nat
  BY <1>1, PairFacts DEF RowsOK
<1>4. t.pending[p] = 1 /\ t.accepted[p] = 0
  <2>1. t.pending[p] + t.accepted[p] + t.pending[Reverse(p)] + t.accepted[Reverse(p)] <= 1
    BY <1>3 DEF OneRow
  <2>2. \A i, j, k, l \in Nat : i > 0 /\ i + j + k + l <= 1 => i = 1 /\ j = 0
    OBVIOUS
  <2>3. QED
    BY <1>3, <2>1, <2>2
<1>5. /\ u.pending[p] = 0 /\ u.accepted[p] = 1 /\ u.friends[p] = t.friends[p] + 1
      /\ \A q \in Pair : q # p => /\ u.pending[q] = t.pending[q]
                                /\ u.accepted[q] = t.accepted[q]
                                /\ u.friends[q] = t.friends[q]
  BY <1>1, <1>2, <1>4
<1>6. \A q \in Pair : u.pending[q] + u.accepted[q] = t.pending[q] + t.accepted[q]
  BY <1>1, <1>4, <1>5
<1>7. ASSUME NEW q \in Pair PROVE OneRow(u, q)
  <2>1. /\ u.pending[q] \in Nat /\ u.accepted[q] \in Nat /\ t.pending[q] \in Nat
        /\ u.pending[Reverse(q)] \in Nat /\ u.accepted[Reverse(q)] \in Nat
        /\ t.accepted[q] \in Nat
        /\ t.pending[Reverse(q)] \in Nat /\ t.accepted[Reverse(q)] \in Nat
    BY <1>1, <1>2, PairFacts DEF Tables
  <2>2. u.pending[Reverse(q)] + u.accepted[Reverse(q)]
            = t.pending[Reverse(q)] + t.accepted[Reverse(q)]
    BY <1>6, PairFacts
  <2>3. OneRow(t, q) /\ u.pending[q] + u.accepted[q] = t.pending[q] + t.accepted[q]
    BY <1>6 DEF RowsOK
  <2>4. QED
    BY <2>1, <2>2, <2>3 DEF OneRow
<1>8. \A q \in Pair : u.accepted[q] <= u.friends[q]
  BY <1>1, <1>4, <1>5 DEF RowsOK
<1>9. QED
  BY <1>1, <1>2, <1>5, <1>7, <1>8 DEF RowsOK

LEMMA RejectRows ==
    ASSUME NEW t \in Tables, NEW p \in Pair,
           RowsOK(t),
           NEW u, u = DeleteRows(t, p)
    PROVE  /\ RowsOK(u)
           /\ u.pending[p] = 0 /\ u.accepted[p] = 0
<1>1. /\ t.pending \in [Pair -> Nat] /\ t.accepted \in [Pair -> Nat]
      /\ t.friends \in [Pair -> Nat]
  BY DEF Tables
<1>2. /\ u.pending = [t.pending EXCEPT ![p] = 0]
      /\ u.accepted = [t.accepted EXCEPT ![p] = 0]
      /\ u.friends = t.friends
  BY DeleteRowsFacts
<1>3. /\ u.pending[p] = 0 /\ u.accepted[p] = 0
      /\ \A q \in Pair : /\ u.pending[q] \in Nat /\ u.accepted[q] \in Nat
                        /\ t.pending[q] \in Nat /\ t.accepted[q] \in Nat
                        /\ u.pending[q] <= t.pending[q]
                        /\ u.accepted[q] <= t.accepted[q]
  BY <1>1, <1>2
<1>4. ASSUME NEW q \in Pair PROVE OneRow(u, q)
  <2>1. Reverse(q) \in Pair /\ OneRow(t, q)
    BY PairFacts DEF RowsOK
  <2>2. QED
    BY <1>3, <2>1 DEF OneRow
<1>5. \A q \in Pair : u.accepted[q] <= u.friends[q]
  BY <1>1, <1>2, <1>3 DEF RowsOK
<1>6. QED
  BY <1>3, <1>4, <1>5 DEF RowsOK

-----------------------------------------------------------------------------
(* The invariant holds at first and is kept by every step. *)

LEMMA FriendsInit == Init => FriendsInv
<1> SUFFICES ASSUME Init PROVE FriendsInv
  OBVIOUS
<1>1. TypeOK
  BY DEF Init, TypeOK, Empty, NoRows, Tables
<1>2. RowsOK(saved)
  <2> SUFFICES ASSUME NEW q \in Pair
               PROVE  OneRow(saved, q) /\ saved.accepted[q] <= saved.friends[q]
    BY DEF RowsOK
  <2>1. /\ saved.pending[q] = 0 /\ saved.accepted[q] = 0 /\ saved.friends[q] = 0
        /\ saved.pending[Reverse(q)] = 0 /\ saved.accepted[Reverse(q)] = 0
    BY PairFacts DEF Init, Empty, NoRows
  <2>2. QED
    BY <2>1 DEF OneRow
<1>3. QED
  BY <1>1, <1>2 DEF Init, FriendsInv, HandlerKinds, Modes, OpenWork, SuccessIsSaved

(* Steps that change neither table. *)

LEMMA ReadingStep ==
    ASSUME FriendsInv, Steady, TypeOK',
           \/ \E p \in Pair :
                HandleFriendRequest(p) \/ HandleFriendAccept(p) \/ HandleFriendReject(p)
           \/ CheckFriendRequestStatus
           \/ AddFriendRequestFails
           \/ BeginTransaction
           \/ TransactionThrows
           \/ RollbackFails
           \/ UNCHANGED vars
    PROVE  FriendsInv' /\ saved' = saved
<1> USE DEF FriendsInv, session, op, Continues, Replies
<1>1. TypeOK /\ ~("query" \in Failing) /\ ~("rollback" \in Failing)
  BY DEF Steady
<1>2. ASSUME NEW p \in Pair,
             HandleFriendRequest(p) \/ HandleFriendAccept(p) \/ HandleFriendReject(p)
      PROVE  FriendsInv' /\ saved' = saved
  BY <1>2 DEF HandleFriendRequest, HandleFriendAccept, HandleFriendReject, Starts,
              HandlerKinds, Modes, OpenWork, SuccessIsSaved
<1>3. CASE CheckFriendRequestStatus
  <2>1. connected /\ pc' = "insert" => ~Asked(saved, pair) /\ ~Asked(saved, Reverse(pair))
    BY <1>1, <1>3 DEF CheckFriendRequestStatus, Answers, Fails, HasFriendRequest,
                      OpenWork, Asked
  <2>2. QED
    BY <1>3, <2>1 DEF CheckFriendRequestStatus, HandlerKinds, Modes, OpenWork,
                      SuccessIsSaved, Asked
<1>4. CASE AddFriendRequestFails
  BY <1>4 DEF AddFriendRequestFails, HandlerKinds, Modes, OpenWork, SuccessIsSaved
<1>5. CASE BeginTransaction
  BY <1>5 DEF BeginTransaction, ModeBegun, HandlerKinds, Modes, OpenWork, SuccessIsSaved
<1>6. CASE TransactionThrows
  BY <1>6 DEF TransactionThrows, HandlerKinds, Modes, OpenWork, SuccessIsSaved
<1>7. CASE RollbackFails
  BY <1>1, <1>7 DEF RollbackFails, Fails, HandlerKinds, Modes, OpenWork, SuccessIsSaved
<1>8. CASE UNCHANGED vars
  BY <1>8 DEF vars, HandlerKinds, Modes, OpenWork, SuccessIsSaved, Asked
<1>9. QED
  BY <1>2, <1>3, <1>4, <1>5, <1>6, <1>7, <1>8

(* Inside a transaction a statement changes the view only. *)

LEMMA StatementStep ==
    ASSUME FriendsInv, TypeOK', UpdateFriend \/ AddFriendship \/ DeleteFriendRequest
    PROVE  FriendsInv' /\ saved' = saved
<1> USE DEF FriendsInv, session, op, Continues, Executes, Works
<1>1. TypeOK
  OBVIOUS
<1>2. CASE UpdateFriend
  <2>1. ~autocommit /\ kind = "accept" /\ view = saved /\ saved.pending[pair] > 0
    BY <1>2 DEF UpdateFriend, Updates, Modes, HandlerKinds, OpenWork
  <2>2. saved' = saved /\ view' = SetAccepted(saved, pair)
    BY <1>2, <2>1 DEF UpdateFriend
  <2>3. QED
    BY <1>2, <2>1, <2>2 DEF UpdateFriend, HandlerKinds, Modes, OpenWork, SuccessIsSaved
<1>3. CASE AddFriendship
  <2>1. /\ ~autocommit /\ kind = "accept"
        /\ saved.pending[pair] > 0 /\ view = SetAccepted(saved, pair)
    BY <1>3 DEF AddFriendship, Modes, HandlerKinds, OpenWork
  <2>2. saved' = saved /\ view' = InsertFriends(SetAccepted(saved, pair), pair)
    BY <1>3, <2>1 DEF AddFriendship
  <2>3. QED
    BY <1>3, <2>1, <2>2 DEF AddFriendship, HandlerKinds, Modes, OpenWork, SuccessIsSaved
<1>4. CASE DeleteFriendRequest
  <2>1. ~autocommit /\ kind = "reject" /\ view = saved /\ Asked(saved, pair)
    BY <1>4 DEF DeleteFriendRequest, HasFriendRequest, Asked, Modes, HandlerKinds, OpenWork
  <2>2. saved' = saved /\ view' = DeleteRows(saved, pair)
    BY <1>4, <2>1 DEF DeleteFriendRequest
  <2>3. QED
    BY <1>4, <2>1, <2>2 DEF DeleteFriendRequest, HandlerKinds, Modes, OpenWork,
                           SuccessIsSaved, Asked
<1>5. QED
  BY <1>2, <1>3, <1>4

(* A rollback or a restart takes back what was not committed. *)

LEMMA UndoingStep ==
    ASSUME FriendsInv, Steady, TypeOK', RollbackTransaction \/ Restart
    PROVE  FriendsInv' /\ saved' = saved
<1>1. RestoresAutocommit => autocommit'
  BY DEF RestoresAutocommit, Steady
<1>2. CASE RollbackTransaction
  BY <1>1, <1>2 DEF RollbackTransaction, Undone, Replies, op, FriendsInv, HandlerKinds,
                    Modes, OpenWork, SuccessIsSaved
<1>3. CASE Restart
  BY <1>3 DEF Restart, op, FriendsInv, HandlerKinds, Modes, OpenWork, SuccessIsSaved
<1>4. QED
  BY <1>2, <1>3

(***************************************************************************)
(* What the two steps that save something do to the tables: an insertion   *)
(* in autocommit mode, and a commit.                                       *)
(***************************************************************************)
Saves ==
    \/ /\ pc = "insert"
       /\ ~Asked(saved, pair) /\ ~Asked(saved, Reverse(pair))
       /\ saved' = InsertRequest(saved, pair)
    \/ /\ pc = "commit" /\ kind = "accept" /\ saved.pending[pair] > 0
       /\ saved' = InsertFriends(SetAccepted(saved, pair), pair)
    \/ /\ pc = "commit" /\ kind = "reject" /\ Asked(saved, pair)
       /\ saved' = DeleteRows(saved, pair)

LEMMA SavedRows ==
    ASSUME FriendsInv, Saves
    PROVE  /\ RowsOK(saved')
           /\ pc = "insert" => saved'.pending[pair] > 0
           /\ pc = "commit" /\ kind = "accept" =>
                  saved'.accepted[pair] > 0 /\ saved'.friends[pair] > 0
           /\ pc = "commit" /\ kind = "reject" =>
                  saved'.pending[pair] + saved'.accepted[pair] = 0
<1>1. saved \in Tables /\ pair \in Pair /\ RowsOK(saved)
  BY DEF FriendsInv, TypeOK
<1>2. CASE pc = "insert"
  BY <1>1, <1>2, RequestRows DEF Saves
<1>3. CASE pc = "commit" /\ kind = "accept"
  BY <1>1, <1>3, AcceptRows DEF Saves
<1>4. CASE pc = "commit" /\ kind = "reject"
  BY <1>1, <1>4, RejectRows DEF Saves
<1>5. QED
  BY <1>2, <1>3, <1>4 DEF Saves

LEMMA SavingStep ==
    ASSUME FriendsInv, Steady, TypeOK', AddFriendRequest \/ CommitTransaction
    PROVE  FriendsInv' /\ Saves
<1>1. RestoresAutocommit => autocommit'
  BY DEF RestoresAutocommit, Steady
<1>2. CASE AddFriendRequest
  <2>1. /\ pc = "insert" /\ connected /\ autocommit /\ view = saved /\ kind = "request"
        /\ ~Asked(saved, pair) /\ ~Asked(saved, Reverse(pair))
    BY <1>2 DEF AddFriendRequest, Executes, Works, FriendsInv, HandlerKinds, Modes, OpenWork
  <2>2. /\ saved' = InsertRequest(saved, pair) /\ view' = saved' /\ pc' = "idle"
        /\ autocommit' = autocommit /\ connected' = connected
        /\ kind' = kind /\ pair' = pair
    BY <1>2, <2>1 DEF AddFriendRequest, Executes, Replies, session, op
  <2>3. Saves
    BY <2>1, <2>2 DEF Saves
  <2>4. RowsOK(saved') /\ saved'.pending[pair] > 0
    BY <2>1, <2>3, SavedRows
  <2>5. SuccessIsSaved'
    BY <2>1, <2>2, <2>4 DEF SuccessIsSaved
  <2>6. QED
    BY <2>1, <2>2, <2>3, <2>4, <2>5 DEF FriendsInv, HandlerKinds, Modes, OpenWork
<1>3. CASE CommitTransaction
  <2>1. pc = "commit" /\ connected /\ saved' = view /\ kind \in {"accept", "reject"}
    BY <1>3 DEF CommitTransaction, Works, Committed, FriendsInv, HandlerKinds
  <2>2. /\ view' = saved' /\ pc' = "idle" /\ autocommit' /\ connected' = connected
        /\ kind' = kind /\ pair' = pair
    BY <1>1, <1>3 DEF CommitTransaction, Committed, Replies, op
  <2>3. Saves
    BY <2>1 DEF Saves, FriendsInv, OpenWork
  <2>4. /\ RowsOK(saved')
        /\ kind = "accept" => saved'.accepted[pair] > 0 /\ saved'.friends[pair] > 0
        /\ kind = "reject" => saved'.pending[pair] + saved'.accepted[pair] = 0
    BY <2>1, <2>3, SavedRows
  <2>5. SuccessIsSaved'
    BY <2>1, <2>2, <2>4 DEF SuccessIsSaved
  <2>6. QED
    BY <2>2, <2>3, <2>4, <2>5 DEF FriendsInv, HandlerKinds, Modes, OpenWork
<1>4. QED
  BY <1>2, <1>3

(* The connection breaks before the call took effect, or after it did. *)

LEMMA LosingStep ==
    ASSUME FriendsInv, TypeOK', LoseConnection
    PROVE  FriendsInv' /\ (saved' = saved \/ Saves)
<1>1. /\ connected /\ ~connected' /\ view' = saved' /\ pc' = pc /\ kind' = kind
      /\ pair' = pair /\ reply' = reply
  BY DEF LoseConnection, op
<1>2. CASE saved' = saved
  BY <1>1, <1>2 DEF FriendsInv, HandlerKinds, Modes, OpenWork, SuccessIsSaved
<1>3. CASE saved' # saved
  <2>1. Saves
    BY <1>1, <1>3 DEF LoseConnection, Committed, Saves, FriendsInv, HandlerKinds, OpenWork
  <2>2. RowsOK(saved') /\ pc # "idle"
    BY <2>1, SavedRows DEF Saves
  <2>3. QED
    BY <1>1, <2>1, <2>2 DEF FriendsInv, HandlerKinds, Modes, OpenWork, SuccessIsSaved
<1>4. QED
  BY <1>2, <1>3

LEMMA FriendsStep ==
    ASSUME FriendsInv, Steady, [Next]_vars
    PROVE  FriendsInv' /\ (saved' = saved \/ Saves)
<1>1. TypeOK'
  BY TypeStep DEF FriendsInv
<1>2. \/ \E p \in Pair :
            HandleFriendRequest(p) \/ HandleFriendAccept(p) \/ HandleFriendReject(p)
      \/ CheckFriendRequestStatus \/ AddFriendRequestFails \/ BeginTransaction
      \/ TransactionThrows \/ RollbackFails \/ UNCHANGED vars
      \/ UpdateFriend \/ AddFriendship \/ DeleteFriendRequest
      \/ RollbackTransaction \/ Restart
      \/ AddFriendRequest \/ CommitTransaction
      \/ LoseConnection
  BY DEF Next
<1>3. QED
  BY <1>1, <1>2, ReadingStep, StatementStep, UndoingStep, SavingStep, LosingStep

(***************************************************************************)
(* At every call of a friend handler the open transaction holds what the   *)
(* handler has done so far and nothing else.                               *)
(***************************************************************************)
THEOREM Invariance == ASSUME Steady PROVE Spec => []FriendsInv
<1>1. FriendsInv /\ [Next]_vars => FriendsInv'
  BY FriendsStep
<1>2. QED
  BY <1>1, FriendsInit, PTL DEF Spec

(***************************************************************************)
(* What fails between the two statements of ProcessFriendAccept leaves no  *)
(* accepted request without its friendship.                                *)
(***************************************************************************)
THEOREM AcceptedHaveFriendship == ASSUME Steady PROVE Spec => []AcceptedAreFriends
<1>1. FriendsInv => AcceptedAreFriends
  BY DEF FriendsInv, RowsOK, AcceptedAreFriends
<1>2. QED
  BY <1>1, Invariance, PTL

(***************************************************************************)
(* CheckFriendRequestStatus keeps two requests between two users apart,    *)
(* whichever of them asks, when its queries are answered.                  *)
(***************************************************************************)
THEOREM RequestsAreSingle == ASSUME Steady PROVE Spec => []OneRequestBetween
<1>1. FriendsInv => OneRequestBetween
  BY DEF FriendsInv, RowsOK, OneRow, OneRequestBetween
<1>2. QED
  BY <1>1, Invariance, PTL

(***************************************************************************)
(* No crash takes back what a handler reported as done.                    *)
(***************************************************************************)
THEOREM SuccessesAreDurable == ASSUME Steady PROVE Spec => []SuccessIsSaved
<1>1. FriendsInv => SuccessIsSaved
  BY DEF FriendsInv
<1>2. QED
  BY <1>1, Invariance, PTL

(***************************************************************************)
(* A handler ends with its transaction committed or rolled back.           *)
(***************************************************************************)
THEOREM TransactionsEnd == ASSUME Steady PROVE Spec => []NothingLeftOpen
<1>1. FriendsInv => NothingLeftOpen
  BY DEF FriendsInv, OpenWork, NothingLeftOpen
<1>2. QED
  BY <1>1, Invariance, PTL

-----------------------------------------------------------------------------
(***************************************************************************)
(* Each handler changes the committed tables in one step of FriendRequests *)
(* or not at all.                                                          *)
(***************************************************************************)
LEMMA SavesAreCommands ==
    ASSUME FriendsInv, Saves
    PROVE  Abstract!Next
<1>1. saved \in Tables /\ pair \in Pair /\ RowsOK(saved)
  BY DEF FriendsInv, TypeOK
<1>2. /\ pair \in Abstract!Pair /\ Abstract!Reverse(pair) = Reverse(pair)
      /\ \A p : Abstract!Requested(p) <=> Asked(saved, p)
  BY <1>1 DEF Pair, Abstract!Pair, Reverse, Abstract!Reverse, Abstract!Requested, Asked
<1>3. CASE pc = "insert"
  <2>1. Abstract!Request(pair)
    BY <1>1, <1>2, <1>3, InsertRequestFacts DEF Saves, Abstract!Request
  <2>2. QED
    BY <1>2, <2>1 DEF Abstract!Next
<1>4. CASE pc = "commit" /\ kind = "accept"
  <2>1. Abstract!Accept(pair)
    BY <1>1, <1>4, AcceptRows DEF Saves, Abstract!Accept
  <2>2. QED
    BY <1>2, <2>1 DEF Abstract!Next
<1>5. CASE pc = "commit" /\ kind = "reject"
  <2>1. Abstract!Reject(pair)
    BY <1>1, <1>2, <1>5, DeleteRowsFacts DEF Saves, Abstract!Reject
  <2>2. QED
    BY <1>2, <2>1 DEF Abstract!Next
<1>6. QED
  BY <1>3, <1>4, <1>5 DEF Saves

(***************************************************************************)
(* Requests, acceptances and rejections are atomic, over failures, broken  *)
(* connections and restarts.                                               *)
(***************************************************************************)
THEOREM CommandsAreAtomic == ASSUME Steady PROVE Spec => ImplementsFriendRequests
<1>1. Init => Abstract!Init
  BY DEF Init, Empty, NoRows, Pair, Abstract!Init, Abstract!Pair
<1>2. FriendsInv /\ [Next]_vars => [Abstract!Next]_(Abstract!vars)
  <2> SUFFICES ASSUME FriendsInv, [Next]_vars PROVE [Abstract!Next]_(Abstract!vars)
    OBVIOUS
  <2>1. saved' = saved => UNCHANGED Abstract!vars
    BY DEF Abstract!vars
  <2>2. QED
    BY <2>1, FriendsStep, SavesAreCommands
<1>3. QED
  BY <1>1, <1>2, Invariance, PTL DEF Spec, ImplementsFriendRequests
=============================================================================
