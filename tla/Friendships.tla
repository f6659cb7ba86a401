---------------------------- MODULE Friendships ----------------------------
(***************************************************************************)
(* Friend requests (the friend handlers of TcpServer.cpp) on the single    *)
(* connection of MySQLManager.                                             *)
(*                                                                         *)
(* A handler runs on the server thread and waits for one job of the thread *)
(* pool after the other, so no two jobs run together; between two calls of *)
(* MySQL the connection may break and the process may die.  The calls can  *)
(* also fail one by one (Failing).  The schema is not in the repository:   *)
(* tables are counts of rows per pair <<sender, receiver>>.                *)
(*                                                                         *)
(* ValidateRequest and CheckUserExistence read only; when they refuse the  *)
(* handler answers with an error and nothing has happened.                 *)
(***************************************************************************)
EXTENDS Naturals

CONSTANTS
    User,       \* the ids of the user table
    Failing,    \* the calls that can fail on a connection that works
    MaxRows     \* bound: rows of one pair and kind

Calls == {"query", "statement", "begin", "commit", "rollback", "restore"}

ASSUME FriendsAssumption ==
    /\ Failing \subseteq Calls
    /\ MaxRows \in Nat

VARIABLES
    saved,       \* the tables as committed
    view,        \* the tables as the connection sees them
    autocommit,  \* the mode of the connection
    connected,   \* the connection works
    pc,          \* the next call of the handler that runs, "idle" for none
    kind,        \* which handler ran last, or runs
    pair,        \* its <<sender, receiver>>
    reply        \* what it told the user, "none" before it does

vars == <<saved, view, autocommit, connected, pc, kind, pair, reply>>

session == <<autocommit, connected>>
op      == <<kind, pair>>

Pair == {p \in User \X User : p[1] # p[2]}

Reverse(p) == <<p[2], p[1]>>

Tables == [pending : [Pair -> Nat], accepted : [Pair -> Nat], friends : [Pair -> Nat]]

NoRows == [p \in Pair |-> 0]

Empty == [pending |-> NoRows, accepted |-> NoRows, friends |-> NoRows]

TypeOK ==
    /\ saved \in Tables
    /\ view \in Tables
    /\ autocommit \in BOOLEAN
    /\ connected \in BOOLEAN
    /\ pc \in {"idle", "status", "insert", "begin", "update", "delete", "befriend",
               "commit", "rollback"}
    /\ kind \in {"request", "accept", "reject"}
    /\ pair \in Pair
    /\ reply \in {"none", "success", "error"}

Init ==
    /\ saved = Empty
    /\ view = Empty
    /\ autocommit = TRUE
    /\ connected = TRUE
    /\ pc = "idle"
    /\ kind = "request"
    /\ pair \in Pair
    /\ reply = "none"

-----------------------------------------------------------------------------
(* The statements, on tables t and pair p. *)

InsertRequest(t, p) == [t EXCEPT !.pending[p] = @ + 1]

SetAccepted(t, p) ==
    [t EXCEPT !.accepted[p] = @ + t.pending[p], !.pending[p] = 0]

DeleteRows(t, p) == [t EXCEPT !.pending[p] = 0, !.accepted[p] = 0]

InsertFriends(t, p) == [t EXCEPT !.friends[p] = @ + 1]

(* Mutant: the query looks for status 'P' only. *)
OnlyPending(p) == view.pending[p] > 0

HasFriendRequest(p) == view.pending[p] > 0 \/ view.accepted[p] > 0

(***************************************************************************)
(* The rows an UPDATE to 'A' affects: those that change.                   *)
(* Mutant: those that match.                                               *)
(***************************************************************************)
Matches(p) == HasFriendRequest(p)

Updates(p) == view.pending[p] > 0

-----------------------------------------------------------------------------
(* Calls succeed, fail, and handlers end. *)

Works(call) == connected

Fails(call) == ~connected \/ call \in Failing

Replies(answer) == pc' = "idle" /\ reply' = answer

Continues(next) == pc' = next /\ UNCHANGED reply

(***************************************************************************)
(* A statement takes effect at once, or with the transaction it is in.     *)
(***************************************************************************)
Executes(tables) ==
    /\ Works("statement")
    /\ view' = tables
    /\ saved' = IF autocommit THEN tables ELSE saved

(* Mutants: begin leaves the mode alone, commit and rollback do nothing. *)
ModeKept == autocommit

ModeBegun == FALSE

NothingCommitted == saved

Committed == view

NothingUndone == view

Undone == saved

(***************************************************************************)
(* The result of switching autocommit on again is not looked at.           *)
(***************************************************************************)
RestoresAutocommit ==
    autocommit' \in {TRUE} \cup (IF "restore" \in Failing THEN {FALSE} ELSE {})

-----------------------------------------------------------------------------
(* HandleFriendRequest. *)

Starts(k, p, next) ==
    /\ pc = "idle"
    /\ connected
    /\ kind' = k
    /\ pair' = p
    /\ pc' = next
    /\ reply' = "none"
    /\ UNCHANGED <<saved, view, session>>

HandleFriendRequest(p) ==
    /\ view.pending[p] < MaxRows
    /\ Starts("request", p, "status")

(***************************************************************************)
(* HasFriendRequest answers "no" to a query that fails.                    *)
(***************************************************************************)
Answers(p) == {HasFriendRequest(p)} \cup (IF Fails("query") THEN {FALSE} ELSE {})

CheckFriendRequestStatus ==
    /\ pc = "status"
    /\ \E sent \in Answers(pair), received \in Answers(Reverse(pair)) :
         IF sent \/ received THEN Replies("error") ELSE Continues("insert")
    /\ UNCHANGED <<saved, view, session, op>>

(***************************************************************************)
(* MySQLManager::AddFriendRequest ends without a return statement, so what *)
(* its caller tests is anything.                                           *)
(***************************************************************************)
AddFriendRequest ==
    /\ pc = "insert"
    /\ Executes(InsertRequest(view, pair))
    /\ \E answer \in {"success", "error"} : Replies(answer)
    /\ UNCHANGED <<session, op>>

AddFriendRequestFails ==
    /\ pc = "insert"
    /\ Fails("statement")
    /\ Replies("error")
    /\ UNCHANGED <<saved, view, session, op>>

-----------------------------------------------------------------------------
(* HandleFriendAccept and HandleFriendReject. *)

HandleFriendAccept(p) ==
    /\ view.friends[p] < MaxRows
    /\ Starts("accept", p, "begin")

HandleFriendReject(p) == Starts("reject", p, "begin")

BeginTransaction ==
    /\ pc = "begin"
    /\ Works("begin")
    /\ autocommit' = ModeBegun
    /\ Continues(IF kind = "accept" THEN "update" ELSE "delete")
    /\ UNCHANGED <<saved, view, connected, op>>

UpdateFriend ==
    /\ pc = "update"
    /\ Updates(pair)
    /\ Executes(SetAccepted(view, pair))
    /\ Continues("befriend")
    /\ UNCHANGED <<session, op>>

AddFriendship ==
    /\ pc = "befriend"
    /\ Executes(InsertFriends(view, pair))
    /\ Continues("commit")
    /\ UNCHANGED <<session, op>>

DeleteFriendRequest ==
    /\ pc = "delete"
    /\ HasFriendRequest(pair)
    /\ Executes(DeleteRows(view, pair))
    /\ Continues("commit")
    /\ UNCHANGED <<session, op>>

(***************************************************************************)
(* Begin throws, a statement throws (no row affected is an error too), or  *)
(* commit throws: the catch block rolls back.                              *)
(***************************************************************************)
TransactionThrows ==
    /\ \/ pc = "begin" /\ Fails("begin")
       \/ pc \in {"update", "befriend", "delete"} /\ Fails("statement")
       \/ pc = "update" /\ ~Updates(pair)
       \/ pc = "delete" /\ ~HasFriendRequest(pair)
       \/ pc = "commit" /\ Fails("commit")
    /\ Continues("rollback")
    /\ UNCHANGED <<saved, view, session, op>>

CommitTransaction ==
    /\ pc = "commit"
    /\ Works("commit")
    /\ saved' = Committed
    /\ RestoresAutocommit
    /\ Replies("success")
    /\ UNCHANGED <<view, connected, op>>

RollbackTransaction ==
    /\ pc = "rollback"
    /\ Works("rollback")
    /\ view' = Undone
    /\ RestoresAutocommit
    /\ Replies("error")
    /\ UNCHANGED <<saved, connected, op>>

(***************************************************************************)
(* RollbackTransaction throws before it restores autocommit.               *)
(***************************************************************************)
RollbackFails ==
    /\ pc = "rollback"
    /\ Fails("rollback")
    /\ Replies("error")
    /\ UNCHANGED <<saved, view, session, op>>

-----------------------------------------------------------------------------
(* The server of MySQL and the process. *)

(***************************************************************************)
(* The connection breaks, before a call or after the call took effect.     *)
(* MySQL undoes what was not committed and nothing reconnects.             *)
(***************************************************************************)
LoseConnection ==
    /\ connected
    /\ connected' = FALSE
    /\ \/ saved' = saved
       \/ pc = "insert" /\ autocommit /\ saved' = InsertRequest(view, pair)
       \/ pc = "commit" /\ saved' = Committed
    /\ view' = saved'
    /\ UNCHANGED <<autocommit, pc, op, reply>>

(***************************************************************************)
(* The process dies and is started again with a new connection.            *)
(***************************************************************************)
Restart ==
    /\ view' = saved
    /\ autocommit' = TRUE
    /\ connected' = TRUE
    /\ pc' = "idle"
    /\ reply' = "none"
    /\ UNCHANGED <<saved, op>>

Next ==
    \/ \E p \in Pair :
        \/ HandleFriendRequest(p)
        \/ HandleFriendAccept(p)
        \/ HandleFriendReject(p)
    \/ CheckFriendRequestStatus
    \/ AddFriendRequest
    \/ AddFriendRequestFails
    \/ BeginTransaction
    \/ UpdateFriend
    \/ AddFriendship
    \/ DeleteFriendRequest
    \/ TransactionThrows
    \/ CommitTransaction
    \/ RollbackTransaction
    \/ RollbackFails
    \/ LoseConnection
    \/ Restart

Spec == Init /\ [][Next]_vars

-----------------------------------------------------------------------------
(***************************************************************************)
(* An accepted request and its friendship are committed together: whatever *)
(* fails between the two statements of ProcessFriendAccept, there are no   *)
(* accepted requests without friendship.                                   *)
(***************************************************************************)
AcceptedAreFriends == \A p \in Pair : saved.accepted[p] <= saved.friends[p]

(***************************************************************************)
(* Comment of CheckFriendRequestStatus: when there is a request between    *)
(* the two users already, in either direction, it throws.                  *)
(***************************************************************************)
OneRequestBetween ==
    \A p \in Pair :
        saved.pending[p] + saved.accepted[p]
            + saved.pending[Reverse(p)] + saved.accepted[Reverse(p)] <= 1

(***************************************************************************)
(* The user is told of a success only when it is committed, so that no     *)
(* crash can take it back.                                                 *)
(***************************************************************************)
SuccessIsSaved ==
    reply = "success" =>
        CASE kind = "request" -> saved.pending[pair] > 0
          [] kind = "accept"  -> saved.accepted[pair] > 0 /\ saved.friends[pair] > 0
          [] kind = "reject"  -> saved.pending[pair] + saved.accepted[pair] = 0

(***************************************************************************)
(* Between two handlers no transaction is open: nothing waits for a commit *)
(* or rollback that belongs to somebody else's command.                    *)
(***************************************************************************)
NothingLeftOpen == pc = "idle" => view = saved

-----------------------------------------------------------------------------
(***************************************************************************)
(* The committed tables change as if each command were one step.           *)
(***************************************************************************)
Abstract == INSTANCE FriendRequests WITH
    pending  <- saved.pending,
    accepted <- saved.accepted,
    friends  <- saved.friends

ImplementsFriendRequests == Abstract!Init /\ [][Abstract!Next]_(Abstract!vars)
=============================================================================
