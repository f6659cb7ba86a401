--------------------------- MODULE FriendRequests ---------------------------
(***************************************************************************)
(* What the friend commands promise about the tables: each of them changes *)
(* friend_requests and friendships in one step or not at all.              *)
(*                                                                         *)
(* A table is a count of rows per pair <<sender, receiver>>.               *)
(***************************************************************************)
EXTENDS Naturals

CONSTANT User   \* the ids of the user table

VARIABLES
    pending,    \* rows of friend_requests with status 'P'
    accepted,   \* rows of friend_requests with status 'A'
    friends     \* rows of friendships

vars == <<pending, accepted, friends>>

Pair == {p \in User \X User : p[1] # p[2]}

Reverse(p) == <<p[2], p[1]>>

Init ==
    /\ pending = [p \in Pair |-> 0]
    /\ accepted = [p \in Pair |-> 0]
    /\ friends = [p \in Pair |-> 0]

Requested(p) == pending[p] > 0 \/ accepted[p] > 0

Request(p) ==
    /\ ~Requested(p)
    /\ ~Requested(Reverse(p))
    /\ pending' = [pending EXCEPT ![p] = @ + 1]
    /\ UNCHANGED <<accepted, friends>>

Accept(p) ==
    /\ pending[p] > 0
    /\ pending' = [pending EXCEPT ![p] = 0]
    /\ accepted' = [accepted EXCEPT ![p] = @ + pending[p]]
    /\ friends' = [friends EXCEPT ![p] = @ + 1]

(***************************************************************************)
(* Whatever the status of the request.                                     *)
(***************************************************************************)
Reject(p) ==
    /\ Requested(p)
    /\ pending' = [pending EXCEPT ![p] = 0]
    /\ accepted' = [accepted EXCEPT ![p] = 0]
    /\ UNCHANGED friends

Next == \E p \in Pair : Request(p) \/ Accept(p) \/ Reject(p)

Spec == Init /\ [][Next]_vars
=============================================================================
