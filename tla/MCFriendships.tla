--------------------------- MODULE MCFriendships ---------------------------
(* Friendships for TLC; users are interchangeable. *)
EXTENDS Friendships, TLC

Symmetry == Permutations(User)
=============================================================================
