--------------------------- MODULE MCPartyServer ---------------------------
(* PartyServer for TLC; sessions, users and names are interchangeable. *)
EXTENDS PartyServer, TLC

Symmetry ==
    Permutations(Session) \cup Permutations(User) \cup Permutations(PartyName)
=============================================================================
