------------------------- MODULE MCSessionAdmission -------------------------
(* SessionAdmission for TLC: key ki belongs to user ui.  Nothing tells the  *)
(* sessions apart, nor the users if each takes its key along.               *)
EXTENDS SessionAdmission, TLC

CONSTANTS u1, u2, u3, k1, k2, k3

OwnerOf == k1 :> u1 @@ k2 :> u2 @@ k3 :> u3

MCKeyOwner == [k \in SessionKey |-> OwnerOf[k]]

KeyOf(u) == CHOOSE k \in SessionKey : OwnerOf[k] = u

WithKeys(p) ==
    [x \in User \cup SessionKey |-> IF x \in User THEN p[x] ELSE KeyOf(p[OwnerOf[x]])]

Symmetry ==
    Permutations(Session) \cup {WithKeys(p) : p \in Permutations(User)}
=============================================================================
