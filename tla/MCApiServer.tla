----------------------------- MODULE MCApiServer -----------------------------
(* ApiServer for TLC: the server finds no account, one, or two of the same  *)
(* user id.  The commands of the chat are tried on every short line.        *)
EXTENDS ApiServer, ChatCommands, TLC

CONSTANTS ann, secret, guess, r1, r2, r3

Account == [user |-> ann, password |-> secret, alive |-> TRUE]

Tables == {<<>>, <<Account>>, <<Account, Account>>}

\* What is typed: up to four words.
Word == {"/w", "/who", "/p", "/fr", "/fa", "/fj", "-create", "-leave", "-", "well-known",
         "name", ""}

SomeLines == UNION {[1..n -> Word] : n \in 1..4}

Symmetry == Permutations(Request)
=============================================================================
