---------------------------- MODULE MCConnection ----------------------------
(* Connection for TLC: the session id needs two bytes of the header, and of *)
(* the other messages two have the same size.                              *)
EXTENDS Connection, TLC

CONSTANTS login, answer, empty, hello, news

MCSize == login :> 300 @@ answer :> 2 @@ empty :> 2 @@ hello :> 7 @@ news :> 7
=============================================================================
