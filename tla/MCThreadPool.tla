---------------------------- MODULE MCThreadPool ----------------------------
(* ThreadPool for TLC; no symmetry, since the runs check liveness.          *)
EXTENDS ThreadPool, TLC
=============================================================================
