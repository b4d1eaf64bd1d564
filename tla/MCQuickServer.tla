---------------------------- MODULE MCQuickServer ----------------------------
(***************************************************************************)
(* Values of the constants of QuickServer for TLC.                         *)
(***************************************************************************)
EXTENDS QuickServer, TLC

Symmetry == Permutations(Workers) \cup Permutations(Contexts)

\* Any call after any callback, from the callback or later.
AnyCalls == [b \in Callbacks \cup {"failed"} |-> Calls]

\* The client of qs_lib_test.cpp: receive, answer, receive again, and close
\* the connection when a call fails.
TestCalls ==
  [b \in Callbacks \cup {"failed"} |->
     CASE b = "on_connect" -> {"recv"}
       [] b = "recv_done"  -> {"send"}
       [] b = "send_done"  -> {"recv"}
       [] b = "failed"     -> {"close"}
       [] OTHER            -> {}]
==============================================================================
