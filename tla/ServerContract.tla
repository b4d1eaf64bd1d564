--------------------------- MODULE ServerContract ---------------------------
(***************************************************************************)
(* What qs_create, qs_start, qs_stop and qs_delete promise about one       *)
(* server: it serves once.  The completion port is made by qs_create and   *)
(* closed by qs_stop, and the socket library is started by qs_create and   *)
(* ended by a qs_start with a bad address; after either the server can     *)
(* only be deleted.                                                        *)
(***************************************************************************)
VARIABLE server

Init == server = "none"

Create == server = "none" /\ server' = "created"

\* qs_start succeeds.
Serve  == server = "created" /\ server' = "serving"

\* qs_stop, or a qs_start whose listen address does not parse.
Spend  == server \in {"created", "serving"} /\ server' = "spent"

Delete == server \in {"created", "spent"} /\ server' = "none"

Next == Create \/ Serve \/ Spend \/ Delete

Spec == Init /\ [][Next]_server

=============================================================================
