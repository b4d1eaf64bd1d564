---------------------------- MODULE ConnectionSet ----------------------------
(***************************************************************************)
(* What connection_storage promises to its callers: a set of connections   *)
(* that never holds more than Size of them.                                *)
(*                                                                         *)
(* connection_storage_add returns void and drops the connection silently   *)
(* when the storage is full, so a connection the server handles (one in    *)
(* live) need not be in the storage.                                       *)
(***************************************************************************)
EXTENDS Naturals, FiniteSets

CONSTANTS
  Connections,   \* addresses of struct _connection
  Size           \* storage->size

VARIABLES
  live,     \* connections whose add has returned and whose delete has not
  stored    \* connections a traversal reaches

setVars == <<live, stored>>

\* connection_storage_is_full
IsFull == Cardinality(stored) >= Size

\* the set after connection_storage_add and after connection_storage_delete
Added(c)   == IF IsFull THEN stored ELSE stored \cup {c}
Deleted(c) == stored \ {c}

Init ==
  /\ live = {}
  /\ stored = {}

Add(c) ==
  /\ c \notin live
  /\ live' = live \cup {c}
  /\ stored' = Added(c)

Delete(c) ==
  /\ c \in live
  /\ live' = live \ {c}
  /\ stored' = Deleted(c)

Next == \E c \in Connections : Add(c) \/ Delete(c)

Spec == Init /\ [][Next]_setVars
==============================================================================
