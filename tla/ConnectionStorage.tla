-------------------------- MODULE ConnectionStorage --------------------------
(***************************************************************************)
(* connection_storage of qs_lib.cpp: an array of connection pointers, a    *)
(* count, and a critical section.  Worker threads add and delete, the      *)
(* idle timer and qs_enum_connections traverse and call back while they    *)
(* hold the critical section.                                              *)
(*                                                                         *)
(* Every store to shared memory is a step of its own, so it is the         *)
(* critical section of the model, and nothing else, that makes the         *)
(* operations atomic.                                                      *)
(***************************************************************************)
EXTENDS Integers, FiniteSets

CONSTANTS
  Threads,       \* threads that call the storage
  Connections,   \* addresses of struct _connection
  Size,          \* storage->size
  Garbage,       \* content of an array cell that was never written
  NoThread       \* nobody owns the critical section

ASSUME SizeAssumption    == Size \in Nat \ {0}
ASSUME GarbageAssumption == Garbage \notin Connections
ASSUME ThreadAssumption  == NoThread \notin Threads

VARIABLES
  connections,   \* storage->connections
  count,         \* storage->count
  cs,            \* owner of storage->cs
  pc,            \* where each thread is
  arg,           \* the connection it was called with
  i,             \* its loop variable
  visited,       \* connections its traversal has called back for
  life           \* what the worker threads are doing with each connection

vars == <<connections, count, cs, pc, arg, i, visited, life>>

Cells == 0 .. Size - 1

Labels == {"idle", "full", "add", "add_count", "delete", "scan", "move",
           "traverse"}

TypeOK ==
  /\ connections \in [Cells -> Connections \cup {Garbage}]
  /\ count \in 0 .. Size
  /\ cs \in Threads \cup {NoThread}
  /\ pc \in [Threads -> Labels]
  /\ arg \in [Threads -> Connections \cup {Garbage}]
  /\ i \in [Threads -> 0 .. Size]
  /\ visited \in [Threads -> SUBSET Connections]
  /\ life \in [Connections -> {"free", "adding", "live", "deleting"}]

\* connection_storage_new
Init ==
  /\ connections = [k \in Cells |-> Garbage]
  /\ count = 0
  /\ cs = NoThread
  /\ pc = [t \in Threads |-> "idle"]
  /\ arg = [t \in Threads |-> Garbage]
  /\ i = [t \in Threads |-> 0]
  /\ visited = [t \in Threads |-> {}]
  /\ life = [c \in Connections |-> "free"]

------------------------------------------------------------------------------
\* EnterCriticalSection at the head of an operation, and LeaveCriticalSection
\* on each of its ways out.

Enter(t, label, c) ==
  /\ pc[t] = "idle"
  /\ cs = NoThread
  /\ cs' = t
  /\ pc' = [pc EXCEPT ![t] = label]
  /\ arg' = [arg EXCEPT ![t] = c]
  /\ i' = [i EXCEPT ![t] = 0]
  /\ visited' = [visited EXCEPT ![t] = {}]

Leave(t) ==
  /\ cs' = NoThread
  /\ pc' = [pc EXCEPT ![t] = "idle"]
  /\ arg' = [arg EXCEPT ![t] = Garbage]
  /\ i' = [i EXCEPT ![t] = 0]
  /\ visited' = [visited EXCEPT ![t] = {}]

Goto(t, label) ==
  /\ pc' = [pc EXCEPT ![t] = label]
  /\ UNCHANGED <<cs, arg, i, visited>>

------------------------------------------------------------------------------
\* connection_storage_is_full, which a worker calls before it posts an accept.

FullEnter(t) ==
  /\ Enter(t, "full", Garbage)
  /\ UNCHANGED <<connections, count, life>>

FullTrue(t) ==
  /\ pc[t] = "full"
  /\ count >= Size
  /\ Leave(t)
  /\ UNCHANGED <<connections, count, life>>

FullFalse(t) ==
  /\ pc[t] = "full"
  /\ count < Size
  /\ Leave(t)
  /\ UNCHANGED <<connections, count, life>>

------------------------------------------------------------------------------
\* connection_storage_add.  A worker adds a connection it has just accepted.

\* Faulty variant: add does not enter the critical section.
AddEnterUnlocked(t, c) ==
  /\ life[c] = "free"
  /\ pc[t] = "idle"
  /\ pc' = [pc EXCEPT ![t] = "add"]
  /\ arg' = [arg EXCEPT ![t] = c]
  /\ life' = [life EXCEPT ![c] = "adding"]
  /\ UNCHANGED <<connections, count, cs, i, visited>>

AddEnter(t, c) ==
  /\ life[c] = "free"
  /\ Enter(t, "add", c)
  /\ life' = [life EXCEPT ![c] = "adding"]
  /\ UNCHANGED <<connections, count>>

AddStore(t) ==
  /\ pc[t] = "add"
  /\ count < Size
  /\ connections' = [connections EXCEPT ![count] = arg[t]]
  /\ Goto(t, "add_count")
  /\ UNCHANGED <<count, life>>

AddCount(t) ==
  /\ pc[t] = "add_count"
  /\ count' = count + 1
  /\ life' = [life EXCEPT ![arg[t]] = "live"]
  /\ Leave(t)
  /\ UNCHANGED connections

AddFull(t) ==
  /\ pc[t] = "add"
  /\ count >= Size
  /\ life' = [life EXCEPT ![arg[t]] = "live"]
  /\ Leave(t)
  /\ UNCHANGED <<connections, count>>

------------------------------------------------------------------------------
\* connection_storage_delete.  The worker that handles the disconnect calls it
\* once and frees the context right after.

DeleteEnter(t, c) ==
  /\ life[c] = "live"
  /\ Enter(t, "delete", c)
  /\ life' = [life EXCEPT ![c] = "deleting"]
  /\ UNCHANGED <<connections, count>>

DeleteReturn(t) ==
  /\ life' = [life EXCEPT ![arg[t]] = "free"]
  /\ Leave(t)

DeleteEmpty(t) ==
  /\ pc[t] = "delete"
  /\ count = 0
  /\ DeleteReturn(t)
  /\ UNCHANGED <<connections, count>>

DeleteLast(t) ==
  /\ pc[t] = "delete"
  /\ count # 0
  /\ connections[count - 1] = arg[t]
  /\ count' = count - 1
  /\ DeleteReturn(t)
  /\ UNCHANGED connections

DeleteLoop(t) ==
  /\ pc[t] = "delete"
  /\ count # 0
  /\ connections[count - 1] # arg[t]
  /\ Goto(t, "scan")
  /\ UNCHANGED <<connections, count, life>>

\* Faulty variant: the loop does not advance.
ScanMissStuck(t) ==
  /\ pc[t] = "scan"
  /\ i[t] < count - 1
  /\ connections[i[t]] # arg[t]
  /\ UNCHANGED vars

ScanMiss(t) ==
  /\ pc[t] = "scan"
  /\ i[t] < count - 1
  /\ connections[i[t]] # arg[t]
  /\ i' = [i EXCEPT ![t] = @ + 1]
  /\ UNCHANGED <<connections, count, cs, pc, arg, visited, life>>

ScanHit(t) ==
  /\ pc[t] = "scan"
  /\ i[t] < count - 1
  /\ connections[i[t]] = arg[t]
  /\ count' = count - 1
  /\ Goto(t, "move")
  /\ UNCHANGED <<connections, life>>

\* Faulty variant: count is not decremented when the last pointer is moved.
DeleteMoveKeepsCount(t) ==
  /\ pc[t] = "move"
  /\ connections' = [connections EXCEPT ![i[t]] = connections[count]]
  /\ count' = count + 1
  /\ DeleteReturn(t)

\* Faulty variant: count is decremented and nothing is moved.
DeleteMoveSkipped(t) ==
  /\ pc[t] = "move"
  /\ DeleteReturn(t)
  /\ UNCHANGED <<connections, count>>

DeleteMove(t) ==
  /\ pc[t] = "move"
  /\ connections' = [connections EXCEPT ![i[t]] = connections[count]]
  /\ DeleteReturn(t)
  /\ UNCHANGED count

ScanEnd(t) ==
  /\ pc[t] = "scan"
  /\ i[t] >= count - 1
  /\ DeleteReturn(t)
  /\ UNCHANGED <<connections, count>>

------------------------------------------------------------------------------
\* connection_storage_traverse, called by clean_timer_callback and by
\* qs_enum_connections.  do_func runs with the critical section held.

\* Faulty variant: the traversal does not enter the critical section.
TraverseEnterUnlocked(t) ==
  /\ pc[t] = "idle"
  /\ pc' = [pc EXCEPT ![t] = "traverse"]
  /\ UNCHANGED <<connections, count, life, cs, arg, i, visited>>

TraverseEnter(t) ==
  /\ Enter(t, "traverse", Garbage)
  /\ UNCHANGED <<connections, count, life>>

TraverseVisit(t) ==
  /\ pc[t] = "traverse"
  /\ i[t] < count
  /\ visited' = [visited EXCEPT ![t] = @ \cup {connections[i[t]]}]
  /\ i' = [i EXCEPT ![t] = @ + 1]
  /\ UNCHANGED <<connections, count, cs, pc, arg, life>>

TraverseEnd(t) ==
  /\ pc[t] = "traverse"
  /\ i[t] >= count
  /\ Leave(t)
  /\ UNCHANGED <<connections, count, life>>

------------------------------------------------------------------------------
\* A step of a thread that is inside an operation.
Inside(t) ==
  \/ FullTrue(t)      \/ FullFalse(t)
  \/ AddStore(t)      \/ AddCount(t)      \/ AddFull(t)
  \/ DeleteEmpty(t)   \/ DeleteLast(t)    \/ DeleteLoop(t)
  \/ ScanMiss(t)      \/ ScanHit(t)       \/ ScanEnd(t)
  \/ DeleteMove(t)
  \/ TraverseVisit(t) \/ TraverseEnd(t)

Next ==
  \E t \in Threads :
    \/ \E c \in Connections : AddEnter(t, c) \/ DeleteEnter(t, c)
    \/ FullEnter(t) \/ TraverseEnter(t)
    \/ Inside(t)

Spec == Init /\ [][Next]_vars

\* A thread inside an operation keeps running: nothing in it blocks, and the
\* callbacks of a traversal return.  No fairness for entering: a critical
\* section is not handed over in any order.
FairSpec == Spec /\ \A t \in Threads : WF_vars(Inside(t))

------------------------------------------------------------------------------
\* Cells in use: between count-- and the move that overwrites the deleted
\* pointer the last cell still counts.
Used == IF \E t \in Threads : pc[t] = "move" THEN count + 1 ELSE count

Stored == {connections[k] : k \in 0 .. Used - 1}

Live == {c \in Connections : life[c] \in {"live", "deleting"}}

\* No pointer is stored twice.  A duplicate would survive the delete of its
\* connection (lines 157-165 stop at the first match) and dangle.
NoDuplicates ==
  \A j, k \in 0 .. Used - 1 : connections[j] = connections[k] => j = k

\* The array between any two stores: count and indices in its bounds, and what
\* it holds distinct.
ArrayIntact == TypeOK /\ NoDuplicates

\* Whatever a traversal can reach is a connection whose delete has not
\* returned, so its memory has not been freed (line 731 before line 732).
NoDanglingPointer == Stored \subseteq Live

\* When a traversal has reached the end it has called back for exactly the
\* connections stored, whatever was added and deleted around it.
TraversalComplete ==
  \A t \in Threads :
    pc[t] = "traverse" /\ i[t] = count => visited[t] = Stored

\* The array under its lock behaves as a bounded set with atomic operations.
Set == INSTANCE ConnectionSet WITH live <- Live, stored <- Stored
ImplementsSet == Set!Spec

\* Every way out of an operation leaves the critical section (both returns of
\* connection_storage_is_full and the early returns at lines 146-156 among
\* them).
CriticalSectionReleased ==
  \A t \in Threads : (cs = t) ~> (cs # t)
==============================================================================
