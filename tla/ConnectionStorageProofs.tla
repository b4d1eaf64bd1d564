----------------------- MODULE ConnectionStorageProofs -----------------------
(***************************************************************************)
(* Proofs about ConnectionStorage, for any number of threads, connections  *)
(* and cells.                                                              *)
(***************************************************************************)
EXTENDS ConnectionStorage, FiniteSetTheorems, TLAPS

\* The critical section is owned by the one thread that is inside.
Exclusion == \A t \in Threads : cs = t <=> pc[t] # "idle"

\* Whoever is inside an operation was called with a connection in the state
\* that the operation needs.
ArgumentsOK ==
  \A t \in Threads :
    /\ pc[t] \in {"add", "add_count"} =>
         arg[t] \in Connections /\ life[arg[t]] = "adding"
    /\ pc[t] \in {"delete", "scan", "move"} =>
         arg[t] \in Connections /\ life[arg[t]] = "deleting"

\* What each control point knows about the array.
ProgressOK ==
  \A t \in Threads :
    /\ pc[t] = "add_count" => count < Size /\ connections[count] = arg[t]
    /\ pc[t] = "delete" => i[t] = 0
    /\ pc[t] = "scan" =>
         /\ count > 0
         /\ i[t] <= count - 1
         /\ connections[count - 1] # arg[t]
         /\ \A k \in 0 .. i[t] - 1 : connections[k] # arg[t]
    /\ pc[t] = "move" =>
         /\ count < Size
         /\ i[t] < count
         /\ connections[i[t]] = arg[t]
    /\ pc[t] = "traverse" =>
         /\ i[t] <= count
         /\ visited[t] = {connections[k] : k \in 0 .. i[t] - 1}

IInv ==
  /\ TypeOK
  /\ Exclusion
  /\ ArgumentsOK
  /\ ProgressOK
  /\ NoDuplicates
  /\ NoDanglingPointer

USE SizeAssumption, GarbageAssumption, ThreadAssumption

------------------------------------------------------------------------------
\* A thread inside an operation is alone there, and the cells in use depend on
\* where it is.
LEMMA Alone ==
  ASSUME TypeOK, Exclusion, NEW t \in Threads, pc[t] # "idle"
  PROVE  /\ cs = t
         /\ \A s \in Threads : s # t => pc[s] = "idle"
         /\ Used = IF pc[t] = "move" THEN count + 1 ELSE count
BY DEF TypeOK, Exclusion, Used

LEMMA Nobody ==
  ASSUME TypeOK, Exclusion, cs = NoThread
  PROVE  /\ \A s \in Threads : pc[s] = "idle"
         /\ Used = count
BY DEF TypeOK, Exclusion, Used

LEMMA InitIInv == Init => IInv
<1> SUFFICES ASSUME Init PROVE IInv
  OBVIOUS
<1>1. TypeOK
  BY DEF Init, TypeOK, Cells, Labels
<1>2. Exclusion /\ ArgumentsOK /\ ProgressOK
  BY DEF Init, Exclusion, ArgumentsOK, ProgressOK
<1>3. Used = 0
  BY DEF Init, Used
<1>4. NoDuplicates /\ NoDanglingPointer
  BY <1>3 DEF NoDuplicates, NoDanglingPointer, Stored
<1> QED
  BY <1>1, <1>2, <1>4 DEF IInv

\* EnterCriticalSection: the array is untouched, and nobody else is inside.
LEMMA EnterIInv ==
  ASSUME IInv, NEW t \in Threads, NEW c \in Connections \cup {Garbage},
         \/ c \in Connections /\ (AddEnter(t, c) \/ DeleteEnter(t, c))
         \/ FullEnter(t) \/ TraverseEnter(t)
  PROVE  IInv'
<1> USE DEF IInv, AddEnter, DeleteEnter, FullEnter, TraverseEnter, Enter
<1>1. TypeOK'
  <2>1. /\ connections' = connections
        /\ count' = count
        /\ cs' = t
        /\ i' = [i EXCEPT ![t] = 0]
        /\ visited' = [visited EXCEPT ![t] = {}]
    OBVIOUS
  <2>2. pc' \in [Threads -> Labels]
    BY DEF TypeOK, Labels
  <2>3. arg' \in [Threads -> Connections \cup {Garbage}]
    BY DEF TypeOK
  <2>4. life' \in [Connections -> {"free", "adding", "live", "deleting"}]
    BY DEF TypeOK
  <2> QED
    BY <2>1, <2>2, <2>3, <2>4 DEF TypeOK
<1>2. /\ \A s \in Threads : pc[s] = "idle"
      /\ Used = count
  BY Nobody
<1>3. Exclusion'
  BY <1>2 DEF TypeOK, Exclusion
<1>4. ArgumentsOK'
  BY <1>2 DEF TypeOK, ArgumentsOK
<1>5. ProgressOK'
  BY <1>2 DEF TypeOK, ProgressOK
<1>6. Used' = count
  BY <1>2 DEF TypeOK, Used
<1>7. NoDuplicates'
  BY <1>2, <1>6 DEF NoDuplicates
<1>8. NoDanglingPointer'
  <2>1. Live \subseteq Live'
    BY DEF TypeOK, Live
  <2> QED
    BY <1>2, <1>6, <2>1 DEF NoDanglingPointer, Stored
<1> QED
  BY <1>1, <1>3, <1>4, <1>5, <1>7, <1>8

\* connection_storage_add: the new pointer goes into the first cell that is
\* not in use, and is in use once count has been incremented.
LEMMA AddIInv ==
  ASSUME IInv, NEW t \in Threads, AddStore(t) \/ AddCount(t) \/ AddFull(t)
  PROVE  IInv'
<1> USE DEF IInv
<1>1. /\ pc[t] \in {"add", "add_count"}
      /\ cs = t
      /\ \A s \in Threads : s # t => pc[s] = "idle"
      /\ Used = count
      /\ arg[t] \in Connections
      /\ life[arg[t]] = "adding"
  BY Alone DEF AddStore, AddCount, AddFull, ArgumentsOK
<1>2. arg[t] \notin Stored
  BY <1>1 DEF NoDanglingPointer, Live
<1>3. CASE AddStore(t)
  <2> USE <1>3 DEF AddStore, Goto
  <2>1. TypeOK'
    BY <1>1 DEF TypeOK, Cells, Labels
  <2>2. Exclusion' /\ ArgumentsOK'
    BY <1>1 DEF TypeOK, Exclusion, ArgumentsOK
  <2>3. ProgressOK'
    BY <1>1 DEF TypeOK, ProgressOK, Cells
  <2>4. Used' = count
    BY <1>1 DEF TypeOK, Used
  <2>5. \A k \in 0 .. count - 1 : connections'[k] = connections[k]
    BY DEF TypeOK, Cells
  <2>6. NoDuplicates' /\ NoDanglingPointer'
    BY <1>1, <2>4, <2>5 DEF TypeOK, NoDuplicates, NoDanglingPointer, Stored, Live
  <2> QED
    BY <2>1, <2>2, <2>3, <2>6
<1>4. CASE AddCount(t)
  <2> USE <1>4 DEF AddCount, Leave
  <2>1. count < Size /\ connections[count] = arg[t]
    BY DEF ProgressOK
  <2>2. TypeOK'
    BY <1>1, <2>1 DEF TypeOK, Cells, Labels
  <2>3. Exclusion' /\ ArgumentsOK' /\ ProgressOK'
    BY <1>1 DEF TypeOK, Exclusion, ArgumentsOK, ProgressOK
  <2>4. Used' = count + 1
    BY <1>1 DEF TypeOK, Used
  <2>5. \A k \in 0 .. count - 1 : connections[k] # arg[t]
    BY <1>1, <1>2 DEF Stored
  <2>6. NoDuplicates'
    BY <1>1, <2>1, <2>4, <2>5 DEF TypeOK, NoDuplicates
  <2>7. Live' = Live \cup {arg[t]}
    BY <1>1 DEF TypeOK, Live
  <2>8. NoDanglingPointer'
    BY <1>1, <2>1, <2>4, <2>7 DEF TypeOK, NoDanglingPointer, Stored
  <2> QED
    BY <2>2, <2>3, <2>6, <2>8
<1>5. CASE AddFull(t)
  <2> USE <1>5 DEF AddFull, Leave
  <2>1. TypeOK'
    BY <1>1 DEF TypeOK, Cells, Labels
  <2>2. Exclusion' /\ ArgumentsOK' /\ ProgressOK'
    BY <1>1 DEF TypeOK, Exclusion, ArgumentsOK, ProgressOK
  <2>3. Used' = count
    BY <1>1 DEF TypeOK, Used
  <2>4. Live' = Live \cup {arg[t]}
    BY <1>1 DEF TypeOK, Live
  <2>5. NoDuplicates' /\ NoDanglingPointer'
    BY <1>1, <2>3, <2>4 DEF NoDuplicates, NoDanglingPointer, Stored
  <2> QED
    BY <2>1, <2>2, <2>5
<1> QED
  BY <1>3, <1>4, <1>5

\* connection_storage_delete when it returns: the deleted pointer is in no
\* cell that remains in use, so freeing the connection leaves none dangling.
LEMMA DeleteReturnIInv ==
  ASSUME IInv, NEW t \in Threads,
         DeleteEmpty(t) \/ DeleteLast(t) \/ ScanEnd(t) \/ DeleteMove(t)
  PROVE  IInv'
<1> USE DEF IInv, DeleteReturn, Leave
<1>1. /\ pc[t] \in {"delete", "scan", "move"}
      /\ cs = t
      /\ \A s \in Threads : s # t => pc[s] = "idle"
      /\ Used = IF pc[t] = "move" THEN count + 1 ELSE count
      /\ arg[t] \in Connections
      /\ life[arg[t]] = "deleting"
  BY Alone DEF DeleteEmpty, DeleteLast, ScanEnd, DeleteMove, ArgumentsOK
<1>2. /\ pc' = [pc EXCEPT ![t] = "idle"]
      /\ cs' = NoThread
      /\ arg' = [arg EXCEPT ![t] = Garbage]
      /\ i' = [i EXCEPT ![t] = 0]
      /\ visited' = [visited EXCEPT ![t] = {}]
      /\ life' = [life EXCEPT ![arg[t]] = "free"]
  BY DEF DeleteEmpty, DeleteLast, ScanEnd, DeleteMove
<1>3. /\ count' \in 0 .. Size
      /\ connections' \in [Cells -> Connections \cup {Garbage}]
  <2>1. CASE DeleteEmpty(t) \/ ScanEnd(t)
    BY <2>1 DEF TypeOK, DeleteEmpty, ScanEnd
  <2>2. CASE DeleteLast(t)
    BY <2>2 DEF TypeOK, DeleteLast
  <2>3. CASE DeleteMove(t)
    BY <2>3 DEF TypeOK, ProgressOK, Cells, DeleteMove
  <2> QED
    BY <2>1, <2>2, <2>3
<1>4. TypeOK'
  <2>1. pc' \in [Threads -> Labels] /\ arg' \in [Threads -> Connections \cup {Garbage}]
    BY <1>2 DEF TypeOK, Labels
  <2>2. i' \in [Threads -> 0 .. Size] /\ visited' \in [Threads -> SUBSET Connections]
    BY <1>2 DEF TypeOK
  <2>3. life' \in [Connections -> {"free", "adding", "live", "deleting"}]
    BY <1>2 DEF TypeOK
  <2> QED
    BY <1>2, <1>3, <2>1, <2>2, <2>3 DEF TypeOK
<1>5. Exclusion' /\ ArgumentsOK' /\ ProgressOK'
  BY <1>1, <1>2 DEF TypeOK, Exclusion, ArgumentsOK, ProgressOK
<1>6. Used' = count'
  BY <1>1, <1>2 DEF TypeOK, Used
<1>7. /\ \A j, k \in 0 .. count' - 1 : connections'[j] = connections'[k] => j = k
      /\ \A k \in 0 .. count' - 1 : connections'[k] \in Stored \ {arg[t]}
  <2>1. CASE DeleteEmpty(t)
    BY <2>1 DEF DeleteEmpty, TypeOK
  <2>2. CASE DeleteLast(t)
    <3>1. pc[t] = "delete" /\ count' = count - 1 /\ connections' = connections
      BY <2>2 DEF DeleteLast
    <3>2. count \in Nat /\ count > 0 /\ connections[count - 1] = arg[t]
      BY <2>2 DEF DeleteLast, TypeOK
    <3> QED
      BY <1>1, <3>1, <3>2 DEF NoDuplicates, Stored
  <2>3. CASE ScanEnd(t)
    <3>1. pc[t] = "scan" /\ count' = count /\ connections' = connections
      BY <2>3 DEF ScanEnd
    <3>2. count \in Nat /\ i[t] \in Nat /\ i[t] = count - 1
      BY <2>3, <3>1 DEF ScanEnd, TypeOK, ProgressOK
    <3>3. \A k \in 0 .. count - 1 : connections[k] # arg[t]
      BY <3>1, <3>2 DEF ProgressOK
    <3> QED
      BY <1>1, <3>1, <3>3 DEF NoDuplicates, Stored
  <2>4. CASE DeleteMove(t)
    <3>1. /\ pc[t] = "move"
          /\ count' = count
          /\ connections' = [connections EXCEPT ![i[t]] = connections[count]]
      BY <2>4 DEF DeleteMove
    <3>2. /\ count \in Nat /\ i[t] \in Nat /\ i[t] < count /\ count < Size
          /\ connections[i[t]] = arg[t]
      BY <3>1 DEF TypeOK, ProgressOK
    <3>3. \A j, k \in 0 .. count : connections[j] = connections[k] => j = k
      BY <1>1, <3>1, <3>2 DEF NoDuplicates
    <3>4. \A k \in 0 .. count - 1 :
            connections'[k] = IF k = i[t] THEN connections[count] ELSE connections[k]
      BY <3>1, <3>2 DEF TypeOK, Cells
    <3>5. \A k \in 0 .. count - 1 : connections'[k] \in Stored
      BY <1>1, <3>1, <3>2, <3>4 DEF Stored
    <3>6. \A k \in 0 .. count - 1 : connections'[k] # arg[t]
      BY <3>2, <3>3, <3>4
    <3>7. \A j, k \in 0 .. count - 1 : connections'[j] = connections'[k] => j = k
      BY <3>2, <3>3, <3>4
    <3> QED
      BY <3>1, <3>5, <3>6, <3>7
  <2> QED
    BY <2>1, <2>2, <2>3, <2>4
<1>8. NoDuplicates'
  BY <1>6, <1>7 DEF NoDuplicates
<1>9. Live' = Live \ {arg[t]}
  BY <1>1, <1>2 DEF TypeOK, Live
<1>10. NoDanglingPointer'
  BY <1>6, <1>7, <1>9 DEF NoDanglingPointer, Stored
<1> QED
  BY <1>4, <1>5, <1>8, <1>10

\* connection_storage_delete while it looks for the connection.
LEMMA ScanIInv ==
  ASSUME IInv, NEW t \in Threads, DeleteLoop(t) \/ ScanMiss(t) \/ ScanHit(t)
  PROVE  IInv'
<1> USE DEF IInv, Goto
<1>1. /\ pc[t] \in {"delete", "scan"}
      /\ cs = t
      /\ \A s \in Threads : s # t => pc[s] = "idle"
      /\ Used = count
  BY Alone DEF DeleteLoop, ScanMiss, ScanHit
<1>2. /\ pc'[t] \in {"scan", "move"}
      /\ \A s \in Threads : s # t => pc'[s] = "idle"
      /\ UNCHANGED <<connections, cs, arg, visited, life>>
  BY <1>1 DEF TypeOK, DeleteLoop, ScanMiss, ScanHit
<1>3. TypeOK'
  BY <1>1 DEF TypeOK, ProgressOK, Labels, DeleteLoop, ScanMiss, ScanHit
<1>4. Exclusion' /\ ArgumentsOK'
  BY <1>1, <1>2 DEF Exclusion, ArgumentsOK
<1>5. ProgressOK'
  <2>1. CASE DeleteLoop(t)
    BY <1>1, <2>1 DEF TypeOK, ProgressOK, DeleteLoop, ArgumentsOK
  <2>2. CASE ScanMiss(t)
    BY <1>1, <2>2 DEF TypeOK, ProgressOK, ScanMiss
  <2>3. CASE ScanHit(t)
    BY <1>1, <2>3 DEF TypeOK, ProgressOK, ScanHit
  <2> QED
    BY <2>1, <2>2, <2>3
<1>6. Used' = count
  BY <1>1, <1>2 DEF TypeOK, Used, DeleteLoop, ScanMiss, ScanHit
<1>7. NoDuplicates' /\ NoDanglingPointer'
  BY <1>1, <1>2, <1>6 DEF NoDuplicates, NoDanglingPointer, Stored, Live
<1> QED
  BY <1>3, <1>4, <1>5, <1>7

\* connection_storage_is_full: it only leaves the critical section again.
LEMMA FullIInv ==
  ASSUME IInv, NEW t \in Threads, FullTrue(t) \/ FullFalse(t)
  PROVE  IInv'
<1> USE DEF IInv
<1>1. /\ pc[t] = "full"
      /\ cs = t
      /\ \A s \in Threads : s # t => pc[s] = "idle"
      /\ Used = count
      /\ Leave(t)
      /\ UNCHANGED <<connections, count, life>>
  BY Alone DEF FullTrue, FullFalse
<1>2. TypeOK'
  BY <1>1 DEF TypeOK, Labels, Leave
<1>3. Exclusion' /\ ArgumentsOK' /\ ProgressOK'
  BY <1>1 DEF TypeOK, Exclusion, ArgumentsOK, ProgressOK, Leave
<1>4. Used' = count
  BY <1>1 DEF TypeOK, Used, Leave
<1>5. NoDuplicates' /\ NoDanglingPointer'
  BY <1>1, <1>4 DEF NoDuplicates, NoDanglingPointer, Stored, Live
<1> QED
  BY <1>2, <1>3, <1>5

\* connection_storage_traverse.
LEMMA TraverseIInv ==
  ASSUME IInv, NEW t \in Threads, TraverseVisit(t) \/ TraverseEnd(t)
  PROVE  IInv'
<1> USE DEF IInv, Leave
<1>1. /\ pc[t] = "traverse"
      /\ cs = t
      /\ \A s \in Threads : s # t => pc[s] = "idle"
      /\ Used = count
      /\ UNCHANGED <<connections, count, life>>
  BY Alone DEF TraverseVisit, TraverseEnd
<1>2. \A k \in 0 .. count - 1 : connections[k] \in Connections
  BY <1>1 DEF NoDanglingPointer, Stored, Live
<1>3. TypeOK'
  BY <1>1, <1>2 DEF TypeOK, Labels, TraverseVisit, TraverseEnd
<1>4. Exclusion' /\ ArgumentsOK'
  BY <1>1 DEF TypeOK, Exclusion, ArgumentsOK, TraverseVisit, TraverseEnd
<1>5. ProgressOK'
  <2>1. CASE TraverseVisit(t)
    BY <1>1, <2>1 DEF TypeOK, ProgressOK, TraverseVisit
  <2>2. CASE TraverseEnd(t)
    BY <1>1, <2>2 DEF TypeOK, ProgressOK, TraverseEnd
  <2> QED
    BY <2>1, <2>2
<1>6. Used' = count
  BY <1>1 DEF TypeOK, Used, TraverseVisit, TraverseEnd
<1>7. NoDuplicates' /\ NoDanglingPointer'
  BY <1>1, <1>6 DEF NoDuplicates, NoDanglingPointer, Stored, Live
<1> QED
  BY <1>3, <1>4, <1>5, <1>7

LEMMA NextIInv == IInv /\ [Next]_vars => IInv'
<1> SUFFICES ASSUME IInv, [Next]_vars PROVE IInv'
  OBVIOUS
<1>1. ASSUME NEW t \in Threads, NEW c \in Connections,
             AddEnter(t, c) \/ DeleteEnter(t, c)
      PROVE  IInv'
  BY <1>1, EnterIInv
<1>2. ASSUME NEW t \in Threads, FullEnter(t) \/ TraverseEnter(t)
      PROVE  IInv'
  BY <1>2, EnterIInv
<1>3. ASSUME NEW t \in Threads, Inside(t)
      PROVE  IInv'
  BY <1>3, AddIInv, DeleteReturnIInv, ScanIInv, FullIInv, TraverseIInv DEF Inside
<1>4. CASE UNCHANGED vars
  BY <1>4 DEF vars, IInv, TypeOK, Exclusion, ArgumentsOK, ProgressOK,
              NoDuplicates, NoDanglingPointer, Used, Stored, Live
<1> QED
  BY <1>1, <1>2, <1>3, <1>4 DEF Next

THEOREM Invariance == Spec => []IInv
<1> QED
  BY InitIInv, NextIInv, PTL DEF Spec

\* Every store of the storage's operations stays inside the array, for any
\* capacity and any number of threads (lines 117-165).
THEOREM TypeCorrect == Spec => []TypeOK
<1>1. IInv => TypeOK
  BY DEF IInv
<1> QED
  BY <1>1, Invariance, PTL

\* Add and swap-with-last delete keep the pointers in the array distinct, and
\* every store of them is inside the array.
THEOREM StoredOnce == Spec => []ArrayIntact
<1>1. IInv => ArrayIntact
  BY DEF IInv, ArrayIntact
<1> QED
  BY <1>1, Invariance, PTL

\* A pointer in the array is never that of a connection whose delete has
\* returned, so the storage never refers to freed memory.
THEOREM NothingDangles == Spec => []NoDanglingPointer
<1>1. IInv => NoDanglingPointer
  BY DEF IInv
<1> QED
  BY <1>1, Invariance, PTL

\* A traversal calls back for every stored connection and for no other, even
\* when adds and deletes wait to run around it.
THEOREM TraversalReachesAll == Spec => []TraversalComplete
<1>1. IInv => TraversalComplete
  <2> SUFFICES ASSUME IInv, NEW t \in Threads, pc[t] = "traverse", i[t] = count
               PROVE  visited[t] = Stored
    BY DEF TraversalComplete
  <2>1. Used = count
    BY Alone DEF IInv
  <2>2. visited[t] = {connections[k] : k \in 0 .. count - 1}
    BY DEF IInv, ProgressOK
  <2> QED
    BY <2>1, <2>2 DEF Stored
<1> QED
  BY <1>1, Invariance, PTL

------------------------------------------------------------------------------
\* Refinement of ConnectionSet.

\* The array holds as many connections as it has cells in use: the test on
\* count in connection_storage_is_full is a test on the set.
LEMMA CountIsCardinality ==
  ASSUME IInv
  PROVE  IsFiniteSet(Stored) /\ Cardinality(Stored) = Used
<1> DEFINE f == [n \in 1 .. Used |-> connections[n - 1]]
<1>1. Used \in Nat
  BY DEF IInv, TypeOK, Used
<1>2. f \in Bijection(1 .. Used, Stored)
  <2>1. f \in [1 .. Used -> Stored]
    BY <1>1 DEF Stored
  <2>2. \A m, n \in 1 .. Used : f[m] = f[n] => m = n
    BY <1>1 DEF IInv, NoDuplicates
  <2>3. \A c \in Stored : \E n \in 1 .. Used : f[n] = c
    <3> SUFFICES ASSUME NEW k \in 0 .. Used - 1
                 PROVE  \E n \in 1 .. Used : f[n] = connections[k]
      BY DEF Stored
    <3>1. k + 1 \in 1 .. Used /\ f[k + 1] = connections[k]
      BY <1>1
    <3> QED
      BY <3>1
  <2> QED
    BY <2>1, <2>2, <2>3 DEF Bijection, Injection, Surjection, IsInjective
<1>3. ExistsBijection(1 .. Used, Stored)
  BY <1>2 DEF ExistsBijection
<1> QED
  BY <1>1, <1>3, FS_CountingElements, FS_NatBijection

\* What connection_storage_is_full returns is whether the set is full.
THEOREM FullIsExact ==
  Spec => [](\A t \in Threads : pc[t] = "full" => (count >= Size <=> Set!IsFull))
<1>1. IInv => \A t \in Threads : pc[t] = "full" => (count >= Size <=> Set!IsFull)
  <2> SUFFICES ASSUME IInv, NEW t \in Threads, pc[t] = "full"
               PROVE  count >= Size <=> Set!IsFull
    OBVIOUS
  <2>1. Used = count
    BY Alone DEF IInv
  <2>2. Cardinality(Stored) = count
    BY <2>1, CountIsCardinality
  <2>3. Set!Cardinality(Stored) = Cardinality(Stored)
    BY DEF Cardinality, Set!Cardinality
  <2> QED
    BY <2>2, <2>3 DEF Set!IsFull, IInv, TypeOK
<1> QED
  BY <1>1, Invariance, PTL

\* Steps that move a thread, or write a cell that is not in use, leave the set
\* as it was.
LEMMA Stutter ==
  ASSUME IInv, NEW t \in Threads,
         \/ \E c \in Connections : AddEnter(t, c) \/ DeleteEnter(t, c)
         \/ FullEnter(t) \/ TraverseEnter(t)
         \/ FullTrue(t) \/ FullFalse(t)
         \/ AddStore(t) \/ DeleteLoop(t) \/ ScanMiss(t) \/ ScanHit(t)
         \/ TraverseVisit(t) \/ TraverseEnd(t)
  PROVE  Live' = Live /\ Stored' = Stored
<1> USE DEF IInv
<1>1. CASE \/ \E c \in Connections : AddEnter(t, c) \/ DeleteEnter(t, c)
           \/ FullEnter(t) \/ TraverseEnter(t)
  <2> USE <1>1 DEF AddEnter, DeleteEnter, FullEnter, TraverseEnter, Enter
  <2>1. (\A s \in Threads : pc[s] = "idle") /\ Used = count
    BY Nobody
  <2>2. Used' = count
    BY <2>1 DEF TypeOK, Used
  <2>3. Stored' = Stored
    BY <2>1, <2>2 DEF Stored
  <2>4. Live' = Live
    BY DEF TypeOK, Live
  <2> QED
    BY <2>3, <2>4
<1>2. CASE AddStore(t)
  <2> USE <1>2 DEF AddStore, Goto
  <2>1. (\A s \in Threads : s # t => pc[s] = "idle") /\ Used = count
    BY Alone
  <2>2. Used' = count
    BY <2>1 DEF TypeOK, Used
  <2>3. \A k \in 0 .. count - 1 : connections'[k] = connections[k]
    BY DEF TypeOK, Cells
  <2> QED
    BY <2>1, <2>2, <2>3 DEF Stored, Live
<1>3. CASE DeleteLoop(t) \/ ScanMiss(t) \/ ScanHit(t)
  <2> USE <1>3 DEF DeleteLoop, ScanMiss, ScanHit, Goto
  <2>1. (\A s \in Threads : s # t => pc[s] = "idle") /\ Used = count
    BY Alone
  <2>2. Used' = count
    BY <2>1 DEF TypeOK, Used
  <2> QED
    BY <2>1, <2>2 DEF Stored, Live
<1>4. CASE FullTrue(t) \/ FullFalse(t) \/ TraverseVisit(t) \/ TraverseEnd(t)
  <2> USE <1>4 DEF FullTrue, FullFalse, TraverseVisit, TraverseEnd, Leave
  <2>1. (\A s \in Threads : s # t => pc[s] = "idle") /\ Used = count
    BY Alone
  <2>2. Used' = count
    BY <2>1 DEF TypeOK, Used
  <2> QED
    BY <2>1, <2>2 DEF Stored, Live
<1> QED
  BY <1>1, <1>2, <1>3, <1>4

\* The last step of connection_storage_add is the atomic Add.
LEMMA AddRefines ==
  ASSUME IInv, NEW t \in Threads, AddCount(t) \/ AddFull(t)
  PROVE  arg[t] \in Connections /\ Set!Add(arg[t])
<1> USE DEF IInv
<1>1. /\ \A s \in Threads : s # t => pc[s] = "idle"
      /\ Used = count
      /\ arg[t] \in Connections
      /\ life[arg[t]] = "adding"
  BY Alone DEF AddCount, AddFull, ArgumentsOK
<1>2. arg[t] \notin Live
  BY <1>1 DEF Live
<1>3. Live' = Live \cup {arg[t]}
  BY <1>1 DEF TypeOK, Live, AddCount, AddFull, Leave
<1>4. Used' = count'
  BY <1>1 DEF TypeOK, Used, AddCount, AddFull, Leave
<1>5. count \in Nat /\ Set!Cardinality(Stored) = count
  <2>1. Cardinality(Stored) = count
    BY <1>1, CountIsCardinality
  <2>2. Set!Cardinality(Stored) = Cardinality(Stored)
    BY DEF Cardinality, Set!Cardinality
  <2> QED
    BY <2>1, <2>2 DEF TypeOK
<1>6. Stored' = Set!Added(arg[t])
  <2>1. CASE AddCount(t)
    <3>1. /\ count < Size /\ connections[count] = arg[t]
          /\ count' = count + 1 /\ connections' = connections
      BY <2>1 DEF AddCount, ProgressOK
    <3>2. ~ Set!IsFull
      BY <1>5, <3>1 DEF Set!IsFull
    <3>3. Stored' = Stored \cup {arg[t]}
      BY <1>1, <1>4, <3>1 DEF TypeOK, Stored
    <3> QED
      BY <3>2, <3>3 DEF Set!Added
  <2>2. CASE AddFull(t)
    <3>1. count >= Size /\ count' = count /\ connections' = connections
      BY <2>2 DEF AddFull
    <3>2. Set!IsFull
      BY <1>5, <3>1 DEF Set!IsFull
    <3>3. Stored' = Stored
      BY <1>1, <1>4, <3>1 DEF Stored
    <3> QED
      BY <3>2, <3>3 DEF Set!Added
  <2> QED
    BY <2>1, <2>2
<1> QED
  BY <1>1, <1>2, <1>3, <1>6 DEF Set!Add

\* Each way out of connection_storage_delete is the atomic Delete.
LEMMA DeleteRefines ==
  ASSUME IInv, NEW t \in Threads,
         DeleteEmpty(t) \/ DeleteLast(t) \/ ScanEnd(t) \/ DeleteMove(t)
  PROVE  arg[t] \in Connections /\ Set!Delete(arg[t])
<1> USE DEF IInv, DeleteReturn, Leave
<1>1. /\ \A s \in Threads : s # t => pc[s] = "idle"
      /\ Used = IF pc[t] = "move" THEN count + 1 ELSE count
      /\ arg[t] \in Connections
      /\ life[arg[t]] = "deleting"
  BY Alone DEF DeleteEmpty, DeleteLast, ScanEnd, DeleteMove, ArgumentsOK
<1>2. arg[t] \in Live
  BY <1>1 DEF Live
<1>3. Live' = Live \ {arg[t]}
  BY <1>1 DEF TypeOK, Live, DeleteEmpty, DeleteLast, ScanEnd, DeleteMove
<1>4. Used' = count'
  BY <1>1 DEF TypeOK, Used, DeleteEmpty, DeleteLast, ScanEnd, DeleteMove
<1>5. Stored' \subseteq Live'
  BY DeleteReturnIInv DEF NoDanglingPointer
<1>6. Stored \ {arg[t]} \subseteq Stored'
  <2> SUFFICES ASSUME NEW k \in 0 .. Used - 1, connections[k] # arg[t]
               PROVE  \E j \in 0 .. count' - 1 : connections'[j] = connections[k]
    BY <1>4 DEF Stored
  <2>1. CASE DeleteEmpty(t) \/ ScanEnd(t)
    <3>1. Used = count /\ count' = count /\ connections' = connections
      BY <1>1, <2>1 DEF DeleteEmpty, ScanEnd
    <3> QED
      BY <3>1
  <2>2. CASE DeleteLast(t)
    <3>1. /\ Used = count /\ count' = count - 1 /\ connections' = connections
          /\ connections[count - 1] = arg[t]
      BY <1>1, <2>2 DEF DeleteLast
    <3>2. k \in 0 .. count' - 1
      BY <3>1 DEF TypeOK
    <3> QED
      BY <3>1, <3>2
  <2>3. CASE DeleteMove(t)
    <3>1. /\ Used = count + 1 /\ count' = count
          /\ connections' = [connections EXCEPT ![i[t]] = connections[count]]
          /\ i[t] < count /\ count < Size
          /\ connections[i[t]] = arg[t]
      BY <1>1, <2>3 DEF DeleteMove, ProgressOK
    <3>2. /\ count \in Nat /\ i[t] \in Nat
          /\ i[t] \in DOMAIN connections /\ k \in DOMAIN connections
      BY <3>1 DEF TypeOK, Cells
    <3>3. CASE k = count
      BY <3>1, <3>2, <3>3
    <3>4. CASE k # count
      <4>1. k \in 0 .. count - 1 /\ k # i[t]
        BY <3>1, <3>2, <3>4
      <4> QED
        BY <3>1, <3>2, <4>1
    <3> QED
      BY <3>3, <3>4
  <2> QED
    BY <2>1, <2>2, <2>3
<1>7. Stored' \subseteq Stored
  <2> SUFFICES ASSUME NEW j \in 0 .. count' - 1
               PROVE  \E k \in 0 .. Used - 1 : connections[k] = connections'[j]
    BY <1>4 DEF Stored
  <2>1. CASE DeleteEmpty(t) \/ ScanEnd(t)
    BY <1>1, <2>1 DEF DeleteEmpty, ScanEnd
  <2>2. CASE DeleteLast(t)
    BY <1>1, <2>2 DEF TypeOK, DeleteLast
  <2>3. CASE DeleteMove(t)
    <3>1. /\ Used = count + 1 /\ count' = count
          /\ connections' = [connections EXCEPT ![i[t]] = connections[count]]
      BY <1>1, <2>3 DEF DeleteMove
    <3> QED
      BY <3>1 DEF TypeOK
  <2> QED
    BY <2>1, <2>2, <2>3
<1>8. Stored' = Set!Deleted(arg[t])
  BY <1>3, <1>5, <1>6, <1>7 DEF Set!Deleted
<1> QED
  BY <1>1, <1>2, <1>3, <1>8 DEF Set!Delete

\* The array of pointers under its critical section implements the bounded
\* set with atomic add and delete that the rest of the library relies on.
THEOREM Refinement == Spec => ImplementsSet
<1>1. Init => Set!Init
  <2> SUFFICES ASSUME Init PROVE Live = {} /\ Stored = {}
    BY DEF Set!Init
  <2>1. Used = 0
    BY DEF Init, Used
  <2> QED
    BY <2>1 DEF Init, Live, Stored
<1>2. IInv /\ [Next]_vars => [Set!Next]_(Set!setVars)
  <2> SUFFICES ASSUME IInv, [Next]_vars
               PROVE  Set!Next \/ (Live' = Live /\ Stored' = Stored)
    BY DEF Set!setVars
  <2>1. CASE UNCHANGED vars
    BY <2>1 DEF vars, Live, Stored, Used
  <2>2. ASSUME NEW t \in Threads, Inside(t)
        PROVE  Set!Next \/ (Live' = Live /\ Stored' = Stored)
    BY <2>2, Stutter, AddRefines, DeleteRefines DEF Inside, Set!Next
  <2>3. ASSUME NEW t \in Threads,
               \/ \E c \in Connections : AddEnter(t, c) \/ DeleteEnter(t, c)
               \/ FullEnter(t) \/ TraverseEnter(t)
        PROVE  Live' = Live /\ Stored' = Stored
    BY <2>3, Stutter
  <2> QED
    BY <2>1, <2>2, <2>3 DEF Next
<1> QED
  BY <1>1, <1>2, Invariance, PTL DEF Spec, ImplementsSet, Set!Spec
==============================================================================
