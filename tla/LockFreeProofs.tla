--------------------------- MODULE LockFreeProofs ---------------------------
(***************************************************************************)
(* Proofs about the two places of the allocator where threads meet without *)
(* a lock: SpinLock, which is one, for any number of threads and any bound *)
(* on how often a thread takes a lock it owns, and HeapDetection, for any  *)
(* number of threads and mspaces and any sizes.                            *)
(***************************************************************************)
EXTENDS SpinLock, TLAPS

\* HeapDetection has the same threads and is a state machine of its own.
CONSTANTS N, First, MaxSize, Page
VARIABLES leastusedaddress, largestusedblock, live, place, caller, ret, aborted,
          tested, raced

Detection == INSTANCE HeapDetection WITH pc <- place

------------------------------------------------------------------------------
\* The spin lock

\* Somebody has the lock if and only if l is 1.
LTells ==
  /\ \A t \in Threads : Has(t) => l = 1
  /\ l = 1 => \E t \in Threads : Has(t)

\* A call is made with depth below its bound, and one that has found the lock
\* free, or gives it back, is made by a thread that has no more of it.
DepthOK ==
  \A t \in Threads :
    /\ pc[t] \in Calling => depth[t] < MaxDepth
    /\ pc[t] \in Entering \cup Leaving \cup {"exchange"} => depth[t] = 0

\* threadid and c speak of the thread that has the lock.
OwnerOK ==
  \A t \in Threads :
    /\ depth[t] > 0 => threadid = t /\ c = depth[t]
    /\ pc[t] \in {"set_c", "clear_threadid"} => threadid = t
    /\ threadid = t => depth[t] > 0 \/ pc[t] \in {"set_c", "clear_threadid"}

\* c is zero while the lock is free, being taken or being given back.
CountOK ==
  /\ l = 0 => c = 0
  /\ \A t \in Threads : pc[t] \in Entering \cup Leaving => c = 0

IInv == TypeOK /\ Exclusive /\ LTells /\ DepthOK /\ OwnerOK /\ CountOK

LEMMA InitInv == Parameters /\ Init => IInv
<1> SUFFICES ASSUME Parameters, Init PROVE IInv
  OBVIOUS
<1> USE DEF Parameters
<1> QED
  BY DEF Init, IInv, TypeOK, Exclusive, LTells, DepthOK, OwnerOK, CountOK, Has,
         Calling, Entering, Leaving

\* Every access that a thread makes keeps the invariant.
LEMMA StepInv == Parameters /\ IInv /\ [Next]_vars => IInv'
<1> SUFFICES ASSUME Parameters, IInv, [Next]_vars PROVE IInv'
  OBVIOUS
<1> USE DEF Parameters
<1> USE DEF IInv
<1>1. ASSUME NEW t \in Threads, Call(t) PROVE IInv'
  <2>1. TypeOK'
    BY <1>1 DEF Call, Goto, lockVars,
       TypeOK, Calling, Entering, Leaving
  <2>2. Exclusive'
    BY <1>1 DEF Call, Goto, lockVars,
       Exclusive, LTells, DepthOK, TypeOK, Has, Calling, Entering, Leaving
  <2>3. LTells'
    BY <1>1 DEF Call, Goto, lockVars,
       LTells, Exclusive, DepthOK, TypeOK, Has, Calling, Entering, Leaving
  <2>4. DepthOK'
    BY <1>1 DEF Call, Goto, lockVars,
       DepthOK, LTells, OwnerOK, TypeOK, Has, Calling, Entering, Leaving
  <2>5. OwnerOK'
    BY <1>1 DEF Call, Goto, lockVars,
       OwnerOK, Exclusive, DepthOK, CountOK, TypeOK, Has, Calling, Entering, Leaving
  <2>6. CountOK'
    BY <1>1 DEF Call, Goto, lockVars,
       CountOK, LTells, Exclusive, OwnerOK, DepthOK, TypeOK, Has, Calling, Entering, Leaving
  <2> QED
    BY <2>1, <2>2, <2>3, <2>4, <2>5, <2>6
<1>2. ASSUME NEW t \in Threads, ReadL(t) PROVE IInv'
  <2>1. TypeOK'
    BY <1>2 DEF ReadL, Goto, lockVars,
       TypeOK, Calling, Entering, Leaving
  <2>2. Exclusive'
    BY <1>2 DEF ReadL, Goto, lockVars,
       Exclusive, LTells, DepthOK, TypeOK, Has, Calling, Entering, Leaving
  <2>3. LTells'
    BY <1>2 DEF ReadL, Goto, lockVars,
       LTells, Exclusive, DepthOK, TypeOK, Has, Calling, Entering, Leaving
  <2>4. DepthOK'
    BY <1>2 DEF ReadL, Goto, lockVars,
       DepthOK, LTells, OwnerOK, TypeOK, Has, Calling, Entering, Leaving
  <2>5. OwnerOK'
    BY <1>2 DEF ReadL, Goto, lockVars,
       OwnerOK, Exclusive, DepthOK, CountOK, TypeOK, Has, Calling, Entering, Leaving
  <2>6. CountOK'
    BY <1>2 DEF ReadL, Goto, lockVars,
       CountOK, LTells, Exclusive, OwnerOK, DepthOK, TypeOK, Has, Calling, Entering, Leaving
  <2> QED
    BY <2>1, <2>2, <2>3, <2>4, <2>5, <2>6
<1>3. ASSUME NEW t \in Threads, TakeAgain(t) PROVE IInv'
  <2>1. TypeOK'
    BY <1>3 DEF TakeAgain, Goto, lockVars,
       TypeOK, OwnerOK, DepthOK, Calling, Entering,
       Leaving
  <2>2. Exclusive'
    BY <1>3 DEF TakeAgain, Goto, lockVars,
       Exclusive, LTells, DepthOK, TypeOK, OwnerOK, CountOK, Has, Calling, Entering, Leaving
  <2>3. LTells'
    BY <1>3 DEF TakeAgain, Goto, lockVars,
       LTells, Exclusive, DepthOK, TypeOK, OwnerOK, CountOK, Has, Calling, Entering, Leaving
  <2>4. DepthOK'
    BY <1>3 DEF TakeAgain, Goto, lockVars,
       DepthOK, LTells, OwnerOK, TypeOK, Has, Calling, Entering, Leaving
  <2>5. OwnerOK'
    BY <1>3 DEF TakeAgain, Goto, lockVars,
       OwnerOK, Exclusive, DepthOK, CountOK, TypeOK, Has, Calling, Entering, Leaving
  <2>6. CountOK'
    BY <1>3 DEF TakeAgain, Goto, lockVars,
       CountOK, LTells, Exclusive, OwnerOK, DepthOK, TypeOK, Has, Calling, Entering, Leaving
  <2> QED
    BY <2>1, <2>2, <2>3, <2>4, <2>5, <2>6
<1>4. ASSUME NEW t \in Threads, OwnedByOther(t) PROVE IInv'
  <2>1. TypeOK'
    BY <1>4 DEF OwnedByOther, Goto, lockVars, NotTaken,
       TypeOK, Calling, Entering, Leaving
  <2>2. Exclusive'
    BY <1>4 DEF OwnedByOther, Goto, lockVars, NotTaken,
       Exclusive, LTells, DepthOK, TypeOK, Has, Calling, Entering, Leaving
  <2>3. LTells'
    BY <1>4 DEF OwnedByOther, Goto, lockVars, NotTaken,
       LTells, Exclusive, DepthOK, TypeOK, Has, Calling, Entering, Leaving
  <2>4. DepthOK'
    BY <1>4 DEF OwnedByOther, Goto, lockVars, NotTaken,
       DepthOK, LTells, OwnerOK, TypeOK, Has, Calling, Entering, Leaving
  <2>5. OwnerOK'
    BY <1>4 DEF OwnedByOther, Goto, lockVars, NotTaken,
       OwnerOK, Exclusive, DepthOK, CountOK, TypeOK, Has, Calling, Entering, Leaving
  <2>6. CountOK'
    BY <1>4 DEF OwnedByOther, Goto, lockVars, NotTaken,
       CountOK, LTells, Exclusive, OwnerOK, DepthOK, TypeOK, Has, Calling, Entering, Leaving
  <2> QED
    BY <2>1, <2>2, <2>3, <2>4, <2>5, <2>6
<1>5. ASSUME NEW t \in Threads, Exchange(t) PROVE IInv'
  <2>1. TypeOK'
    BY <1>5 DEF Exchange, Goto, lockVars,
       TypeOK, Calling, Entering, Leaving
  <2>2. Exclusive'
    BY <1>5 DEF Exchange, Goto, lockVars,
       Exclusive, LTells, DepthOK, TypeOK, Has, Calling, Entering, Leaving
  <2>3. LTells'
    BY <1>5 DEF Exchange, Goto, lockVars,
       LTells, Exclusive, DepthOK, TypeOK, Has, Calling, Entering, Leaving
  <2>4. DepthOK'
    BY <1>5 DEF Exchange, Goto, lockVars,
       DepthOK, LTells, OwnerOK, TypeOK, Has, Calling, Entering, Leaving
  <2>5. OwnerOK'
    BY <1>5 DEF Exchange, Goto, lockVars,
       OwnerOK, Exclusive, DepthOK, CountOK, TypeOK, Has, Calling, Entering, Leaving
  <2>6. CountOK'
    BY <1>5 DEF Exchange, Goto, lockVars,
       CountOK, LTells, Exclusive, OwnerOK, DepthOK, TypeOK, Has, Calling, Entering, Leaving
  <2> QED
    BY <2>1, <2>2, <2>3, <2>4, <2>5, <2>6
<1>6. ASSUME NEW t \in Threads, ExchangeLost(t) PROVE IInv'
  <2>1. TypeOK'
    BY <1>6 DEF ExchangeLost, Goto, lockVars, NotTaken,
       TypeOK, Calling, Entering, Leaving
  <2>2. Exclusive'
    BY <1>6 DEF ExchangeLost, Goto, lockVars, NotTaken,
       Exclusive, LTells, DepthOK, TypeOK, Has, Calling, Entering, Leaving
  <2>3. LTells'
    BY <1>6 DEF ExchangeLost, Goto, lockVars, NotTaken,
       LTells, Exclusive, DepthOK, TypeOK, Has, Calling, Entering, Leaving
  <2>4. DepthOK'
    BY <1>6 DEF ExchangeLost, Goto, lockVars, NotTaken,
       DepthOK, LTells, OwnerOK, TypeOK, Has, Calling, Entering, Leaving
  <2>5. OwnerOK'
    BY <1>6 DEF ExchangeLost, Goto, lockVars, NotTaken,
       OwnerOK, Exclusive, DepthOK, CountOK, TypeOK, Has, Calling, Entering, Leaving
  <2>6. CountOK'
    BY <1>6 DEF ExchangeLost, Goto, lockVars, NotTaken,
       CountOK, LTells, Exclusive, OwnerOK, DepthOK, TypeOK, Has, Calling, Entering, Leaving
  <2> QED
    BY <2>1, <2>2, <2>3, <2>4, <2>5, <2>6
<1>7. ASSUME NEW t \in Threads, SetThreadid(t) PROVE IInv'
  <2>1. TypeOK'
    BY <1>7 DEF SetThreadid, Goto, lockVars,
       TypeOK, Calling, Entering, Leaving
  <2>2. Exclusive'
    BY <1>7 DEF SetThreadid, Goto, lockVars,
       Exclusive, LTells, DepthOK, TypeOK, Has, Calling, Entering, Leaving
  <2>3. LTells'
    BY <1>7 DEF SetThreadid, Goto, lockVars,
       LTells, Exclusive, DepthOK, TypeOK, Has, Calling, Entering, Leaving
  <2>4. DepthOK'
    BY <1>7 DEF SetThreadid, Goto, lockVars,
       DepthOK, LTells, OwnerOK, TypeOK, Has, Calling, Entering, Leaving
  <2>5. OwnerOK'
    BY <1>7 DEF SetThreadid, Goto, lockVars,
       OwnerOK, Exclusive, DepthOK, CountOK, TypeOK, Has, Calling, Entering, Leaving
  <2>6. CountOK'
    BY <1>7 DEF SetThreadid, Goto, lockVars,
       CountOK, LTells, Exclusive, OwnerOK, DepthOK, TypeOK, Has, Calling, Entering, Leaving
  <2> QED
    BY <2>1, <2>2, <2>3, <2>4, <2>5, <2>6
<1>8. ASSUME NEW t \in Threads, SetC(t) PROVE IInv'
  <2>1. TypeOK'
    BY <1>8 DEF SetC, Goto, lockVars,
       TypeOK, Calling, Entering, Leaving
  <2>2. Exclusive'
    BY <1>8 DEF SetC, Goto, lockVars,
       Exclusive, LTells, DepthOK, TypeOK, Has, Calling, Entering, Leaving
  <2>3. LTells'
    BY <1>8 DEF SetC, Goto, lockVars,
       LTells, Exclusive, DepthOK, TypeOK, Has, Calling, Entering, Leaving
  <2>4. DepthOK'
    BY <1>8 DEF SetC, Goto, lockVars,
       DepthOK, LTells, OwnerOK, TypeOK, Has, Calling, Entering, Leaving
  <2>5. OwnerOK'
    BY <1>8 DEF SetC, Goto, lockVars,
       OwnerOK, Exclusive, DepthOK, CountOK, TypeOK, Has, Calling, Entering, Leaving
  <2>6. CountOK'
    BY <1>8 DEF SetC, Goto, lockVars,
       CountOK, LTells, Exclusive, OwnerOK, DepthOK, TypeOK, Has, Calling, Entering, Leaving
  <2> QED
    BY <2>1, <2>2, <2>3, <2>4, <2>5, <2>6
<1>9. ASSUME NEW t \in Threads, Release(t) PROVE IInv'
  <2>1. TypeOK'
    BY <1>9 DEF Release, Goto, lockVars,
       TypeOK, OwnerOK, DepthOK, Calling, Entering,
       Leaving
  <2>2. Exclusive'
    BY <1>9 DEF Release, Goto, lockVars,
       Exclusive, LTells, DepthOK, TypeOK, OwnerOK, CountOK, Has, Calling, Entering, Leaving
  <2>3. LTells'
    BY <1>9 DEF Release, Goto, lockVars,
       LTells, Exclusive, DepthOK, TypeOK, OwnerOK, CountOK, Has, Calling, Entering, Leaving
  <2>4. DepthOK'
    BY <1>9 DEF Release, Goto, lockVars,
       DepthOK, LTells, OwnerOK, TypeOK, Has, Calling, Entering, Leaving
  <2>5. OwnerOK'
    BY <1>9 DEF Release, Goto, lockVars,
       OwnerOK, Exclusive, DepthOK, CountOK, TypeOK, Has, Calling, Entering, Leaving
  <2>6. CountOK'
    BY <1>9 DEF Release, Goto, lockVars,
       CountOK, LTells, Exclusive, OwnerOK, DepthOK, TypeOK, Has, Calling, Entering, Leaving
  <2> QED
    BY <2>1, <2>2, <2>3, <2>4, <2>5, <2>6
<1>10. ASSUME NEW t \in Threads, ClearThreadid(t) PROVE IInv'
  <2>1. TypeOK'
    BY <1>10 DEF ClearThreadid, Goto, lockVars,
       TypeOK, Calling, Entering, Leaving
  <2>2. Exclusive'
    BY <1>10 DEF ClearThreadid, Goto, lockVars,
       Exclusive, LTells, DepthOK, TypeOK, Has, Calling, Entering, Leaving
  <2>3. LTells'
    BY <1>10 DEF ClearThreadid, Goto, lockVars,
       LTells, Exclusive, DepthOK, TypeOK, Has, Calling, Entering, Leaving
  <2>4. DepthOK'
    BY <1>10 DEF ClearThreadid, Goto, lockVars,
       DepthOK, LTells, OwnerOK, TypeOK, Has, Calling, Entering, Leaving
  <2>5. OwnerOK'
    BY <1>10 DEF ClearThreadid, Goto, lockVars,
       OwnerOK, Exclusive, DepthOK, CountOK, TypeOK, Has, Calling, Entering, Leaving
  <2>6. CountOK'
    BY <1>10 DEF ClearThreadid, Goto, lockVars,
       CountOK, LTells, Exclusive, OwnerOK, DepthOK, TypeOK, Has, Calling, Entering, Leaving
  <2> QED
    BY <2>1, <2>2, <2>3, <2>4, <2>5, <2>6
<1>11. ASSUME NEW t \in Threads, ClearL(t) PROVE IInv'
  <2>1. TypeOK'
    BY <1>11 DEF ClearL, Goto, lockVars,
       TypeOK, Calling, Entering, Leaving
  <2>2. Exclusive'
    BY <1>11 DEF ClearL, Goto, lockVars,
       Exclusive, LTells, DepthOK, TypeOK, Has, Calling, Entering, Leaving
  <2>3. LTells'
    BY <1>11 DEF ClearL, Goto, lockVars,
       LTells, Exclusive, DepthOK, TypeOK, Has, Calling, Entering, Leaving
  <2>4. DepthOK'
    BY <1>11 DEF ClearL, Goto, lockVars,
       DepthOK, LTells, OwnerOK, TypeOK, Has, Calling, Entering, Leaving
  <2>5. OwnerOK'
    BY <1>11 DEF ClearL, Goto, lockVars,
       OwnerOK, Exclusive, DepthOK, CountOK, TypeOK, Has, Calling, Entering, Leaving
  <2>6. CountOK'
    BY <1>11 DEF ClearL, Goto, lockVars,
       CountOK, LTells, Exclusive, OwnerOK, DepthOK, TypeOK, Has, Calling, Entering, Leaving
  <2> QED
    BY <2>1, <2>2, <2>3, <2>4, <2>5, <2>6
<1>12. CASE UNCHANGED vars
  BY <1>12 DEF vars, lockVars, TypeOK, Exclusive, LTells, DepthOK, OwnerOK, CountOK,
     Has, Calling, Entering, Leaving
<1> QED
  BY <1>1, <1>2, <1>3, <1>4, <1>5, <1>6, <1>7, <1>8, <1>9, <1>10, <1>11, <1>12 DEF Next, Acquiring, Releasing

\* The values that the refinement mapping gives to the abstract lock.
Owner == IF \E t \in Threads : Has(t) THEN CHOOSE t \in Threads : Has(t)
         ELSE None
Depth == IF \E t \in Threads : pc[t] \in Entering \cup Leaving THEN 1 ELSE c

\* A lock that is being taken or given back counts as taken once.
Mapped ==
  /\ l = 0 => Owner = None /\ Depth = 0
  /\ \A t \in Threads :
       Has(t) => Owner = t /\ Depth = IF depth[t] = 0 THEN 1 ELSE depth[t]

LEMMA MappedInv == IInv => Mapped
<1> SUFFICES ASSUME IInv PROVE Mapped
  OBVIOUS
<1>1. ASSUME l = 0 PROVE Owner = None /\ Depth = 0
  <2>1. \A t \in Threads : ~Has(t)
    <3> SUFFICES ASSUME NEW t \in Threads, Has(t) PROVE FALSE
      BY DEF Has
    <3> QED
      BY <1>1 DEF IInv, LTells
  <2> QED
    BY <1>1, <2>1 DEF Owner, Depth, Has, IInv, CountOK
<1>2. ASSUME NEW t \in Threads, Has(t)
      PROVE Owner = t /\ Depth = IF depth[t] = 0 THEN 1 ELSE depth[t]
  <2>1. \A u \in Threads : Has(u) => u = t
    BY <1>2 DEF IInv, Exclusive
  <2>2. Owner = t
    BY <1>2, <2>1 DEF Owner
  <2>3. CASE depth[t] = 0
    <3>1. pc[t] \in Entering \cup Leaving
      BY <1>2, <2>3 DEF Has
    <3> QED
      BY <2>2, <2>3, <3>1 DEF Depth
  <2>4. CASE depth[t] # 0
    <3>1. depth[t] \in Nat /\ depth[t] > 0
      BY <2>4 DEF IInv, TypeOK
    <3>2. \A u \in Threads : pc[u] \notin Entering \cup Leaving
      <4> SUFFICES ASSUME NEW u \in Threads, pc[u] \in Entering \cup Leaving
                   PROVE  FALSE
        OBVIOUS
      <4>1. Has(u)
        BY DEF Has
      <4> QED
        BY <2>1, <3>1, <4>1 DEF IInv, DepthOK
    <3> QED
      BY <2>2, <3>1, <3>2 DEF Depth, IInv, OwnerOK
  <2> QED
    BY <2>2, <2>3, <2>4
<1> QED
  BY <1>1, <1>2 DEF Mapped

LEMMA MappedNext == IInv' => Mapped'
BY MappedInv, PTL

\* Each access is a step of the abstract lock, or none: the exchange takes it,
\* and the store to l gives it back.
LEMMA StepLock ==
  ASSUME IInv, IInv', [Next]_vars
  PROVE  [Lock!Next]_<<Owner, Depth>>
<1>1. Mapped
  BY MappedInv
<1>2. Mapped'
  BY MappedNext
<1> USE DEF IInv
<1>3. ASSUME NEW t \in Threads,
             Call(t) \/ ReadL(t) \/ OwnedByOther(t) \/ ExchangeLost(t)
      PROVE  UNCHANGED <<Owner, Depth>>
  <2>1. /\ c' = c
        /\ \A u \in Threads : /\ Has(u)' <=> Has(u)
                              /\ (pc[u] \in Entering \cup Leaving)'
                                   <=> pc[u] \in Entering \cup Leaving
    BY <1>3 DEF Call, ReadL, OwnedByOther, ExchangeLost, NotTaken, Goto, lockVars, Has,
       Entering, Leaving, TypeOK
  <2> QED
    BY <2>1 DEF Owner, Depth
<1>4. ASSUME NEW t \in Threads, TakeAgain(t) PROVE Lock!TakeAgain(t)
  <2>1. depth[t] \in Nat /\ depth[t] > 0
    BY <1>4 DEF TakeAgain, OwnerOK, TypeOK, Entering, Leaving
  <2>2. Has(t) /\ Has(t)' /\ depth'[t] = depth[t] + 1
    BY <1>4, <2>1 DEF TakeAgain, Has, TypeOK
  <2> QED
    <3>1. Owner = t /\ Owner' = t /\ Depth' = Depth + 1
      BY <1>1, <1>2, <2>1, <2>2 DEF Mapped
    <3> QED
      BY <3>1 DEF Lock!TakeAgain, Owner, Depth
<1>5. ASSUME NEW t \in Threads, Exchange(t) PROVE Lock!Take(t)
  <2>1. l = 0 /\ Has(t)' /\ depth'[t] = 0
    BY <1>5 DEF Exchange, Goto, Has, Entering, TypeOK, DepthOK
  <2> QED
    BY <1>1, <1>2, <2>1 DEF Mapped, Lock!Take, Owner, Depth
<1>6. ASSUME NEW t \in Threads, SetThreadid(t) \/ ClearThreadid(t)
      PROVE  UNCHANGED <<Owner, Depth>>
  <2>1. Has(t) /\ Has(t)' /\ depth'[t] = depth[t]
    BY <1>6 DEF SetThreadid, ClearThreadid, Goto, Has, Entering, Leaving, TypeOK
  <2> QED
    BY <1>1, <1>2, <2>1 DEF Mapped
<1>7. ASSUME NEW t \in Threads, SetC(t) PROVE UNCHANGED <<Owner, Depth>>
  <2>1. Has(t) /\ Has(t)' /\ depth[t] = 0 /\ depth'[t] = 1
    BY <1>7 DEF SetC, Goto, Has, Entering, Leaving, TypeOK, DepthOK
  <2> QED
    BY <1>1, <1>2, <2>1 DEF Mapped
<1>8. ASSUME NEW t \in Threads, Release(t)
      PROVE  Lock!Give(t) \/ UNCHANGED <<Owner, Depth>>
  <2>1. /\ depth[t] \in Nat /\ depth[t] > 0 /\ Has(t) /\ c = depth[t]
        /\ depth'[t] = depth[t] - 1
    BY <1>8 DEF Release, Has, TypeOK, OwnerOK
  <2>2. CASE depth[t] = 1
    <3>1. Has(t)'
      BY <1>8, <2>1, <2>2 DEF Release, Goto, Has, Leaving, TypeOK
    <3> QED
      BY <1>1, <1>2, <2>1, <2>2, <3>1 DEF Mapped
  <2>3. CASE depth[t] # 1
    <3>1. Has(t)' /\ depth'[t] # 0
      BY <2>1, <2>3 DEF Has
    <3> QED
      <4>1. Owner = t /\ Owner' = t /\ Depth # 1 /\ Depth' = Depth - 1
        BY <1>1, <1>2, <2>1, <2>3, <3>1 DEF Mapped
      <4> QED
        BY <4>1 DEF Lock!Give, Owner, Depth
  <2> QED
    BY <2>2, <2>3
<1>9. ASSUME NEW t \in Threads, ClearL(t) PROVE Lock!Give(t)
  <2>1. Has(t) /\ depth[t] = 0 /\ l' = 0
    BY <1>9 DEF ClearL, Has, Leaving, DepthOK
  <2> QED
    BY <1>1, <1>2, <2>1 DEF Mapped, Lock!Give, Owner, Depth
<1>10. ASSUME UNCHANGED vars PROVE UNCHANGED <<Owner, Depth>>
  BY <1>10 DEF vars, lockVars, Owner, Depth, Has
<1> QED
  BY <1>3, <1>4, <1>5, <1>6, <1>7, <1>8, <1>9, <1>10
     DEF Next, Acquiring, Releasing, Lock!Next

------------------------------------------------------------------------------
LEMMA SpecInv == ASSUME Parameters PROVE Spec => []IInv
<1>1. Init => IInv
  BY InitInv
<1>2. IInv /\ [Next]_vars => IInv'
  BY StepInv
<1> QED
  BY <1>1, <1>2, PTL DEF Spec

\* Every variable of the lock keeps its range: c is never decremented below
\* zero.
THEOREM TypeCorrect == ASSUME Parameters PROVE Spec => []TypeOK
<1>1. Spec => []IInv
  BY SpecInv
<1> QED
  BY <1>1, PTL DEF IInv

\* Two threads never have the lock, for any number of threads.
THEOREM MutualExclusion == ASSUME Parameters PROVE Spec => []Exclusive
<1>1. Spec => []IInv
  BY SpecInv
<1> QED
  BY <1>1, PTL DEF IInv

\* The assertion of win32_acquire_lock and win32_try_lock holds: the thread that
\* had the lock before has cleared threadid.
THEOREM OwnerCleared == ASSUME Parameters PROVE Spec => []ThreadidCleared
<1>1. IInv => ThreadidCleared
  BY DEF IInv, TypeOK, Exclusive, DepthOK, OwnerOK, ThreadidCleared, Has, Entering,
     Leaving
<1>2. Spec => []IInv
  BY SpecInv
<1> QED
  BY <1>1, <1>2, PTL

\* A thread that owns the lock takes it again whenever it asks for it.
THEOREM Recursion == ASSUME Parameters PROVE Spec => []NeverWaitsForItself
<1>1. IInv => NeverWaitsForItself
  BY DEF IInv, TypeOK, OwnerOK, DepthOK, NeverWaitsForItself
<1>2. Spec => []IInv
  BY SpecInv
<1> QED
  BY <1>1, <1>2, PTL

\* The spin lock is a recursive lock.
THEOREM Refinement == ASSUME Parameters PROVE Spec => ImplementsLock
<1>1. Init => Lock!Init
  BY InitInv, MappedInv DEF Init, Mapped, Lock!Init, Owner, Depth
<1>2. IInv /\ IInv' /\ [Next]_vars => [Lock!Next]_<<Owner, Depth>>
  BY StepLock
<1>3. Spec => []IInv
  BY SpecInv
<1> QED
  BY <1>1, <1>2, <1>3, PTL DEF Spec, ImplementsLock, Lock!Spec, Owner, Depth

------------------------------------------------------------------------------
\* The recognition of blocks

\* Without a race, what a thread has tested still holds when it writes, and what
\* it has brought up to date covers its block.
UpToDate ==
  ~raced =>
    /\ leastusedaddress = 0 => live = {}
    /\ \A t \in Threads :
         /\ place[t] = "set_least" => tested[t] = 0 \/ ret[t].mspace < tested[t]
         /\ place[t] = "set_largest" => tested[t] = 0 \/ ret[t].size > tested[t]
         /\ place[t] \in {"largest", "set_largest"} =>
              leastusedaddress # 0 /\ leastusedaddress <= ret[t].mspace

DetectionInv == Detection!TypeOK /\ Detection!InBounds /\ UpToDate /\ Detection!AbortOnlyAfterRace

\* A size rounded up to pages is no smaller.
LEMMA PagesBound ==
  ASSUME Detection!Parameters, NEW size \in Nat
  PROVE  Detection!Pages(size) \in Nat /\ Detection!Pages(size) >= size
BY DEF Detection!Pages, Detection!Parameters

LEMMA DetectionInit == Detection!Parameters /\ Detection!Init => DetectionInv
<1> SUFFICES ASSUME Detection!Parameters, Detection!Init PROVE DetectionInv
  OBVIOUS
<1> USE DEF Detection!Parameters
<1>1. Detection!NoBlock \in Detection!Blocks
  BY DEF Detection!NoBlock, Detection!Blocks, Detection!Mspaces, Detection!Sizes
<1>2. Detection!TypeOK
  <2>1. ret \in [Threads -> Detection!Blocks]
    BY <1>1 DEF Detection!Init
  <2>2. leastusedaddress \in 0 .. N /\ largestusedblock \in Nat /\ live \subseteq Detection!Blocks
    BY DEF Detection!Init
  <2>3. tested \in [Threads -> Nat] /\ aborted \in BOOLEAN /\ raced \in BOOLEAN
    BY DEF Detection!Init
  <2>4. /\ place \in [Threads -> {"idle", "least", "set_least", "largest", "set_largest"}]
        /\ caller \in [Threads -> {"nedpmalloc2", "AllocCache"}]
    BY DEF Detection!Init
  <2> QED
    BY <2>1, <2>2, <2>3, <2>4 DEF Detection!TypeOK
<1>3. Detection!InBounds /\ UpToDate /\ Detection!AbortOnlyAfterRace
  BY DEF Detection!Init, Detection!InBounds, UpToDate, Detection!AbortOnlyAfterRace
<1> QED
  BY <1>2, <1>3 DEF DetectionInv

LEMMA DetectionStep == Detection!Parameters /\ DetectionInv /\ [Detection!Next]_Detection!vars => DetectionInv'
<1> SUFFICES ASSUME Detection!Parameters, DetectionInv,
   [Detection!Next]_Detection!vars PROVE DetectionInv'
  OBVIOUS
<1> USE DEF Detection!Parameters
<1> USE DEF DetectionInv
<1>1. ASSUME NEW t \in Threads, NEW who \in {"nedpmalloc2", "AllocCache"},
             NEW b \in Detection!Blocks, Detection!Malloc(t, who, b)
      PROVE  DetectionInv'
  <2>1. Detection!TypeOK'
    BY <1>1 DEF Detection!Malloc, Detection!Goto, Detection!TypeOK, Detection!NoBlock,
       Detection!Blocks, Detection!Mspaces, Detection!Sizes
  <2>2. Detection!InBounds'
    BY <1>1 DEF Detection!Malloc, Detection!Goto, Detection!TypeOK, Detection!NoBlock,
       Detection!Blocks, Detection!Mspaces, Detection!Sizes,
       Detection!InBounds, UpToDate, Detection!Recognised
  <2>3. UpToDate'
    BY <1>1 DEF Detection!Malloc, Detection!Goto, Detection!TypeOK, Detection!NoBlock,
       Detection!Blocks, Detection!Mspaces, Detection!Sizes,
       UpToDate, Detection!InBounds, Detection!Recognised
  <2>4. Detection!AbortOnlyAfterRace'
    BY <1>1 DEF Detection!Malloc, Detection!Goto, Detection!TypeOK, Detection!NoBlock,
       Detection!Blocks, Detection!Mspaces, Detection!Sizes,
       Detection!AbortOnlyAfterRace, Detection!InBounds, Detection!Recognised
  <2> QED
    BY <2>1, <2>2, <2>3, <2>4
<1>2. ASSUME NEW t \in Threads, Detection!TestLeast(t)
      PROVE  DetectionInv'
  <2>1. Detection!TypeOK'
    BY <1>2 DEF Detection!TestLeast, Detection!Goto, Detection!TypeOK, Detection!NoBlock,
       Detection!Blocks, Detection!Mspaces, Detection!Sizes
  <2>2. Detection!InBounds'
    BY <1>2 DEF Detection!TestLeast, Detection!Goto, Detection!TypeOK, Detection!NoBlock,
       Detection!Blocks, Detection!Mspaces, Detection!Sizes,
       Detection!InBounds, UpToDate, Detection!Recognised
  <2>3. UpToDate'
    BY <1>2 DEF Detection!TestLeast, Detection!Goto, Detection!TypeOK, Detection!NoBlock,
       Detection!Blocks, Detection!Mspaces, Detection!Sizes,
       UpToDate, Detection!InBounds, Detection!Recognised
  <2>4. Detection!AbortOnlyAfterRace'
    BY <1>2 DEF Detection!TestLeast, Detection!Goto, Detection!TypeOK, Detection!NoBlock,
       Detection!Blocks, Detection!Mspaces, Detection!Sizes,
       Detection!AbortOnlyAfterRace, Detection!InBounds, Detection!Recognised
  <2> QED
    BY <2>1, <2>2, <2>3, <2>4
<1>3. ASSUME NEW t \in Threads, Detection!SetLeast(t)
      PROVE  DetectionInv'
  <2>a. ASSUME ~raced'
        PROVE  /\ ~raced
               /\ leastusedaddress = 0 \/ ret[t].mspace < leastusedaddress
    <3>1. ~raced /\ leastusedaddress = tested[t]
      BY ONLY <1>3, <2>a, ZenonT(20) DEF Detection!SetLeast
    <3> QED
      BY <1>3, <3>1 DEF UpToDate, Detection!SetLeast
  <2>b. ret[t] \in Detection!Blocks /\ ret[t].mspace \in Detection!Mspaces /\ ret[t].size \in Detection!Sizes
    BY DEF Detection!TypeOK, Detection!Blocks
  <2>1. Detection!TypeOK'
    BY <1>3, <2>a, <2>b DEF Detection!SetLeast, Detection!Goto, Detection!TypeOK,
       Detection!NoBlock, Detection!Blocks, Detection!Mspaces, Detection!Sizes
  <2>2. Detection!InBounds'
    BY <1>3, <2>a, <2>b DEF Detection!SetLeast, Detection!Goto, Detection!TypeOK,
       Detection!NoBlock, Detection!Blocks, Detection!Mspaces, Detection!Sizes,
       Detection!InBounds, UpToDate, Detection!Recognised
  <2>3. UpToDate'
    BY <1>3, <2>a, <2>b DEF Detection!SetLeast, Detection!Goto, Detection!TypeOK,
       Detection!NoBlock, Detection!Blocks, Detection!Mspaces, Detection!Sizes,
       UpToDate, Detection!InBounds, Detection!Recognised
  <2>4. Detection!AbortOnlyAfterRace'
    BY <1>3, <2>a, <2>b DEF Detection!SetLeast, Detection!Goto, Detection!TypeOK,
       Detection!NoBlock, Detection!Blocks, Detection!Mspaces, Detection!Sizes,
       Detection!AbortOnlyAfterRace, Detection!InBounds, Detection!Recognised
  <2> QED
    BY <2>1, <2>2, <2>3, <2>4
<1>4. ASSUME NEW t \in Threads, Detection!TestLargest(t)
      PROVE  DetectionInv'
  <2>a. Detection!NoBlock \in Detection!Blocks
    BY DEF Detection!NoBlock, Detection!Blocks, Detection!Mspaces, Detection!Sizes
  <2>1. Detection!TypeOK'
    BY <1>4, <2>a DEF Detection!TestLargest, Detection!Return, Detection!Goto,
       Detection!TypeOK
  <2>2. Detection!InBounds'
    BY <1>4, <2>a DEF Detection!TestLargest, Detection!Return, Detection!Goto,
       Detection!TypeOK, Detection!NoBlock, Detection!Blocks, Detection!Mspaces,
          Detection!Sizes,
       Detection!InBounds, UpToDate, Detection!Recognised
  <2>3. UpToDate'
    BY <1>4, <2>a DEF Detection!TestLargest, Detection!Return, Detection!Goto,
       Detection!TypeOK, Detection!NoBlock, Detection!Blocks, Detection!Mspaces,
          Detection!Sizes,
       UpToDate, Detection!InBounds, Detection!Recognised
  <2>4. Detection!AbortOnlyAfterRace'
    BY <1>4, <2>a DEF Detection!TestLargest, Detection!Return, Detection!Goto,
       Detection!TypeOK, Detection!NoBlock, Detection!Blocks, Detection!Mspaces,
          Detection!Sizes,
       Detection!AbortOnlyAfterRace, Detection!InBounds, Detection!Recognised
  <2> QED
    BY <2>1, <2>2, <2>3, <2>4
<1>5. ASSUME NEW t \in Threads, Detection!SetLargest(t)
      PROVE  DetectionInv'
  <2>0. Detection!Pages(ret[t].size) \in Nat /\ Detection!Pages(ret[t].size) >= ret[t].size
    BY PagesBound DEF Detection!TypeOK, Detection!Blocks, Detection!Sizes
  <2>a. ASSUME ~raced'
        PROVE  /\ ~raced
               /\ largestusedblock = 0 \/ ret[t].size > largestusedblock
    <3>1. ~raced /\ largestusedblock = tested[t]
      BY ONLY <1>5, <2>a, ZenonT(20) DEF Detection!SetLargest
    <3> QED
      BY <1>5, <3>1 DEF UpToDate, Detection!SetLargest
  <2>b. ret[t] \in Detection!Blocks /\ ret[t].mspace \in Detection!Mspaces /\ ret[t].size \in Detection!Sizes
    BY DEF Detection!TypeOK, Detection!Blocks
  <2>1. Detection!TypeOK'
    BY <1>5, <2>0, <2>a, <2>b DEF Detection!SetLargest, Detection!Return, Detection!Goto,
       Detection!TypeOK, Detection!NoBlock, Detection!Blocks, Detection!Mspaces,
          Detection!Sizes
  <2>2. Detection!InBounds'
    BY <1>5, <2>0, <2>a, <2>b DEF Detection!SetLargest, Detection!Return, Detection!Goto,
       Detection!TypeOK, Detection!NoBlock, Detection!Blocks, Detection!Mspaces,
          Detection!Sizes,
       Detection!InBounds, UpToDate, Detection!Recognised
  <2>3. UpToDate'
    BY <1>5, <2>0, <2>a, <2>b DEF Detection!SetLargest, Detection!Return, Detection!Goto,
       Detection!TypeOK, Detection!NoBlock, Detection!Blocks, Detection!Mspaces,
          Detection!Sizes,
       UpToDate, Detection!InBounds, Detection!Recognised
  <2>4. Detection!AbortOnlyAfterRace'
    BY <1>5, <2>0, <2>a, <2>b DEF Detection!SetLargest, Detection!Return, Detection!Goto,
       Detection!TypeOK, Detection!NoBlock, Detection!Blocks, Detection!Mspaces,
          Detection!Sizes,
       Detection!AbortOnlyAfterRace, Detection!InBounds, Detection!Recognised
  <2> QED
    BY <2>1, <2>2, <2>3, <2>4
<1>6. ASSUME NEW b \in Detection!Blocks, Detection!Free(b)
      PROVE  DetectionInv'
  <2>1. Detection!TypeOK'
    BY <1>6 DEF Detection!Free, Detection!Goto, Detection!TypeOK, Detection!NoBlock,
       Detection!Blocks, Detection!Mspaces, Detection!Sizes
  <2>2. Detection!InBounds'
    BY <1>6 DEF Detection!Free, Detection!Goto, Detection!TypeOK, Detection!NoBlock,
       Detection!Blocks, Detection!Mspaces, Detection!Sizes,
       Detection!InBounds, UpToDate, Detection!Recognised
  <2>3. UpToDate'
    BY <1>6 DEF Detection!Free, Detection!Goto, Detection!TypeOK, Detection!NoBlock,
       Detection!Blocks, Detection!Mspaces, Detection!Sizes,
       UpToDate, Detection!InBounds, Detection!Recognised
  <2>4. Detection!AbortOnlyAfterRace'
    BY <1>6 DEF Detection!Free, Detection!Goto, Detection!TypeOK, Detection!NoBlock,
       Detection!Blocks, Detection!Mspaces, Detection!Sizes,
       Detection!AbortOnlyAfterRace, Detection!InBounds, Detection!Recognised
  <2> QED
    BY <2>1, <2>2, <2>3, <2>4
<1>7. CASE UNCHANGED Detection!vars
  BY <1>7 DEF Detection!vars, Detection!TypeOK, Detection!InBounds, UpToDate,
     Detection!AbortOnlyAfterRace, Detection!Recognised
<1> QED
  BY <1>1, <1>2, <1>3, <1>4, <1>5, <1>6, <1>7 DEF Detection!Next

------------------------------------------------------------------------------
LEMMA DetectionInvariance == ASSUME Detection!Parameters PROVE Detection!Spec => []DetectionInv
<1>1. Detection!Init => DetectionInv
  BY DetectionInit
<1>2. DetectionInv /\ [Detection!Next]_Detection!vars => DetectionInv'
  BY DetectionStep
<1> QED
  BY <1>1, <1>2, PTL DEF Detection!Spec

\* Every variable keeps its range.
THEOREM DetectionTypeCorrect == ASSUME Detection!Parameters PROVE Detection!Spec => []Detection!TypeOK
<1>1. Detection!Spec => []DetectionInv
  BY DetectionInvariance
<1> QED
  BY <1>1, PTL DEF DetectionInv

\* nedpfree2 ends the program for a block of the allocator only after two
\* threads have overwritten each other's record of what the blocks are.
THEOREM AbortNeedsRace == ASSUME Detection!Parameters PROVE Detection!Spec => []Detection!AbortOnlyAfterRace
<1>1. Detection!Spec => []DetectionInv
  BY DetectionInvariance
<1> QED
  BY <1>1, PTL DEF DetectionInv

\* No step but a race narrows what is recognised.
LEMMA StepWidens ==
  ASSUME Detection!Parameters, DetectionInv, [Detection!Next]_Detection!vars, ~raced'
  PROVE  /\ leastusedaddress # 0 => leastusedaddress' <= leastusedaddress
         /\ largestusedblock' >= largestusedblock
<1> USE DEF DetectionInv
<1>1. ASSUME NEW t \in Threads, Detection!SetLeast(t)
      PROVE  /\ leastusedaddress # 0 => leastusedaddress' <= leastusedaddress
             /\ largestusedblock' >= largestusedblock
  <2>1. ~raced /\ leastusedaddress = tested[t]
    BY ONLY ~raced', <1>1, ZenonT(20) DEF Detection!SetLeast
  <2>2. leastusedaddress = 0 \/ ret[t].mspace < leastusedaddress
    BY <1>1, <2>1 DEF Detection!SetLeast, UpToDate
  <2> QED
    BY <1>1, <2>2 DEF Detection!SetLeast, Detection!TypeOK, Detection!Blocks,
       Detection!Mspaces
<1>2. ASSUME NEW t \in Threads, Detection!SetLargest(t)
      PROVE  /\ leastusedaddress # 0 => leastusedaddress' <= leastusedaddress
             /\ largestusedblock' >= largestusedblock
  <2>1. Detection!Pages(ret[t].size) \in Nat /\ Detection!Pages(ret[t].size) >= ret[t].size
    BY PagesBound DEF Detection!TypeOK, Detection!Blocks, Detection!Sizes
  <2> QED
    <3>1. ~raced /\ largestusedblock = tested[t]
      BY ONLY ~raced', <1>2, ZenonT(20) DEF Detection!SetLargest
    <3>2. largestusedblock = 0 \/ ret[t].size > largestusedblock
      BY <1>2, <3>1 DEF Detection!SetLargest, UpToDate
    <3> QED
      BY <1>2, <2>1, <3>2 DEF Detection!SetLargest, Detection!TypeOK, Detection!Blocks,
         Detection!Sizes
<1>3. CASE UNCHANGED <<leastusedaddress, largestusedblock>>
  BY <1>3 DEF Detection!TypeOK
<1> QED
  BY <1>1, <1>2, <1>3 DEF Detection!Next, Detection!Malloc, Detection!TestLeast,
     Detection!TestLargest, Detection!Free, Detection!vars

\* The two variables only widen what is recognised until such a race.
THEOREM Widens == ASSUME Detection!Parameters PROVE Detection!Spec => Detection!OnlyRaceNarrows
<1>1. Detection!Spec => []DetectionInv
  BY DetectionInvariance
<1>2. DetectionInv /\ [Detection!Next]_Detection!vars
        => [~raced' => /\ leastusedaddress # 0 => leastusedaddress' <= leastusedaddress
                       /\ largestusedblock' >= largestusedblock]_Detection!vars
  BY StepWidens
<1> QED
  BY <1>1, <1>2, PTL DEF Detection!Spec, Detection!OnlyRaceNarrows

==============================================================================
