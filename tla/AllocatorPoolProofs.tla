------------------------- MODULE AllocatorPoolProofs -------------------------
(***************************************************************************)
(* Proofs about AllocatorPool, for any number of threads, mspaces, entries *)
(* of the pool's arrays m and caches.                                      *)
(***************************************************************************)
EXTENDS AllocatorPool, FiniteSetTheorems, WellFoundedInduction, TLAPS

\* A thread that tries mspaces has gone through all of them below end.
Scanning == {"scan_up", "scan_down", "create", "install_lock", "install"}

\* InitPool: the first mspace is there before threads is set, and is made once.
InitOK ==
  /\ \A t \in Threads : pc[t] \in {"init_mspace", "init_threads"} =>
                          global_mutex = t /\ limit = 0
  /\ \A t \in Threads : pc[t] = "init_mspace" => \A i \in Index : m[i] = None
  /\ \A t \in Threads : pc[t] = "init_threads" => m[0] # None
  /\ \A t \in Threads : pc[t] \notin {"idle"} \cup InitLabels => limit # 0
  /\ limit # 0 => m[0] # None
  /\ limit = 0 /\ global_mutex = None => \A i \in Index : m[i] = None

\* The mutex of the pool.
MutexOK ==
  \A t \in Threads :
    pc[t] \in {"alloc_scan", "alloc_memory", "install", "install_take"} => mutex = t

\* An mspace that is made and not in the pool yet is of one thread.
TempOK ==
  /\ \A t \in Threads : temp[t] # None <=> pc[t] \in {"install_lock", "install"}
  /\ \A t \in Threads : temp[t] # None => \A i \in Index : m[i] # temp[t]
  /\ \A t, u \in Threads : temp[t] # None /\ temp[t] = temp[u] => t = u

\* What thread t knows: its mspace exists, and its cache is its own.
MspaceOK(t) ==
  /\ pc[t] \in {"use", "held"} \cup FindLabels => m[mymspace[t]] # None
  /\ pc[t] \in Scanning => \A i \in 0 .. end[t] - 1 : m[i] # None
  /\ pc[t] = "scan_up" => n[t] = end[t]
  /\ pc[t] = "install_take" => m[end[t]] # None
  /\ tls[t] < 0 => m[-tls[t] - 1] # None

CacheOK(t) ==
  /\ tls[t] > 0 => caches[tls[t]] = t
  /\ pc[t] \in AllocLabels => tls[t] = 0
  /\ pc[t] \in {"use", "held"} \cup FindLabels =>
       IF tc[t] # 0 THEN tls[t] = tc[t] ELSE tls[t] < 0
  /\ pc[t] \in {"idle", "tls", "alloc"} \cup InitLabels => tc[t] = 0
  /\ pc[t] = "alloc_memory" => tc[t] \in Slots /\ caches[tc[t]] = None
  /\ pc[t] \in {"alloc_tls", "disable_free"} => tc[t] \in Slots /\ caches[tc[t]] = t
  /\ pc[t] = "disable_free" => tls[t] <= 0

\* The mspace a cache prefers exists.
CachesOK == \A k \in Slots : caches[k] # None => m[cache_mspace[k]] # None

Taken   == {k \in Slots : caches[k] # None}
Holders == {t \in Threads : Holding(t)}
Accounted ==
  /\ IsFiniteSet(Holders)
  /\ Cardinality(Taken) = Cardinality(Holders) + ended

IInv ==
  /\ TypeOK
  /\ InitOK
  /\ MutexOK
  /\ MspacesInOrder
  /\ TempOK
  /\ \A t \in Threads : MspaceOK(t) /\ CacheOK(t)
  /\ CachesOK
  /\ LockedForUse
  /\ Accounted

USE NoneAssumption, SizeAssumption
------------------------------------------------------------------------------
\* What a step of thread t leaves alone of thread u, and what it may do to the
\* locks.
MutexLabels == {"alloc_scan", "alloc_memory", "install", "install_take"}

Still(u) ==
  /\ pc'[u] = pc[u] /\ tc'[u] = tc[u] /\ mymspace'[u] = mymspace[u]
  /\ n'[u] = n[u] /\ end'[u] = end[u] /\ temp'[u] = temp[u] /\ tls'[u] = tls[u]

LocksOK(t) ==
  /\ mutex' = mutex \/ mutex \in {None, t}
  /\ pc'[t] \in MutexLabels => mutex' = t
  /\ \A s \in Mspaces : lock'[s] = lock[s] \/ lock[s] \in {None, t}
  /\ pc'[t] = "held" => lock'[m'[mymspace'[t]]] = t

\* A thread that takes no step keeps what it knows: mspaces stay in the pool, and
\* an entry of caches is changed by its owner, or under the mutex when it is free.
LEMMA OthersKept ==
  ASSUME TypeOK, NEW u \in Threads, MspaceOK(u), CacheOK(u),
         Still(u),
         \A i \in Index : m[i] # None => m'[i] = m[i],
         \A k \in Slots : caches[k] = u => caches'[k] = u,
         pc[u] = "alloc_memory" => caches'[tc[u]] = None
  PROVE  MspaceOK(u)' /\ CacheOK(u)'
<1> USE DEF Still
<1>1. MspaceOK(u)'
  <2>1. /\ mymspace[u] \in Index /\ end[u] \in Index
        /\ tls[u] < 0 => -tls[u] - 1 \in Index
    <3>1. tls[u] \in -MaxThreads .. MaxCaches
      BY DEF TypeOK
    <3>2. tls[u] < 0 => -tls[u] - 1 \in Index
      BY <3>1 DEF Index
    <3> QED
      BY <3>2 DEF TypeOK
  <2>2. \A i \in 0 .. end[u] - 1 : i \in Index
    BY <2>1 DEF Index
  <2> QED
    BY <2>1, <2>2 DEF MspaceOK
<1>2. CacheOK(u)'
  <2>1. tls[u] > 0 => tls[u] \in Slots
    BY DEF TypeOK, Slots
  <2> QED
    BY <2>1 DEF CacheOK
<1> QED
  BY <1>1, <1>2

\* A step of one thread, from what it does to the shared variables and what it
\* knows afterwards.
LEMMA StepIInv ==
  ASSUME IInv, NEW t \in Threads,
         TypeOK', InitOK', MspacesInOrder', TempOK', CachesOK', Accounted',
         \A u \in Threads \ {t} : Still(u),
         LocksOK(t),
         \A i \in Index : m[i] # None => m'[i] = m[i],
         \A k \in Slots : \/ caches'[k] = caches[k]
                          \/ caches[k] \in {None, t} /\ mutex = t
                          \/ caches[k] = t /\ caches'[k] = None /\ pc[t] = "disable_free",
         MspaceOK(t)', CacheOK(t)'
  PROVE  IInv'
<1> USE DEF IInv, LocksOK, Still
<1>1. MutexOK'
  BY DEF MutexOK, MutexLabels
<1>2. ASSUME NEW u \in Threads PROVE MspaceOK(u)' /\ CacheOK(u)'
  <2>1. CASE u = t
    BY <2>1
  <2>2. CASE u # t
    <3>1. pc[u] = "alloc_memory" => mutex = u
      BY DEF MutexOK
    <3>2. \A k \in Slots : caches[k] = u => caches'[k] = u
      BY <2>2
    <3>3. pc[u] = "alloc_memory" => caches[tc[u]] = None /\ tc[u] \in Slots
      BY DEF CacheOK
    <3>4. pc[u] = "alloc_memory" => caches'[tc[u]] = None
      BY <2>2, <3>1, <3>3
    <3>5. MspaceOK(u)' /\ CacheOK(u)'
      BY <2>2, <3>2, <3>4, OthersKept
    <3> QED
      BY <3>5
  <2> QED
    BY <2>1, <2>2
<1>3. LockedForUse'
  <2> SUFFICES ASSUME NEW u \in Threads, pc'[u] = "held"
               PROVE  m'[mymspace'[u]] # None /\ lock'[m'[mymspace'[u]]] = u
    BY DEF LockedForUse
  <2>1. CASE u = t
    BY <1>2, <2>1 DEF MspaceOK
  <2>2. CASE u # t
    <3>1. pc[u] = "held" /\ mymspace'[u] = mymspace[u]
      BY <2>2
    <3>2. m[mymspace[u]] # None /\ lock[m[mymspace[u]]] = u /\ mymspace[u] \in Index
      BY <3>1 DEF LockedForUse, TypeOK
    <3>3. m'[mymspace[u]] = m[mymspace[u]] /\ m[mymspace[u]] \in Mspaces
      BY <3>2 DEF TypeOK
    <3> QED
      BY <2>2, <3>1, <3>2, <3>3
  <2> QED
    BY <2>1, <2>2
<1> QED
  BY <1>1, <1>2, <1>3

\* The entries that are taken, and the threads that hold one, as they were.
LEMMA AccountedKept ==
  ASSUME Accounted, UNCHANGED ended,
         \A k \in Slots : caches'[k] # None <=> caches[k] # None,
         \A u \in Threads : Holding(u)' <=> Holding(u)
  PROVE  Accounted'
<1>1. Taken' = Taken
  BY DEF Taken
<1>2. Holders' = Holders
  BY DEF Holders
<1> QED
  BY <1>1, <1>2 DEF Accounted

LEMMA HoldingStill ==
  ASSUME NEW u \in Threads, Still(u)
  PROVE  Holding(u)' <=> Holding(u)
BY DEF Holding, Still

\* A step after InitPool that leaves the pool's mspaces and the owners of the
\* caches alone.
LEMMA QuietIInv ==
  ASSUME IInv, NEW t \in Threads, TypeOK',
         UNCHANGED <<limit, global_mutex, m, caches, ended>>,
         pc[t] \notin {"idle"} \cup InitLabels, pc'[t] \notin InitLabels,
         \A u \in Threads \ {t} : Still(u),
         LocksOK(t),
         \A k \in Slots : caches[k] # None => m[cache_mspace'[k]] # None,
         \/ temp'[t] \in {temp[t], None}
         \/ temp'[t] \notin Created,
         temp'[t] # None <=> pc'[t] \in {"install_lock", "install"},
         Holding(t)' <=> Holding(t),
         MspaceOK(t)', CacheOK(t)'
  PROVE  IInv'
<1> USE DEF IInv
<1>1. InitOK'
  BY DEF InitOK, InitLabels, Still
<1>2. MspacesInOrder'
  BY DEF MspacesInOrder
<1>3. TempOK'
  <2>1. \A u \in Threads : temp'[u] # None <=> pc'[u] \in {"install_lock", "install"}
    BY DEF TempOK, Still
  <2>2. \A u \in Threads : temp'[u] # None => \A i \in Index : m'[i] # temp'[u]
    BY DEF TempOK, Still, Created
  <2>3. \A v, u \in Threads : temp'[v] # None /\ temp'[v] = temp'[u] => v = u
    BY DEF TempOK, Still, Created
  <2> QED
    BY <2>1, <2>2, <2>3 DEF TempOK
<1>4. CachesOK'
  BY DEF CachesOK
<1>5. Accounted'
  BY AccountedKept, HoldingStill
<1> QED
  BY <1>1, <1>2, <1>3, <1>4, <1>5, StepIInv

\* A thread that returns keeps its cache and frees whatever lock it held.
LEMMA ReturnsOK ==
  ASSUME IInv, NEW t \in Threads, Return(t)
  PROVE  /\ \A u \in Threads \ {t} :
              /\ pc'[u] = pc[u] /\ tc'[u] = tc[u] /\ mymspace'[u] = mymspace[u]
              /\ n'[u] = n[u] /\ end'[u] = end[u] /\ temp'[u] = temp[u]
         /\ pc'[t] = "idle" /\ tc'[t] = 0 /\ temp'[t] = None
         /\ pc' \in [Threads -> Labels]
         /\ op' \in [Threads -> {"memory", "disable"}]
         /\ tc' \in [Threads -> 0 .. MaxCaches]
         /\ mymspace' \in [Threads -> Index]
         /\ n' \in [Threads -> Index]
         /\ end' \in [Threads -> Index]
         /\ temp' \in [Threads -> Mspaces \cup {None}]
<1>1. /\ pc \in [Threads -> Labels]
      /\ op \in [Threads -> {"memory", "disable"}]
      /\ tc \in [Threads -> 0 .. MaxCaches]
      /\ mymspace \in [Threads -> Index]
      /\ n \in [Threads -> Index]
      /\ end \in [Threads -> Index]
      /\ temp \in [Threads -> Mspaces \cup {None}]
  BY DEF IInv, TypeOK
<1>2. 0 \in Index /\ 0 \in 0 .. MaxCaches /\ "idle" \in Labels
  BY DEF Index, Labels
<1> QED
  BY <1>1, <1>2 DEF Return, Goto

LEMMA CallIInv ==
  ASSUME IInv, NEW t \in Threads, Call(t)
  PROVE  IInv'
<1> USE DEF IInv, Goto
<1>1. /\ UNCHANGED <<poolVars, cacheVars, tc, mymspace, findVars, ended>>
      /\ pc[t] = "idle"
      /\ pc' = [pc EXCEPT ![t] = IF limit = 0 THEN "init" ELSE "tls"]
      /\ op' \in [Threads -> {"memory", "disable"}]
  BY DEF Call, TypeOK
<1> USE DEF poolVars, cacheVars, findVars
<1>2. TypeOK'
  <2>1. pc' \in [Threads -> Labels]
    BY <1>1 DEF TypeOK, Labels, InitLabels
  <2> QED
    BY <1>1, <2>1 DEF TypeOK
<1>3. pc'[t] \in {"init", "tls"} /\ \A u \in Threads \ {t} : pc'[u] = pc[u]
  BY <1>1 DEF TypeOK
<1>4. pc'[t] = "tls" => limit # 0
  BY <1>1 DEF TypeOK
<1>5. InitOK'
  BY <1>1, <1>3, <1>4 DEF InitOK, InitLabels
<1>6. MspacesInOrder' /\ CachesOK'
  BY <1>1 DEF MspacesInOrder, CachesOK
<1>7. TempOK'
  BY <1>1, <1>3 DEF TempOK
<1>8. Accounted'
  BY <1>1, <1>3, AccountedKept DEF Holding
<1>9. MspaceOK(t)' /\ CacheOK(t)'
  BY <1>1, <1>3 DEF MspaceOK, CacheOK, FindLabels, Scanning, AllocLabels, InitLabels
<1>10. LocksOK(t) /\ \A u \in Threads \ {t} : Still(u)
  BY <1>1, <1>3 DEF LocksOK, MutexLabels, Still
<1> QED
  BY <1>1, <1>2, <1>5, <1>6, <1>7, <1>8, <1>9, <1>10, StepIInv

------------------------------------------------------------------------------
\* InitPool
LEMMA InitPoolIInv ==
  ASSUME IInv, NEW t \in Threads, InitPool(t)
  PROVE  IInv'
<1> USE DEF IInv, Goto, poolVars, cacheVars, callVars, findVars
<1>1. /\ UNCHANGED <<mutex, lock, cacheVars, callVars, ended>>
      /\ pc[t] \in InitLabels
      /\ pc' = [pc EXCEPT ![t] = pc'[t]]
      /\ pc'[t] \in {"tls", "init_mspace", "init_threads"}
  BY DEF InitPool, InitLock, InitMspace, InitThreads, InitLabels, TypeOK
<1>2. \A u \in Threads \ {t} : pc'[u] = pc[u]
  BY <1>1 DEF TypeOK
<1>3. \A i \in Index : m[i] # None => m'[i] = m[i]
  BY DEF InitPool, InitLock, InitMspace, InitThreads, InitOK
<1>4. TypeOK'
  <2>1. pc' \in [Threads -> Labels]
    BY <1>1 DEF TypeOK, Labels, InitLabels
  <2>2. /\ limit' \in {0, MaxThreads}
        /\ global_mutex' \in Threads \cup {None}
        /\ m' \in [Index -> Mspaces \cup {None}]
    BY DEF InitPool, InitLock, InitMspace, InitThreads, TypeOK
  <2> QED
    BY <1>1, <2>1, <2>2 DEF TypeOK
<1>5. InitOK'
  <2>1. CASE InitLock(t)
    <3>1. UNCHANGED <<limit, m>> /\ global_mutex = None
      BY <2>1 DEF InitLock
    <3>2. CASE limit # 0
      <4>1. UNCHANGED global_mutex /\ pc'[t] = "tls"
        BY <2>1, <3>2 DEF InitLock, TypeOK
      <4> QED
        BY <1>2, <3>1, <3>2, <4>1 DEF InitOK
    <3>3. CASE limit = 0
      <4>1. global_mutex' = t /\ pc'[t] = "init_mspace"
        BY <2>1, <3>3 DEF InitLock, TypeOK
      <4>2. \A u \in Threads \ {t} : pc[u] \notin {"init_mspace", "init_threads"}
        BY <3>1 DEF InitOK
      <4>3. \A i \in Index : m[i] = None
        BY <3>1, <3>3 DEF InitOK
      <4> QED
        BY <1>2, <3>1, <3>3, <4>1, <4>2, <4>3 DEF InitOK, InitLabels
    <3> QED
      BY <3>2, <3>3
  <2>2. CASE InitMspace(t)
    <3>1. /\ global_mutex = t /\ limit = 0 /\ UNCHANGED <<limit, global_mutex>>
          /\ pc'[t] = "init_threads"
          /\ \E s \in Mspaces : m' = [m EXCEPT ![0] = s]
      BY <2>2 DEF InitMspace, InitOK, TypeOK
    <3>2. m'[0] # None
      BY <3>1 DEF TypeOK, Index
    <3>3. \A u \in Threads \ {t} : pc[u] \notin {"init_mspace", "init_threads"}
      BY <3>1 DEF InitOK
    <3> QED
      BY <1>2, <3>1, <3>2, <3>3 DEF InitOK, InitLabels
  <2>3. CASE InitThreads(t)
    <3>1. /\ global_mutex = t /\ limit = 0 /\ m[0] # None
          /\ limit' = MaxThreads /\ global_mutex' = None /\ UNCHANGED m
          /\ pc'[t] = "tls"
      BY <2>3 DEF InitThreads, InitOK, TypeOK
    <3>2. \A u \in Threads \ {t} : pc[u] \notin {"init_mspace", "init_threads"}
      BY <3>1 DEF InitOK
    <3>3. limit' # 0
      BY <3>1
    <3> QED
      BY <1>2, <3>1, <3>2, <3>3 DEF InitOK
  <2> QED
    BY <2>1, <2>2, <2>3 DEF InitPool
<1>6. MspacesInOrder' /\ TempOK' /\ CachesOK'
  <2>1. CASE InitMspace(t)
    <3>1. limit = 0 /\ \A i \in Index : m[i] = None
      BY <2>1 DEF InitMspace, InitOK
    <3>2. PICK s \in Mspaces : m' = [m EXCEPT ![0] = s]
      BY <2>1 DEF InitMspace
    <3>3. m'[0] = s /\ \A i \in Index \ {0} : m'[i] = None
      BY <3>1, <3>2 DEF TypeOK, Index
    <3>4. MaxThreads \in Index /\ MaxThreads # 0 /\ \A i, j \in Index : i < j => j # 0
      BY DEF Index
    <3>5. MspacesInOrder'
      BY <3>3, <3>4 DEF MspacesInOrder
    <3>6. \A u \in Threads : temp[u] = None
      BY <3>1 DEF InitOK, TempOK, InitLabels
    <3>7. \A k \in Slots : caches[k] = None
      <4>1. \A k \in Slots : m[cache_mspace[k]] = None
        BY <3>1 DEF TypeOK
      <4> QED
        BY <4>1 DEF CachesOK
    <3> QED
      BY <1>1, <1>2, <3>5, <3>6, <3>7 DEF TempOK, CachesOK
  <2>2. CASE ~ InitMspace(t)
    <3>1. UNCHANGED m
      BY <2>2 DEF InitPool, InitLock, InitThreads
    <3> QED
      BY <1>1, <1>2, <3>1 DEF MspacesInOrder, TempOK, CachesOK, InitLabels
  <2> QED
    BY <2>1, <2>2
<1>7. Accounted'
  BY <1>1, <1>2, AccountedKept DEF Holding, InitLabels
<1>8. MspaceOK(t)' /\ CacheOK(t)'
  <2>1. tls[t] < 0 => -tls[t] - 1 \in Index
    <3>1. tls[t] \in -MaxThreads .. MaxCaches
      BY DEF TypeOK
    <3> QED
      BY <3>1 DEF Index
  <2> QED
    BY <1>1, <1>3, <2>1 DEF MspaceOK, CacheOK, FindLabels, Scanning, AllocLabels, InitLabels
<1>9. LocksOK(t) /\ \A u \in Threads \ {t} : Still(u)
  BY <1>1, <1>2 DEF LocksOK, MutexLabels, Still
<1> QED
  BY <1>1, <1>3, <1>4, <1>5, <1>6, <1>7, <1>8, <1>9, StepIInv
------------------------------------------------------------------------------
\* What a thread-local value names: an entry of caches, or an mspace.
LEMMA TlsNames ==
  ASSUME TypeOK, NEW t \in Threads
  PROVE  /\ tls[t] > 0 => tls[t] \in Slots
         /\ tls[t] < 0 => -tls[t] - 1 \in Index
<1>1. tls[t] \in -MaxThreads .. MaxCaches
  BY DEF TypeOK
<1> QED
  BY <1>1 DEF Slots, Index

\* GetThreadCache: the mspace that the thread's value leads to exists.
LEMMA HasCacheIInv ==
  ASSUME IInv, NEW t \in Threads, HasCache(t)
  PROVE  IInv'
<1> USE DEF IInv, Goto, poolVars, cacheVars, findVars
<1>1. /\ pc[t] = "tls" /\ tls[t] # 0
      /\ UNCHANGED <<limit, global_mutex, mutex, m, lock, caches, cache_mspace,
                     tls, op, n, end, temp, ended>>
      /\ tc' = [tc EXCEPT ![t] = IF tls[t] > 0 THEN tls[t] ELSE 0]
      /\ mymspace' = [mymspace EXCEPT ![t] = mymspace'[t]]
      /\ mymspace'[t] = IF tls[t] > 0 THEN cache_mspace[tls[t]] ELSE -tls[t] - 1
      /\ pc' = [pc EXCEPT ![t] = "use"]
  BY DEF HasCache, TypeOK
<1>2. mymspace'[t] \in Index /\ m[mymspace'[t]] # None
  <2>1. CASE tls[t] > 0
    <3>1. tls[t] \in Slots /\ caches[tls[t]] = t
      BY <2>1, TlsNames DEF CacheOK
    <3>2. m[cache_mspace[tls[t]]] # None
      BY <3>1 DEF CachesOK
    <3> QED
      BY <1>1, <2>1, <3>1, <3>2 DEF TypeOK
  <2>2. CASE ~ (tls[t] > 0)
    <3>1. tls[t] < 0
      BY <1>1, <2>2 DEF TypeOK
    <3>2. -tls[t] - 1 \in Index /\ m[-tls[t] - 1] # None
      BY <3>1, TlsNames DEF MspaceOK
    <3> QED
      BY <1>1, <2>2, <3>2
  <2> QED
    BY <2>1, <2>2
<1>3. TypeOK'
  <2>1. pc' \in [Threads -> Labels]
    BY <1>1 DEF TypeOK, Labels
  <2>2. tc' \in [Threads -> 0 .. MaxCaches] /\ mymspace' \in [Threads -> Index]
    <3>1. tls[t] > 0 => tls[t] \in 0 .. MaxCaches
      BY DEF TypeOK
    <3> QED
      BY <1>1, <1>2, <3>1 DEF TypeOK
  <2> QED
    BY <1>1, <2>1, <2>2 DEF TypeOK
<1>4. /\ \A u \in Threads \ {t} : Still(u)
      /\ pc'[t] = "use" /\ tc'[t] = IF tls[t] > 0 THEN tls[t] ELSE 0
      /\ temp'[t] = None
  BY <1>1 DEF Still, TypeOK, TempOK
<1>5. LocksOK(t)
  BY <1>1, <1>4 DEF LocksOK, MutexLabels
<1>6. Holding(t)' <=> Holding(t)
  BY <1>1, <1>4 DEF Holding
<1>7. MspaceOK(t)'
  BY <1>1, <1>2, <1>4 DEF MspaceOK, Scanning
<1>8. CacheOK(t)'
  BY <1>1, <1>4 DEF CacheOK, TypeOK, AllocLabels, InitLabels
<1> QED
  BY <1>1, <1>3, <1>4, <1>5, <1>6, <1>7, <1>8, QuietIInv DEF CachesOK, InitLabels

LEMMA NeedsCacheIInv ==
  ASSUME IInv, NEW t \in Threads, NeedsCache(t)
  PROVE  IInv'
<1> USE DEF IInv, Goto, poolVars, cacheVars, findVars, callVars
<1>1. /\ pc[t] = "tls" /\ tls[t] = 0
      /\ UNCHANGED <<poolVars, cacheVars, callVars, ended>>
      /\ pc' = [pc EXCEPT ![t] = "alloc"]
  BY DEF NeedsCache
<1>2. TypeOK'
  <2>1. pc' \in [Threads -> Labels]
    BY <1>1 DEF TypeOK, Labels, AllocLabels
  <2> QED
    BY <1>1, <2>1 DEF TypeOK
<1>3. pc'[t] = "alloc" /\ temp'[t] = None /\ \A u \in Threads \ {t} : Still(u)
  BY <1>1 DEF Still, TypeOK, TempOK
<1>4. LocksOK(t) /\ (Holding(t)' <=> Holding(t))
  BY <1>1, <1>3 DEF LocksOK, MutexLabels, Holding
<1>5. MspaceOK(t)' /\ CacheOK(t)'
  BY <1>1, <1>3 DEF MspaceOK, CacheOK, Scanning, FindLabels, AllocLabels, InitLabels
<1> QED
  BY <1>1, <1>2, <1>3, <1>4, <1>5, QuietIInv DEF CachesOK, InitLabels

------------------------------------------------------------------------------
\* AllocCache
LEMMA AllocLockIInv ==
  ASSUME IInv, NEW t \in Threads, AllocLock(t)
  PROVE  IInv'
<1> USE DEF IInv, Goto, cacheVars, findVars, callVars
<1>1. /\ pc[t] = "alloc" /\ mutex = None /\ mutex' = t
      /\ UNCHANGED <<limit, global_mutex, m, lock, cacheVars, callVars, ended>>
      /\ pc' = [pc EXCEPT ![t] = "alloc_scan"]
  BY DEF AllocLock
<1>2. TypeOK'
  <2>1. pc' \in [Threads -> Labels]
    BY <1>1 DEF TypeOK, Labels, AllocLabels
  <2> QED
    BY <1>1, <2>1 DEF TypeOK
<1>3. pc'[t] = "alloc_scan" /\ temp'[t] = None /\ \A u \in Threads \ {t} : Still(u)
  BY <1>1 DEF Still, TypeOK, TempOK
<1>4. LocksOK(t) /\ (Holding(t)' <=> Holding(t))
  BY <1>1, <1>3 DEF LocksOK, MutexLabels, Holding
<1>5. MspaceOK(t)' /\ CacheOK(t)'
  BY <1>1, <1>3 DEF MspaceOK, CacheOK, Scanning, FindLabels, AllocLabels, InitLabels
<1> QED
  BY <1>1, <1>2, <1>3, <1>4, <1>5, QuietIInv DEF CachesOK, InitLabels

\* A thread that gets no cache goes on with the first mspace, which exists.
LEMMA NoCacheIInv ==
  ASSUME IInv, NEW t \in Threads, NoCache(t),
         pc[t] \in {"alloc_scan", "alloc_memory"},
         mutex' = None, tc' = [tc EXCEPT ![t] = 0],
         UNCHANGED <<limit, global_mutex, m, lock, caches, cache_mspace, op,
                     findVars, ended>>
  PROVE  IInv'
<1> USE DEF IInv, Goto, findVars
<1>1. /\ tls' = [tls EXCEPT ![t] = -1] /\ mymspace' = [mymspace EXCEPT ![t] = 0]
      /\ pc' = [pc EXCEPT ![t] = "use"] /\ tls[t] = 0 /\ mutex = t
      /\ -1 \in -MaxThreads .. MaxCaches /\ 0 \in Index /\ 0 \in 0 .. MaxCaches
  BY DEF NoCache, CacheOK, AllocLabels, MutexOK, Index
<1>2. TypeOK'
  <2>1. pc' \in [Threads -> Labels]
    BY <1>1 DEF TypeOK, Labels
  <2>2. /\ tls' \in [Threads -> -MaxThreads .. MaxCaches]
        /\ mymspace' \in [Threads -> Index]
        /\ tc' \in [Threads -> 0 .. MaxCaches]
    BY <1>1 DEF TypeOK
  <2> QED
    BY <1>1, <2>1, <2>2 DEF TypeOK
<1>3. /\ \A u \in Threads \ {t} : Still(u)
      /\ pc'[t] = "use" /\ tc'[t] = 0 /\ mymspace'[t] = 0 /\ tls'[t] = -1
      /\ temp'[t] = None
  BY <1>1 DEF Still, TypeOK, TempOK
<1>4. LocksOK(t) /\ (Holding(t)' <=> Holding(t))
  BY <1>1, <1>3 DEF LocksOK, MutexLabels, Holding
<1>5. m[0] # None
  BY DEF InitOK, InitLabels
<1>6. MspaceOK(t)' /\ CacheOK(t)'
  BY <1>1, <1>3, <1>5 DEF MspaceOK, CacheOK, Scanning, FindLabels, AllocLabels, InitLabels
<1> QED
  BY <1>1, <1>2, <1>3, <1>4, <1>6, QuietIInv DEF CachesOK, InitLabels

\* The scan of caches: past an entry that is in use, to the first one that is
\* not, or past the last.
LEMMA AllocScanIInv ==
  ASSUME IInv, NEW t \in Threads, AllocScan(t)
  PROVE  IInv'
<1> USE DEF IInv, Goto, findVars
<1>1. /\ pc[t] = "alloc_scan" /\ mutex = t /\ tls[t] = 0 /\ tc[t] \in 0 .. MaxCaches
      /\ UNCHANGED <<limit, global_mutex, m, lock, caches, cache_mspace, op,
                     findVars, ended>>
  BY DEF AllocScan, MutexOK, CacheOK, AllocLabels, TypeOK
<1>2. CASE NoCache(t) /\ mutex' = None /\ tc' = [tc EXCEPT ![t] = 0]
  BY <1>1, <1>2, NoCacheIInv
<1>3. ASSUME tc[t] < MaxCaches, tc' = [tc EXCEPT ![t] = @ + 1],
             \/ UNCHANGED pc
             \/ /\ caches[tc[t] + 1] = None
                /\ pc' = [pc EXCEPT ![t] = "alloc_memory"],
             UNCHANGED <<mutex, tls, mymspace>>
      PROVE  IInv'
  <2>1. tc[t] + 1 \in Slots /\ tc[t] + 1 \in 0 .. MaxCaches
    BY <1>1, <1>3 DEF Slots
  <2>2. TypeOK'
    <3>1. pc' \in [Threads -> Labels]
      BY <1>3 DEF TypeOK, Labels, AllocLabels
    <3>2. tc' \in [Threads -> 0 .. MaxCaches]
      BY <1>3, <2>1 DEF TypeOK
    <3> QED
      BY <1>1, <1>3, <3>1, <3>2 DEF TypeOK
  <2>3. /\ \A u \in Threads \ {t} : Still(u)
        /\ pc'[t] \in {"alloc_scan", "alloc_memory"}
        /\ pc'[t] = "alloc_memory" => caches[tc[t] + 1] = None
        /\ tc'[t] = tc[t] + 1 /\ temp'[t] = None
    BY <1>1, <1>3 DEF Still, TypeOK, TempOK
  <2>4. LocksOK(t) /\ (Holding(t)' <=> Holding(t))
    BY <1>1, <1>3, <2>3 DEF LocksOK, MutexLabels, Holding
  <2>5. MspaceOK(t)' /\ CacheOK(t)'
    BY <1>1, <1>3, <2>1, <2>3
       DEF MspaceOK, CacheOK, Scanning, FindLabels, AllocLabels, InitLabels
  <2> QED
    BY <1>1, <1>3, <2>2, <2>3, <2>4, <2>5, QuietIInv DEF CachesOK, InitLabels
<1> QED
  BY <1>2, <1>3 DEF AllocScan

LEMMA AllocTlsIInv ==
  ASSUME IInv, NEW t \in Threads, AllocTls(t)
  PROVE  IInv'
<1> USE DEF IInv, Goto, poolVars, findVars
<1>1. /\ pc[t] = "alloc_tls" /\ tc[t] \in Slots /\ caches[tc[t]] = t
      /\ UNCHANGED <<poolVars, caches, cache_mspace, op, tc, findVars, ended>>
      /\ tls' = [tls EXCEPT ![t] = tc[t]]
      /\ mymspace' = [mymspace EXCEPT ![t] = cache_mspace[tc[t]]]
      /\ pc' = [pc EXCEPT ![t] = "use"]
  BY DEF AllocTls, CacheOK
<1>2. TypeOK'
  <2>1. pc' \in [Threads -> Labels]
    BY <1>1 DEF TypeOK, Labels
  <2>2. mymspace' \in [Threads -> Index]
    BY <1>1 DEF TypeOK
  <2>3. tls' \in [Threads -> -MaxThreads .. MaxCaches]
    <3>1. tc[t] \in -MaxThreads .. MaxCaches
      BY <1>1 DEF Slots
    <3> QED
      BY <1>1, <3>1 DEF TypeOK
  <2> QED
    BY <1>1, <2>1, <2>2, <2>3 DEF TypeOK
<1>3. /\ \A u \in Threads \ {t} : Still(u)
      /\ pc'[t] = "use" /\ tls'[t] = tc[t] /\ mymspace'[t] = cache_mspace[tc[t]]
      /\ temp'[t] = None
  BY <1>1 DEF Still, TypeOK, TempOK
<1>4. tc[t] > 0 /\ ~ (tc[t] < 0) /\ tc'[t] = tc[t]
  BY <1>1 DEF Slots
<1>5. LocksOK(t) /\ (Holding(t)' <=> Holding(t))
  BY <1>1, <1>3, <1>4 DEF LocksOK, MutexLabels, Holding
<1>6. MspaceOK(t)'
  <2>1. m[cache_mspace[tc[t]]] # None
    BY <1>1 DEF CachesOK
  <2> QED
    BY <1>1, <1>3, <1>4, <2>1 DEF MspaceOK, Scanning
<1>7. CacheOK(t)'
  BY <1>1, <1>3, <1>4 DEF CacheOK, AllocLabels, InitLabels
<1> QED
  BY <1>1, <1>2, <1>3, <1>5, <1>6, <1>7, QuietIInv DEF CachesOK, InitLabels

\* The mspaces that AllocCache counts are all there.
LEMMA LeastNatural ==
  ASSUME NEW T, T \subseteq Nat, T # {}
  PROVE  \E x \in T : \A y \in T : x <= y
<1> DEFINE R == OpToRel(<, Nat)
<1>1. IsWellFoundedOn(R, Nat)
  BY NatLessThanWellFounded
<1>2. \A x, y \in Nat : y < x => <<y, x>> \in R
  BY DEF OpToRel
<1> HIDE DEF R
<1>3. PICK x \in T : \A y \in T : ~ (<<y, x>> \in R)
  BY <1>1, WFMin
<1>4. \A y \in T : x \in Nat /\ y \in Nat /\ ~ (y < x)
  BY <1>2, <1>3
<1> QED
  BY <1>4

LEMMA CountedExist ==
  ASSUME MspacesInOrder, NEW i \in 0 .. Count - 1
  PROVE  i \in Index /\ m[i] # None
<1> DEFINE T == {j \in Index : m[j] = None}
<1>1. T \subseteq Nat /\ MaxThreads \in T
  BY DEF MspacesInOrder, Index
<1>2. PICK x \in T : \A y \in T : x <= y
  BY <1>1, LeastNatural
<1>3. x \in Index /\ m[x] = None
  OBVIOUS
<1>4. \A j \in 0 .. x - 1 : m[j] # None
  <2> SUFFICES ASSUME NEW j \in 0 .. x - 1, m[j] = None
               PROVE  FALSE
    OBVIOUS
  <2>1. j \in Index
    BY <1>3 DEF Index
  <2>2. x <= j
    BY <1>2, <2>1
  <2> QED
    BY <1>3, <2>2 DEF Index
<1>5. Count \in Index /\ \A j \in 0 .. Count - 1 : m[j] # None
  BY <1>3, <1>4 DEF Count
<1> QED
  BY <1>5 DEF Index

\* Taken is a finite set, with one element for each entry of caches in use.
LEMMA TakenFinite == IsFiniteSet(Taken) /\ IsFiniteSet(Slots) /\ Cardinality(Slots) = MaxCaches
<1>1. IsFiniteSet(Slots)
  BY FS_Interval DEF Slots
<1>2. Cardinality(Slots) = MaxCaches
  BY FS_Interval DEF Slots
<1> QED
  BY <1>1, <1>2, FS_Subset DEF Taken

\* A thread that takes an entry for its cache becomes one of the holders.
LEMMA EntryTaken ==
  ASSUME TypeOK, Accounted, NEW t \in Threads, NEW k \in Slots,
         caches[k] = None, caches' = [caches EXCEPT ![k] = t],
         ~ Holding(t), Holding(t)', UNCHANGED ended,
         \A u \in Threads \ {t} : Holding(u)' <=> Holding(u)
  PROVE  Accounted'
<1>1. Taken' = Taken \cup {k} /\ k \notin Taken
  BY DEF Taken, TypeOK
<1>2. Holders' = Holders \cup {t} /\ t \notin Holders
  BY DEF Holders
<1>3. /\ IsFiniteSet(Holders) /\ IsFiniteSet(Taken)
      /\ Cardinality(Taken) = Cardinality(Holders) + ended /\ ended \in Nat
  BY TakenFinite DEF Accounted, TypeOK
<1>4. Cardinality(Taken) \in Nat /\ Cardinality(Holders) \in Nat
  BY <1>3, FS_CardinalityType
<1>5. IsFiniteSet(Holders') /\ Cardinality(Holders') = Cardinality(Holders) + 1
  BY <1>2, <1>3, FS_AddElement
<1>6. Cardinality(Taken') = Cardinality(Taken) + 1
  BY <1>1, <1>3, FS_AddElement
<1>7. Cardinality(Taken') = Cardinality(Holders') + ended
  BY <1>3, <1>4, <1>5, <1>6
<1> QED
  BY <1>5, <1>7 DEF Accounted

LEMMA EntryCleared ==
  ASSUME TypeOK, Accounted, NEW t \in Threads, NEW k \in Slots,
         caches[k] # None, caches' = [caches EXCEPT ![k] = None],
         Holding(t), ~ Holding(t)', UNCHANGED ended,
         \A u \in Threads \ {t} : Holding(u)' <=> Holding(u)
  PROVE  Accounted'
<1>1. Taken' = Taken \ {k} /\ k \in Taken
  BY DEF Taken, TypeOK
<1>2. Holders' = Holders \ {t} /\ t \in Holders
  BY DEF Holders
<1>3. /\ IsFiniteSet(Holders) /\ IsFiniteSet(Taken)
      /\ Cardinality(Taken) = Cardinality(Holders) + ended /\ ended \in Nat
  BY TakenFinite DEF Accounted, TypeOK
<1>4. Cardinality(Taken) \in Nat /\ Cardinality(Holders) \in Nat
  BY <1>3, FS_CardinalityType
<1>5. IsFiniteSet(Holders') /\ Cardinality(Holders') = Cardinality(Holders) - 1
  BY <1>2, <1>3, FS_RemoveElement
<1>6. Cardinality(Taken') = Cardinality(Taken) - 1
  BY <1>1, <1>3, FS_RemoveElement
<1>7. Cardinality(Taken') = Cardinality(Holders') + ended
  BY <1>3, <1>4, <1>5, <1>6
<1> QED
  BY <1>5, <1>7 DEF Accounted

LEMMA AllocMemoryIInv ==
  ASSUME IInv, NEW t \in Threads, AllocMemory(t)
  PROVE  IInv'
<1> USE DEF IInv, Goto, findVars
<1>1. /\ pc[t] = "alloc_memory" /\ mutex = t /\ tls[t] = 0 /\ mutex' = None
      /\ tc[t] \in Slots /\ caches[tc[t]] = None
      /\ UNCHANGED <<limit, global_mutex, m, lock, op, findVars, ended>>
  BY DEF AllocMemory, MutexOK, CacheOK, AllocLabels
<1>2. CASE NoCache(t) /\ tc' = [tc EXCEPT ![t] = 0] /\ UNCHANGED <<caches, cache_mspace>>
  BY <1>1, <1>2, NoCacheIInv
<1>3. ASSUME caches' = [caches EXCEPT ![tc[t]] = t],
             NEW i \in 0 .. Count - 1, cache_mspace' = [cache_mspace EXCEPT ![tc[t]] = i],
             pc' = [pc EXCEPT ![t] = "alloc_tls"],
             UNCHANGED <<tc, tls, mymspace>>
      PROVE  IInv'
  <2>1. i \in Index /\ m[i] # None
    BY CountedExist
  <2>2. PICK k \in Slots : k = tc[t]
    BY <1>1
  <2>3. /\ caches' = [caches EXCEPT ![k] = t]
        /\ cache_mspace' = [cache_mspace EXCEPT ![k] = i]
        /\ caches[k] = None
    BY <1>1, <1>3, <2>2
  <2>4. TypeOK'
    <3>1. pc' \in [Threads -> Labels]
      BY <1>3 DEF TypeOK, Labels, AllocLabels
    <3>2. caches' \in [Slots -> Threads \cup {None}] /\ cache_mspace' \in [Slots -> Index]
      BY <2>1, <2>3 DEF TypeOK
    <3> QED
      BY <1>1, <1>3, <3>1, <3>2 DEF TypeOK
  <2>5. /\ \A u \in Threads \ {t} : Still(u)
        /\ pc'[t] = "alloc_tls" /\ temp'[t] = None
    BY <1>1, <1>3 DEF Still, TypeOK, TempOK
  <2>6. LocksOK(t)
    BY <1>1, <2>5 DEF LocksOK, MutexLabels
  <2>7. Accounted'
    <3>1. ~ Holding(t) /\ Holding(t)'
      BY <1>1, <2>5 DEF Holding
    <3>2. \A u \in Threads \ {t} : Holding(u)' <=> Holding(u)
      BY <2>5, HoldingStill
    <3> QED
      BY <1>1, <2>3, <3>1, <3>2, EntryTaken
  <2>8. InitOK'
    BY <1>1, <1>3, <2>5 DEF InitOK, InitLabels, Still
  <2>9. MspacesInOrder'
    BY <1>1 DEF MspacesInOrder
  <2>10. TempOK'
    BY <1>1, <2>5 DEF TempOK, Still
  <2>11. CachesOK'
    BY <1>1, <2>1, <2>3 DEF CachesOK, TypeOK
  <2>12. MspaceOK(t)' /\ CacheOK(t)'
    <3>1. caches'[tc'[t]] = t /\ tc'[t] \in Slots
      BY <1>1, <1>3, <2>2, <2>3 DEF TypeOK
    <3> QED
      BY <1>1, <1>3, <2>5, <3>1
         DEF MspaceOK, CacheOK, Scanning, FindLabels, AllocLabels, InitLabels
  <2>13. \A j \in Slots : caches'[j] = caches[j] \/ (caches[j] \in {None, t} /\ mutex = t)
    BY <1>1, <2>3 DEF TypeOK
  <2> QED
    BY <1>1, <2>4, <2>5, <2>6, <2>7, <2>8, <2>9, <2>10, <2>11, <2>12, <2>13, StepIInv
<1> QED
  BY <1>2, <1>3 DEF AllocMemory

------------------------------------------------------------------------------
\* nedpmalloc2 and nedpfree2: a thread that returns keeps what it knows.
LEMMA ReturnIInv ==
  ASSUME IInv, NEW t \in Threads, Return(t), pc[t] \in {"use", "held"},
         UNCHANGED <<limit, global_mutex, mutex, m, cacheVars, ended>>,
         lock' \in [Mspaces -> Threads \cup {None}],
         \A s \in Mspaces : lock'[s] = lock[s] \/ lock[s] = t
  PROVE  IInv'
<1> USE DEF IInv, cacheVars
<1>1. TypeOK'
  BY ReturnsOK DEF TypeOK
<1>2. /\ \A u \in Threads \ {t} : Still(u)
      /\ pc'[t] = "idle" /\ tc'[t] = 0 /\ temp'[t] = None
  BY ReturnsOK DEF Still
<1>3. LocksOK(t) /\ (Holding(t)' <=> Holding(t))
  BY <1>2 DEF LocksOK, MutexLabels, Holding
<1>4. MspaceOK(t)' /\ CacheOK(t)'
  BY <1>2 DEF MspaceOK, CacheOK, Scanning, FindLabels, AllocLabels, InitLabels
<1> QED
  BY <1>1, <1>2, <1>3, <1>4, QuietIInv DEF CachesOK, InitLabels

LEMMA UseIInv ==
  ASSUME IInv, NEW t \in Threads, UseCache(t) \/ FreeBlock(t)
  PROVE  IInv'
<1>1. /\ Return(t) /\ pc[t] = "use"
      /\ UNCHANGED <<limit, global_mutex, mutex, m, lock, cacheVars, ended>>
  BY DEF UseCache, FreeBlock, poolVars
<1>2. lock \in [Mspaces -> Threads \cup {None}]
  BY DEF IInv, TypeOK
<1> QED
  BY <1>1, <1>2, ReturnIInv

LEMMA MallocAndUnlockIInv ==
  ASSUME IInv, NEW t \in Threads, MallocAndUnlock(t)
  PROVE  IInv'
<1>1. /\ Return(t) /\ pc[t] = "held"
      /\ UNCHANGED <<limit, global_mutex, mutex, m, cacheVars, ended>>
      /\ lock' = [lock EXCEPT ![m[mymspace[t]]] = None]
  BY DEF MallocAndUnlock
<1>2. lock[m[mymspace[t]]] = t
  BY <1>1 DEF IInv, LockedForUse
<1>3. /\ lock' \in [Mspaces -> Threads \cup {None}]
      /\ \A s \in Mspaces : lock'[s] = lock[s] \/ lock[s] = t
  BY <1>1, <1>2 DEF IInv, TypeOK
<1> QED
  BY <1>1, <1>3, ReturnIInv

\* A thread that locks the mspace it used last.
LEMMA LockLastIInv ==
  ASSUME IInv, NEW t \in Threads, TryLast(t) \/ WaitForLast(t)
  PROVE  IInv'
<1> USE DEF IInv, Goto, cacheVars, findVars, callVars
<1>1. /\ pc[t] \in {"use", "wait"}
      /\ lock[m[mymspace[t]]] = None
      /\ lock' = [lock EXCEPT ![m[mymspace[t]]] = t]
      /\ pc' = [pc EXCEPT ![t] = "held"]
      /\ UNCHANGED <<limit, global_mutex, mutex, m, cacheVars, callVars, ended>>
  BY DEF TryLast, WaitForLast
<1>2. m[mymspace[t]] \in Mspaces
  BY <1>1 DEF MspaceOK, FindLabels, TypeOK
<1>3. TypeOK'
  <2>1. pc' \in [Threads -> Labels] /\ lock' \in [Mspaces -> Threads \cup {None}]
    BY <1>1 DEF TypeOK, Labels
  <2> QED
    BY <1>1, <2>1 DEF TypeOK
<1>4. /\ \A u \in Threads \ {t} : Still(u)
      /\ pc'[t] = "held" /\ temp'[t] = None
  BY <1>1 DEF Still, TypeOK, TempOK
<1>5. LocksOK(t) /\ (Holding(t)' <=> Holding(t))
  BY <1>1, <1>2, <1>4 DEF LocksOK, MutexLabels, Holding, TypeOK
<1>6. MspaceOK(t)'
  BY <1>1, <1>4 DEF MspaceOK, FindLabels, Scanning
<1>7. CacheOK(t)'
  BY <1>1, <1>4 DEF CacheOK, FindLabels, AllocLabels, InitLabels
<1> QED
  BY <1>1, <1>3, <1>4, <1>5, <1>6, <1>7, QuietIInv DEF CachesOK, InitLabels

LEMMA LastIsLockedIInv ==
  ASSUME IInv, NEW t \in Threads, LastIsLocked(t)
  PROVE  IInv'
<1> USE DEF IInv, Goto, poolVars, cacheVars
<1>1. /\ pc[t] = "use"
      /\ n' = [n EXCEPT ![t] = mymspace[t] + 1]
      /\ end' = [end EXCEPT ![t] = mymspace[t] + 1]
      /\ pc' = [pc EXCEPT ![t] = "scan_up"]
      /\ UNCHANGED <<poolVars, cacheVars, op, tc, mymspace, temp, ended>>
  BY DEF LastIsLocked
<1>2. mymspace[t] \in Index /\ m[mymspace[t]] # None /\ m[MaxThreads] = None
  BY <1>1 DEF TypeOK, MspaceOK, MspacesInOrder
<1>3. mymspace[t] + 1 \in Index
  BY <1>2 DEF Index
<1>4. TypeOK'
  <2>1. /\ pc' \in [Threads -> Labels]
        /\ n' \in [Threads -> Index] /\ end' \in [Threads -> Index]
    BY <1>1, <1>3 DEF TypeOK, Labels, FindLabels
  <2> QED
    BY <1>1, <2>1 DEF TypeOK
<1>5. /\ \A u \in Threads \ {t} : Still(u)
      /\ pc'[t] = "scan_up" /\ temp'[t] = None
      /\ n'[t] = mymspace[t] + 1 /\ end'[t] = mymspace[t] + 1
  BY <1>1 DEF Still, TypeOK, TempOK
<1>6. LocksOK(t) /\ (Holding(t)' <=> Holding(t))
  BY <1>1, <1>5 DEF LocksOK, MutexLabels, Holding, TypeOK
<1>7. \A i \in 0 .. mymspace[t] : m[i] # None
  BY <1>2 DEF MspacesInOrder, Index
<1>8. MspaceOK(t)'
  <2>1. \A i \in 0 .. end'[t] - 1 : m[i] # None
    BY <1>2, <1>5, <1>7 DEF Index
  <2> QED
    BY <1>1, <1>2, <1>5, <2>1 DEF MspaceOK, FindLabels, Scanning
<1>9. CacheOK(t)'
  BY <1>1, <1>5 DEF CacheOK, FindLabels, AllocLabels, InitLabels
<1> QED
  BY <1>1, <1>4, <1>5, <1>6, <1>8, <1>9, QuietIInv DEF CachesOK, InitLabels

------------------------------------------------------------------------------
\* FindMSpace

\* A thread that finds mspace i unlocked locks it and prefers it from now on.
LEMMA TryLockIInv ==
  ASSUME IInv, NEW t \in Threads, NEW i \in Index, TryLock(t, i), m[i] # None,
         pc[t] \in {"scan_up", "scan_down", "install_take"},
         mutex' = mutex \/ (mutex = t /\ mutex' = None),
         UNCHANGED <<limit, global_mutex, m, ended>>
  PROVE  IInv'
<1> USE DEF IInv, Goto
<1>1. /\ lock[m[i]] = None /\ lock' = [lock EXCEPT ![m[i]] = t]
      /\ mymspace' = [mymspace EXCEPT ![t] = i]
      /\ pc' = [pc EXCEPT ![t] = "held"]
      /\ n' = [n EXCEPT ![t] = 0] /\ end' = [end EXCEPT ![t] = 0]
      /\ UNCHANGED <<caches, op, tc, temp>>
  BY DEF TryLock, FoundAt
<1>2. m[i] \in Mspaces /\ 0 \in Index /\ i + 1 \in 1 .. MaxThreads
  BY DEF TypeOK, Index, MspacesInOrder
<1>3. IF tc[t] # 0 THEN tls[t] = tc[t] ELSE tls[t] < 0
  BY DEF CacheOK, FindLabels
<1>4. CASE tc[t] # 0
  <2>1. cache_mspace' = [cache_mspace EXCEPT ![tc[t]] = i] /\ UNCHANGED tls
    BY <1>4 DEF TryLock, FoundAt
  <2>2. TypeOK'
    <3>1. /\ pc' \in [Threads -> Labels] /\ lock' \in [Mspaces -> Threads \cup {None}]
          /\ mymspace' \in [Threads -> Index]
          /\ n' \in [Threads -> Index] /\ end' \in [Threads -> Index]
      BY <1>1, <1>2 DEF TypeOK, Labels
    <3>2. cache_mspace' \in [Slots -> Index] /\ mutex' \in Threads \cup {None}
      BY <2>1 DEF TypeOK
    <3> QED
      BY <1>1, <2>1, <3>1, <3>2 DEF TypeOK
  <2>3. /\ \A u \in Threads \ {t} : Still(u)
        /\ pc'[t] = "held" /\ temp'[t] = None /\ mymspace'[t] = i
    BY <1>1, <2>1 DEF Still, TypeOK, TempOK
  <2>4. LocksOK(t) /\ (Holding(t)' <=> Holding(t))
    BY <1>1, <1>2, <2>1, <2>3 DEF LocksOK, MutexLabels, Holding, TypeOK
  <2>5. MspaceOK(t)'
    BY <2>1, <2>3 DEF MspaceOK, FindLabels, Scanning
  <2>6. CacheOK(t)'
    BY <1>1, <1>3, <2>1, <2>3 DEF CacheOK, FindLabels, AllocLabels, InitLabels
  <2>7. \A k \in Slots : caches[k] # None => m[cache_mspace'[k]] # None
    BY <2>1 DEF CachesOK, TypeOK
  <2> QED
    BY <1>1, <2>1, <2>2, <2>3, <2>4, <2>5, <2>6, <2>7, QuietIInv DEF InitLabels
<1>5. CASE tc[t] = 0
  <2>1. tls' = [tls EXCEPT ![t] = -(i + 1)] /\ UNCHANGED cache_mspace
    BY <1>5 DEF TryLock, FoundAt
  <2>2. /\ -(i + 1) \in -MaxThreads .. MaxCaches /\ -(i + 1) < 0
        /\ ~ (-(i + 1) > 0) /\ -(-(i + 1)) - 1 = i
    <3>1. i \in Int /\ i >= 0 /\ i + 1 <= MaxThreads /\ MaxThreads \in Nat /\ MaxCaches \in Nat
      BY <1>2 DEF Index
    <3> QED
      BY ONLY <3>1
  <2>3. TypeOK'
    <3>1. /\ pc' \in [Threads -> Labels] /\ lock' \in [Mspaces -> Threads \cup {None}]
          /\ mymspace' \in [Threads -> Index]
          /\ n' \in [Threads -> Index] /\ end' \in [Threads -> Index]
      BY <1>1, <1>2 DEF TypeOK, Labels
    <3>2. tls' \in [Threads -> -MaxThreads .. MaxCaches] /\ mutex' \in Threads \cup {None}
      BY <2>1, <2>2 DEF TypeOK
    <3> QED
      BY <1>1, <2>1, <3>1, <3>2 DEF TypeOK
  <2>4. /\ \A u \in Threads \ {t} : Still(u)
        /\ pc'[t] = "held" /\ temp'[t] = None /\ mymspace'[t] = i /\ tls'[t] = -(i + 1)
    BY <1>1, <2>1 DEF Still, TypeOK, TempOK
  <2>5. LocksOK(t)
    BY <1>1, <1>2, <2>4 DEF LocksOK, MutexLabels, TypeOK
  <2>6. ~ Holding(t) /\ ~ Holding(t)'
    <3>1. tls[t] < 0 /\ tls[t] \in Int
      BY <1>3, <1>5 DEF TypeOK
    <3> QED
      BY <2>2, <2>4, <3>1 DEF Holding
  <2>7. MspaceOK(t)'
    BY <2>2, <2>4 DEF MspaceOK, FindLabels, Scanning
  <2>8. CacheOK(t)'
    BY <1>1, <1>5, <2>2, <2>4 DEF CacheOK, FindLabels, AllocLabels, InitLabels
  <2> QED
    BY <1>1, <2>1, <2>3, <2>4, <2>5, <2>6, <2>7, <2>8, QuietIInv DEF CachesOK, InitLabels
<1> QED
  BY <1>4, <1>5

\* A step of the search, which changes what the thread has seen of the pool.
SearchStep(t) ==
  /\ pc[t] \in Scanning
  /\ \A u \in Threads \ {t} : Still(u)
  /\ pc' \in [Threads -> Labels] /\ pc'[t] \in FindLabels \ {"install_take"}
  /\ n' \in [Threads -> Index] /\ end' \in [Threads -> Index]
  /\ temp' \in [Threads -> Mspaces \cup {None}]
  /\ temp'[t] \in {temp[t], None} \/ temp'[t] \notin Created
  /\ temp'[t] # None <=> pc'[t] \in {"install_lock", "install"}
  /\ mutex' = mutex \/ (mutex \in {None, t} /\ mutex' \in {None, t})
  /\ pc'[t] = "install" => mutex' = t
  /\ pc'[t] \in Scanning => \A i \in 0 .. end'[t] - 1 : m[i] # None
  /\ pc'[t] = "scan_up" => n'[t] = end'[t]
  /\ UNCHANGED <<limit, global_mutex, m, lock, cacheVars, op, tc, mymspace, ended>>

LEMMA SearchIInv ==
  ASSUME IInv, NEW t \in Threads, SearchStep(t)
  PROVE  IInv'
<1> USE DEF IInv, SearchStep, cacheVars
<1>1. pc[t] \in FindLabels
  BY DEF Scanning, FindLabels
<1>2. TypeOK'
  <2>1. mutex' \in Threads \cup {None}
    BY DEF TypeOK
  <2> QED
    BY <2>1 DEF TypeOK
<1>3. LocksOK(t)
  BY DEF LocksOK, MutexLabels, FindLabels
<1>4. Holding(t)' <=> Holding(t)
  BY <1>1 DEF Holding, FindLabels
<1>5. MspaceOK(t)'
  BY <1>1 DEF MspaceOK
<1>6. CacheOK(t)'
  <2>1. /\ pc'[t] \notin AllocLabels
        /\ pc'[t] \notin {"idle", "tls", "alloc"} \cup InitLabels
        /\ pc'[t] \notin {"alloc_memory", "alloc_tls", "disable_free"}
    BY DEF FindLabels, AllocLabels, InitLabels
  <2> QED
    BY <1>1, <2>1 DEF CacheOK
<1>7. pc[t] \notin {"idle"} \cup InitLabels /\ pc'[t] \notin InitLabels
  BY <1>1 DEF InitLabels, FindLabels
<1> QED
  BY <1>2, <1>3, <1>4, <1>5, <1>6, <1>7, QuietIInv DEF CachesOK

\* An mspace is never in the last entry of m, so that there is one after it.
LEMMA NextEntry ==
  ASSUME MspacesInOrder, NEW i \in Index, m[i] # None
  PROVE  i + 1 \in Index
BY DEF MspacesInOrder, Index

LEMMA ScanUpIInv ==
  ASSUME IInv, NEW t \in Threads, ScanUp(t)
  PROVE  IInv'
<1>1. TypeOK /\ MspacesInOrder /\ TempOK /\ MspaceOK(t)
  BY DEF IInv
<1>2. PICK i \in Index : i = n[t]
  BY <1>1 DEF TypeOK
<1>3. /\ pc[t] = "scan_up" /\ m[i] # None /\ i = end[t] /\ temp[t] = None
      /\ \A j \in 0 .. i - 1 : m[j] # None
      /\ UNCHANGED <<limit, global_mutex, mutex, m, ended>>
  BY <1>1, <1>2 DEF ScanUp, MspaceOK, Scanning, TempOK
<1>4. CASE TryLock(t, i)
  BY <1>3, <1>4, TryLockIInv
<1>5. CASE /\ n' = [n EXCEPT ![t] = i + 1] /\ end' = [end EXCEPT ![t] = i + 1]
           /\ UNCHANGED <<lock, cacheVars, pc, op, tc, mymspace, temp>>
  <2>1. i + 1 \in Index
    BY <1>1, <1>3, NextEntry
  <2>2. n'[t] = i + 1 /\ end'[t] = i + 1 /\ \A j \in 0 .. (i + 1) - 1 : m[j] # None
    BY <1>1, <1>3, <1>5 DEF TypeOK, Index
  <2>3. \A u \in Threads \ {t} : Still(u)
    BY <1>1, <1>3, <1>5 DEF Still, TypeOK, cacheVars
  <2>4. SearchStep(t)
    BY <1>1, <1>3, <1>5, <2>1, <2>2, <2>3 DEF SearchStep, TypeOK, FindLabels, Scanning
  <2> QED
    BY <2>4, SearchIInv
<1> QED
  BY <1>2, <1>4, <1>5 DEF ScanUp

LEMMA ScanUpEndIInv ==
  ASSUME IInv, NEW t \in Threads, ScanUpEnd(t)
  PROVE  IInv'
<1> USE DEF Goto, poolVars, cacheVars
<1>1. TypeOK /\ TempOK /\ MspaceOK(t)
  BY DEF IInv
<1>2. /\ pc[t] = "scan_up" /\ temp[t] = None
      /\ \A i \in 0 .. end[t] - 1 : m[i] # None
      /\ n' = [n EXCEPT ![t] = 0] /\ pc' = [pc EXCEPT ![t] = "scan_down"]
      /\ UNCHANGED <<poolVars, cacheVars, op, tc, mymspace, end, temp, ended>>
  BY <1>1 DEF ScanUpEnd, MspaceOK, Scanning, TempOK
<1>3. 0 \in Index /\ pc'[t] = "scan_down" /\ \A u \in Threads \ {t} : Still(u)
  BY <1>1, <1>2 DEF Still, TypeOK, Index
<1>4. SearchStep(t)
  BY <1>1, <1>2, <1>3 DEF SearchStep, TypeOK, Labels, FindLabels, Scanning
<1> QED
  BY <1>4, SearchIInv

LEMMA ScanDownIInv ==
  ASSUME IInv, NEW t \in Threads, ScanDown(t)
  PROVE  IInv'
<1>1. TypeOK /\ MspacesInOrder /\ TempOK /\ MspaceOK(t)
  BY DEF IInv
<1>2. PICK i \in Index : i = n[t]
  BY <1>1 DEF TypeOK
<1>3. /\ pc[t] = "scan_down" /\ m[i] # None /\ temp[t] = None
      /\ \A j \in 0 .. end[t] - 1 : m[j] # None
      /\ UNCHANGED <<limit, global_mutex, mutex, m, ended>>
  BY <1>1, <1>2 DEF ScanDown, MspaceOK, Scanning, TempOK
<1>4. CASE TryLock(t, i)
  BY <1>3, <1>4, TryLockIInv
<1>5. CASE /\ n' = [n EXCEPT ![t] = i + 1]
           /\ UNCHANGED <<lock, cacheVars, pc, op, tc, mymspace, end, temp>>
  <2>1. i + 1 \in Index
    BY <1>1, <1>3, NextEntry
  <2>2. \A u \in Threads \ {t} : Still(u)
    BY <1>1, <1>3, <1>5 DEF Still, TypeOK, cacheVars
  <2>3. SearchStep(t)
    BY <1>1, <1>3, <1>5, <2>1, <2>2 DEF SearchStep, TypeOK, FindLabels, Scanning
  <2> QED
    BY <2>3, SearchIInv
<1> QED
  BY <1>2, <1>4, <1>5 DEF ScanDown

LEMMA ScanDownEndIInv ==
  ASSUME IInv, NEW t \in Threads, ScanDownEnd(t)
  PROVE  IInv'
<1> USE DEF Goto, poolVars, cacheVars, findVars, callVars
<1>1. TypeOK /\ TempOK /\ MspaceOK(t)
  BY DEF IInv
<1>2. /\ pc[t] = "scan_down" /\ temp[t] = None
      /\ \A i \in 0 .. end[t] - 1 : m[i] # None
      /\ UNCHANGED <<poolVars, cacheVars, callVars, ended>>
  BY <1>1 DEF ScanDownEnd, MspaceOK, Scanning, TempOK
<1>3. PICK label \in {"create", "wait"} : pc' = [pc EXCEPT ![t] = label]
  BY DEF ScanDownEnd
<1>4. pc'[t] = label /\ \A u \in Threads \ {t} : Still(u)
  BY <1>1, <1>2, <1>3 DEF Still, TypeOK
<1>5. SearchStep(t)
  BY <1>1, <1>2, <1>3, <1>4 DEF SearchStep, TypeOK, Labels, FindLabels, Scanning
<1> QED
  BY <1>5, SearchIInv

LEMMA CreateIInv ==
  ASSUME IInv, NEW t \in Threads, Create(t)
  PROVE  IInv'
<1> USE DEF Goto, poolVars, cacheVars
<1>1. TypeOK /\ TempOK /\ MspaceOK(t)
  BY DEF IInv
<1>2. /\ pc[t] = "create" /\ temp[t] = None
      /\ \A i \in 0 .. end[t] - 1 : m[i] # None
      /\ UNCHANGED <<poolVars, cacheVars, op, tc, mymspace, n, end, ended>>
  BY <1>1 DEF Create, MspaceOK, Scanning, TempOK
<1>3. CASE \E s \in Mspaces \ Created : /\ temp' = [temp EXCEPT ![t] = s]
                                        /\ pc' = [pc EXCEPT ![t] = "install_lock"]
  <2>1. PICK s \in Mspaces \ Created : /\ temp' = [temp EXCEPT ![t] = s]
                                       /\ pc' = [pc EXCEPT ![t] = "install_lock"]
    BY <1>3
  <2>2. /\ pc'[t] = "install_lock" /\ temp'[t] = s /\ s # None
        /\ \A u \in Threads \ {t} : Still(u)
    BY <1>1, <1>2, <2>1 DEF Still, TypeOK
  <2>3. SearchStep(t)
    BY <1>1, <1>2, <2>1, <2>2 DEF SearchStep, TypeOK, Labels, FindLabels, Scanning
  <2> QED
    BY <2>3, SearchIInv
<1>4. CASE pc' = [pc EXCEPT ![t] = "wait"] /\ UNCHANGED temp
  <2>1. pc'[t] = "wait" /\ \A u \in Threads \ {t} : Still(u)
    BY <1>1, <1>2, <1>4 DEF Still, TypeOK
  <2>2. SearchStep(t)
    BY <1>1, <1>2, <1>4, <2>1 DEF SearchStep, TypeOK, Labels, FindLabels, Scanning
  <2> QED
    BY <2>2, SearchIInv
<1> QED
  BY <1>3, <1>4 DEF Create

LEMMA InstallLockIInv ==
  ASSUME IInv, NEW t \in Threads, InstallLock(t)
  PROVE  IInv'
<1> USE DEF Goto, cacheVars, findVars, callVars
<1>1. TypeOK /\ TempOK /\ MspaceOK(t)
  BY DEF IInv
<1>2. /\ pc[t] = "install_lock" /\ temp[t] # None
      /\ \A i \in 0 .. end[t] - 1 : m[i] # None
      /\ mutex = None /\ mutex' = t /\ pc' = [pc EXCEPT ![t] = "install"]
      /\ UNCHANGED <<limit, global_mutex, m, lock, cacheVars, callVars, ended>>
  BY <1>1 DEF InstallLock, MspaceOK, Scanning, TempOK
<1>3. pc'[t] = "install" /\ \A u \in Threads \ {t} : Still(u)
  BY <1>1, <1>2 DEF Still, TypeOK
<1>4. SearchStep(t)
  BY <1>1, <1>2, <1>3 DEF SearchStep, TypeOK, Labels, FindLabels, Scanning
<1> QED
  BY <1>4, SearchIInv

\* The new mspace goes to the first entry that is empty.
LEMMA InstallNew ==
  ASSUME IInv, NEW t \in Threads, pc[t] = "install",
         NEW e \in Index, e = end[t], e < limit, m[e] = None,
         m' = [m EXCEPT ![e] = temp[t]], temp' = [temp EXCEPT ![t] = None],
         pc' = [pc EXCEPT ![t] = "install_take"],
         UNCHANGED <<limit, global_mutex, mutex, lock, cacheVars, op, tc, mymspace,
                     n, end, ended>>
  PROVE  IInv'
<1> USE DEF cacheVars
<1>1. /\ TypeOK /\ InitOK /\ MutexOK /\ MspacesInOrder /\ TempOK
      /\ MspaceOK(t) /\ CacheOK(t) /\ CachesOK /\ Accounted
  BY DEF IInv
<1>2. PICK s \in Mspaces : s = temp[t]
  BY <1>1 DEF TempOK, TypeOK
<1>3. /\ \A u \in Threads \ {t} : Still(u)
      /\ pc'[t] = "install_take" /\ temp'[t] = None /\ m'[e] = s /\ s # None
      /\ \A i \in Index \ {e} : m'[i] = m[i]
  BY <1>1, <1>2 DEF Still, TypeOK
<1>4. \A i \in Index : m[i] # None => m'[i] = m[i]
  BY <1>3
<1>5. e # MaxThreads /\ mutex = t
  BY <1>1 DEF TypeOK, MutexOK, Index
<1>6. TypeOK'
  <2>1. /\ pc' \in [Threads -> Labels]
        /\ temp' \in [Threads -> Mspaces \cup {None}]
        /\ m' \in [Index -> Mspaces \cup {None}]
    BY <1>1, <1>2 DEF TypeOK, Labels, FindLabels
  <2> QED
    BY <1>1, <2>1 DEF TypeOK
<1>7. MspacesInOrder'
  <2>1. m'[MaxThreads] = None
    BY <1>1, <1>3, <1>5 DEF MspacesInOrder, Index
  <2>2. ASSUME NEW i \in Index, NEW j \in Index, i < j, m'[j] # None
        PROVE  m'[i] # None /\ m'[i] # m'[j]
    <3>1. CASE j = e
      <4>1. i \in 0 .. e - 1 /\ i # e
        BY <2>2, <3>1 DEF Index
      <4>2. m[i] # None /\ m'[i] = m[i]
        BY <1>1, <1>3, <4>1 DEF MspaceOK, Scanning
      <4> QED
        BY <1>1, <1>2, <1>3, <3>1, <4>2 DEF TempOK
    <3>2. CASE j # e
      <4>1. m[j] # None /\ m'[j] = m[j]
        BY <1>3, <2>2, <3>2
      <4>2. m[i] # None /\ m[i] # m[j]
        BY <1>1, <2>2, <4>1 DEF MspacesInOrder
      <4> QED
        BY <1>4, <4>1, <4>2
    <3> QED
      BY <3>1, <3>2
  <2> QED
    BY <2>1, <2>2 DEF MspacesInOrder
<1>8. TempOK'
  <2>1. \A u \in Threads : temp'[u] # None <=> pc'[u] \in {"install_lock", "install"}
    BY <1>1, <1>3 DEF TempOK, Still
  <2>2. ASSUME NEW u \in Threads, temp'[u] # None, NEW i \in Index
        PROVE  m'[i] # temp'[u]
    <3>1. u # t /\ temp'[u] = temp[u] /\ temp[u] # None
      BY <1>3, <2>2 DEF Still
    <3>2. m[i] # temp[u] /\ s # temp[u]
      BY <1>1, <1>2, <1>3, <3>1 DEF TempOK
    <3> QED
      BY <1>3, <3>1, <3>2
  <2>3. \A v, u \in Threads : temp'[v] # None /\ temp'[v] = temp'[u] => v = u
    BY <1>1, <1>3 DEF TempOK, Still
  <2> QED
    BY <2>1, <2>2, <2>3 DEF TempOK
<1>9. InitOK'
  <2>1. limit # 0 /\ m[0] # None /\ 0 \in Index
    BY <1>1 DEF InitOK, InitLabels, Index
  <2>2. limit' # 0 /\ m'[0] # None
    BY <1>4, <2>1
  <2>3. \A u \in Threads : pc'[u] \notin {"init_mspace", "init_threads"}
    BY <1>1, <1>3, <2>1 DEF InitOK, Still
  <2> QED
    BY <2>2, <2>3 DEF InitOK
<1>10. CachesOK'
  BY <1>1, <1>4 DEF CachesOK, TypeOK
<1>11. Accounted'
  <2>1. Holding(t)' <=> Holding(t)
    BY <1>3 DEF Holding
  <2> QED
    BY <1>1, <1>3, <2>1, AccountedKept, HoldingStill
<1>12. LocksOK(t)
  BY <1>3, <1>5 DEF LocksOK, MutexLabels
<1>13. MspaceOK(t)'
  <2>1. mymspace[t] \in Index /\ m[mymspace[t]] # None
    BY <1>1 DEF MspaceOK, FindLabels, TypeOK
  <2>2. tls[t] < 0 => m'[-tls[t] - 1] # None
    BY <1>1, <1>4, TlsNames DEF MspaceOK
  <2> QED
    BY <1>3, <1>4, <2>1, <2>2 DEF MspaceOK, Scanning
<1>14. CacheOK(t)'
  BY <1>1, <1>3 DEF CacheOK, FindLabels, AllocLabels, InitLabels
<1> QED
  BY <1>3, <1>4, <1>6, <1>7, <1>8, <1>9, <1>10, <1>11, <1>12, <1>13, <1>14, StepIInv

LEMMA InstallIInv ==
  ASSUME IInv, NEW t \in Threads, Install(t)
  PROVE  IInv'
<1> USE DEF Goto
<1>1. TypeOK /\ MutexOK /\ TempOK /\ MspaceOK(t)
  BY DEF IInv
<1>2. PICK e \in Index : e = end[t]
  BY <1>1 DEF TypeOK
<1>3. /\ pc[t] = "install" /\ mutex = t /\ temp[t] # None
      /\ \A i \in 0 .. e - 1 : m[i] # None
      /\ UNCHANGED <<limit, global_mutex, lock, cacheVars, op, tc, mymspace, n, ended>>
  BY <1>1, <1>2 DEF Install, MspaceOK, MutexOK, Scanning, TempOK
<1>4. CASE /\ m[e] # None /\ e < limit /\ end' = [end EXCEPT ![t] = e + 1]
           /\ UNCHANGED <<m, mutex, temp, pc>>
  <2>1. e + 1 \in Index
    BY <1>1, <1>4 DEF TypeOK, Index
  <2>2. \A i \in 0 .. (e + 1) - 1 : m[i] # None
    BY <1>3, <1>4 DEF Index
  <2>3. end'[t] = e + 1 /\ \A u \in Threads \ {t} : Still(u)
    BY <1>1, <1>3, <1>4 DEF Still, TypeOK, cacheVars
  <2>4. SearchStep(t)
    BY <1>1, <1>3, <1>4, <2>1, <2>2, <2>3 DEF SearchStep, TypeOK, TempOK, FindLabels, Scanning
  <2> QED
    BY <2>4, SearchIInv
<1>5. CASE /\ e < limit /\ m[e] = None
           /\ m' = [m EXCEPT ![e] = temp[t]] /\ temp' = [temp EXCEPT ![t] = None]
           /\ pc' = [pc EXCEPT ![t] = "install_take"] /\ UNCHANGED <<end, mutex>>
  BY <1>2, <1>3, <1>5, InstallNew
<1>6. CASE /\ mutex' = None /\ temp' = [temp EXCEPT ![t] = None]
           /\ pc' = [pc EXCEPT ![t] = "wait"] /\ UNCHANGED <<m, end>>
  <2>1. pc'[t] = "wait" /\ temp'[t] = None /\ \A u \in Threads \ {t} : Still(u)
    BY <1>1, <1>3, <1>6 DEF Still, TypeOK, cacheVars
  <2>2. SearchStep(t)
    BY <1>1, <1>3, <1>6, <2>1 DEF SearchStep, TypeOK, Labels, FindLabels, Scanning
  <2> QED
    BY <2>2, SearchIInv
<1> QED
  BY <1>2, <1>4, <1>5, <1>6 DEF Install

LEMMA InstallTakeIInv ==
  ASSUME IInv, NEW t \in Threads, InstallTake(t)
  PROVE  IInv'
<1>1. TypeOK /\ MutexOK /\ MspaceOK(t)
  BY DEF IInv
<1>2. PICK i \in Index : i = end[t]
  BY <1>1 DEF TypeOK
<1>3. /\ pc[t] = "install_take" /\ m[i] # None /\ TryLock(t, i)
      /\ mutex = t /\ mutex' = None
      /\ UNCHANGED <<limit, global_mutex, m, ended>>
  BY <1>1, <1>2 DEF InstallTake, MspaceOK, MutexOK
<1> QED
  BY <1>3, TryLockIInv

------------------------------------------------------------------------------
\* nedtrimthreadcache and the end of a thread

LEMMA DisableIInv ==
  ASSUME IInv, NEW t \in Threads, Disable(t)
  PROVE  IInv'
<1> USE DEF Goto, poolVars, findVars
<1>1. TypeOK /\ InitOK /\ TempOK /\ MspaceOK(t) /\ CacheOK(t) /\ CachesOK
  BY DEF IInv
<1>2. /\ pc[t] = "tls" /\ temp[t] = None /\ tc[t] = 0 /\ m[0] # None /\ tls[t] \in Int
      /\ UNCHANGED <<poolVars, caches, cache_mspace, ended>>
  BY <1>1 DEF Disable, InitOK, InitLabels, TempOK, CacheOK, TypeOK
<1>3. CASE tls[t] > 0
  <2>1. PICK k \in Slots : k = tls[t]
    BY <1>1, <1>3, TlsNames
  <2>2. caches[k] = t /\ cache_mspace[k] \in Index
    BY <1>1, <1>3, <2>1 DEF CacheOK, TypeOK
  <2>3. /\ tc' = [tc EXCEPT ![t] = k]
        /\ tls' = [tls EXCEPT ![t] = -cache_mspace[k]]
        /\ pc' = [pc EXCEPT ![t] = "disable_free"]
        /\ UNCHANGED <<op, mymspace, findVars>>
    BY <1>3, <2>1 DEF Disable
  <2>4. PICK i \in Index : i = cache_mspace[k] /\ m[i] # None
    BY <1>1, <2>2 DEF CachesOK
  <2>5. /\ -i \in -MaxThreads .. MaxCaches /\ -i <= 0 /\ ~ (-i > 0)
    BY SizeAssumption DEF Index
  <2>6. TypeOK'
    <3>1. /\ pc' \in [Threads -> Labels] /\ tc' \in [Threads -> 0 .. MaxCaches]
          /\ tls' \in [Threads -> -MaxThreads .. MaxCaches]
      BY <1>1, <2>3, <2>4, <2>5 DEF TypeOK, Labels, Slots
    <3> QED
      BY <1>1, <1>2, <2>3, <3>1 DEF TypeOK
  <2>7. /\ \A u \in Threads \ {t} : Still(u)
        /\ pc'[t] = "disable_free" /\ tc'[t] = k /\ tls'[t] = -i /\ temp'[t] = None
    BY <1>1, <1>2, <2>3, <2>4 DEF Still, TypeOK
  <2>8. LocksOK(t) /\ (Holding(t)' <=> Holding(t))
    BY <1>2, <1>3, <2>7 DEF LocksOK, MutexLabels, Holding
  <2>9. MspaceOK(t)'
    <3>1. -i < 0 => m[-(-i) - 1] # None
      <4>1. -i < 0 => -(-i) - 1 \in Index /\ -(-i) - 1 < i
        BY DEF Index
      <4> QED
        BY <2>4, <4>1 DEF IInv, MspacesInOrder
    <3> QED
      BY <1>2, <2>7, <3>1 DEF MspaceOK, FindLabels, Scanning
  <2>10. CacheOK(t)'
    BY <1>2, <2>2, <2>5, <2>7 DEF CacheOK, FindLabels, AllocLabels, InitLabels
  <2> QED
    BY <1>1, <1>2, <2>6, <2>7, <2>8, <2>9, <2>10, QuietIInv DEF CachesOK, InitLabels
<1>4. CASE ~ (tls[t] > 0)
  <2>1. Return(t) /\ tls' = [tls EXCEPT ![t] = IF tls[t] = 0 THEN -1 ELSE tls[t]]
    BY <1>4 DEF Disable
  <2>2. /\ \A u \in Threads \ {t} : Still(u)
        /\ pc'[t] = "idle" /\ tc'[t] = 0 /\ temp'[t] = None
        /\ tls'[t] = IF tls[t] = 0 THEN -1 ELSE tls[t]
    BY <1>1, <2>1, ReturnsOK DEF Still, TypeOK
  <2>3. TypeOK'
    <3>1. -1 \in -MaxThreads .. MaxCaches
      BY SizeAssumption
    <3>2. tls' \in [Threads -> -MaxThreads .. MaxCaches]
      BY <1>1, <2>1, <3>1 DEF TypeOK
    <3> QED
      BY <1>1, <1>2, <2>1, <3>2, ReturnsOK DEF TypeOK
  <2>4. tls'[t] < 0 /\ ~ (tls'[t] > 0)
    BY <1>2, <1>4, <2>2
  <2>5. LocksOK(t) /\ (Holding(t)' <=> Holding(t))
    BY <1>2, <1>4, <2>2, <2>4 DEF LocksOK, MutexLabels, Holding
  <2>6. MspaceOK(t)'
    <3>1. m[-tls'[t] - 1] # None
      BY <1>1, <1>2, <1>4, <2>2 DEF MspaceOK
    <3> QED
      BY <1>2, <2>2, <3>1 DEF MspaceOK, FindLabels, Scanning
  <2>7. CacheOK(t)'
    BY <2>2, <2>4 DEF CacheOK, FindLabels, AllocLabels, InitLabels
  <2> QED
    BY <1>1, <1>2, <2>2, <2>3, <2>5, <2>6, <2>7, QuietIInv DEF CachesOK, InitLabels
<1> QED
  BY <1>3, <1>4

LEMMA DisableFreeIInv ==
  ASSUME IInv, NEW t \in Threads, DisableFree(t)
  PROVE  IInv'
<1> USE DEF poolVars
<1>1. /\ TypeOK /\ InitOK /\ MspacesInOrder /\ TempOK /\ MspaceOK(t) /\ CacheOK(t)
      /\ CachesOK /\ Accounted
  BY DEF IInv
<1>2. PICK k \in Slots : k = tc[t] /\ caches[k] = t
  BY <1>1 DEF DisableFree, CacheOK
<1>3. /\ pc[t] = "disable_free" /\ tls[t] <= 0 /\ tls[t] \in Int /\ temp[t] = None
      /\ caches' = [caches EXCEPT ![k] = None]
      /\ cache_mspace' = [cache_mspace EXCEPT ![k] = 0]
      /\ Return(t)
      /\ UNCHANGED <<poolVars, tls, ended>>
  BY <1>1, <1>2 DEF DisableFree, CacheOK, TempOK, TypeOK
<1>4. /\ \A u \in Threads \ {t} : Still(u)
      /\ pc'[t] = "idle" /\ tc'[t] = 0 /\ temp'[t] = None
  BY <1>3, ReturnsOK DEF Still
<1>5. TypeOK'
  <2>1. 0 \in Index
    BY SizeAssumption DEF Index
  <2>2. caches' \in [Slots -> Threads \cup {None}] /\ cache_mspace' \in [Slots -> Index]
    BY <1>1, <1>3, <2>1 DEF TypeOK
  <2> QED
    BY <1>1, <1>3, <2>2, ReturnsOK DEF TypeOK
<1>6. LocksOK(t)
  BY <1>3, <1>4 DEF LocksOK, MutexLabels
<1>7. InitOK'
  BY <1>1, <1>3, <1>4 DEF InitOK, InitLabels, Still
<1>8. MspacesInOrder'
  BY <1>1, <1>3 DEF MspacesInOrder
<1>9. TempOK'
  BY <1>1, <1>3, <1>4 DEF TempOK, Still
<1>10. CachesOK'
  BY <1>1, <1>3 DEF CachesOK, TypeOK
<1>11. Accounted'
  <2>1. Holding(t) /\ ~ Holding(t)'
    BY <1>3, <1>4 DEF Holding
  <2>2. \A u \in Threads \ {t} : Holding(u)' <=> Holding(u)
    BY <1>4, HoldingStill
  <2>3. caches[k] # None
    BY <1>2, NoneAssumption
  <2> QED
    BY <1>1, <1>3, <2>1, <2>2, <2>3, EntryCleared
<1>12. MspaceOK(t)'
  BY <1>1, <1>3, <1>4 DEF MspaceOK, FindLabels, Scanning
<1>13. CacheOK(t)'
  BY <1>3, <1>4 DEF CacheOK, FindLabels, AllocLabels, InitLabels
<1>14. \A j \in Slots : caches'[j] = caches[j] \/ (caches[j] = t /\ caches'[j] = None)
  BY <1>1, <1>2, <1>3 DEF TypeOK
<1> QED
  BY <1>3, <1>4, <1>5, <1>6, <1>7, <1>8, <1>9, <1>10, <1>11, <1>12, <1>13, <1>14, StepIInv

\* A thread that ends holds an entry of caches no more, and the entry is lost.
LEMMA EntryLost ==
  ASSUME TypeOK, Accounted, NEW t \in Threads,
         UNCHANGED <<caches, pc>>, tls' = [tls EXCEPT ![t] = 0], pc[t] = "idle",
         ended' = IF tls[t] > 0 THEN ended + 1 ELSE ended
  PROVE  Accounted' /\ ended' \in 0 .. MaxCaches
<1>1. /\ IsFiniteSet(Holders) /\ IsFiniteSet(Taken) /\ Cardinality(Taken) <= MaxCaches
      /\ Cardinality(Taken) = Cardinality(Holders) + ended /\ ended \in Nat
  BY TakenFinite, FS_Subset DEF Accounted, TypeOK, Taken
<1>2. Cardinality(Taken) \in Nat /\ Cardinality(Holders) \in Nat
  BY <1>1, FS_CardinalityType
<1>3. Taken' = Taken /\ ~ Holding(t)' /\ tls[t] \in Int
  BY DEF Taken, Holding, TypeOK
<1>4. \A u \in Threads \ {t} : Holding(u)' <=> Holding(u)
  BY DEF Holding, TypeOK
<1>5. Holders' = Holders \ {t}
  BY <1>3, <1>4 DEF Holders
<1>6. CASE tls[t] > 0
  <2>1. t \in Holders
    BY <1>6 DEF Holders, Holding
  <2>2. IsFiniteSet(Holders') /\ Cardinality(Holders') = Cardinality(Holders) - 1
    BY <1>1, <1>5, <2>1, FS_RemoveElement
  <2>3. Cardinality(Holders') \in Nat
    BY <2>2, FS_CardinalityType
  <2>4. ended' = ended + 1 /\ Cardinality(Taken) = Cardinality(Holders') + ended'
    BY <1>1, <1>2, <1>6, <2>2
  <2>5. ended' \in 0 .. MaxCaches
    BY <1>1, <2>3, <2>4, SizeAssumption
  <2> QED
    BY <1>3, <2>2, <2>4, <2>5 DEF Accounted
<1>7. CASE ~ (tls[t] > 0)
  <2>1. t \notin Holders
    BY <1>7 DEF Holders, Holding
  <2>2. Holders' = Holders /\ ended' = ended
    BY <1>5, <1>7, <2>1
  <2> QED
    BY <1>1, <1>3, <2>2 DEF Accounted, TypeOK
<1> QED
  BY <1>6, <1>7

LEMMA EndThreadIInv ==
  ASSUME IInv, NEW t \in Threads, EndThread(t)
  PROVE  IInv'
<1> USE DEF poolVars, callVars, findVars
<1>1. /\ TypeOK /\ InitOK /\ MspacesInOrder /\ TempOK /\ MspaceOK(t) /\ CacheOK(t)
      /\ CachesOK /\ Accounted
  BY DEF IInv
<1>2. /\ pc[t] = "idle" /\ tls' = [tls EXCEPT ![t] = 0]
      /\ ended' = IF tls[t] > 0 THEN ended + 1 ELSE ended
      /\ UNCHANGED <<poolVars, caches, cache_mspace, pc, callVars>>
  BY DEF EndThread
<1>3. Accounted' /\ ended' \in 0 .. MaxCaches
  BY <1>1, <1>2, EntryLost
<1>4. TypeOK'
  <2>1. tls' \in [Threads -> -MaxThreads .. MaxCaches]
    BY <1>1, <1>2, SizeAssumption DEF TypeOK
  <2> QED
    BY <1>1, <1>2, <1>3, <2>1 DEF TypeOK
<1>5. tls'[t] = 0 /\ \A u \in Threads \ {t} : Still(u)
  BY <1>1, <1>2 DEF Still, TypeOK
<1>6. LocksOK(t)
  BY <1>2 DEF LocksOK, MutexLabels
<1>7. InitOK' /\ MspacesInOrder' /\ TempOK' /\ CachesOK'
  BY <1>1, <1>2 DEF InitOK, MspacesInOrder, TempOK, CachesOK
<1>8. MspaceOK(t)' /\ CacheOK(t)'
  BY <1>1, <1>2, <1>5 DEF MspaceOK, CacheOK, Scanning, FindLabels, AllocLabels, InitLabels
<1> QED
  BY <1>2, <1>3, <1>4, <1>5, <1>6, <1>7, <1>8, StepIInv

------------------------------------------------------------------------------
\* The invariant

LEMMA InitIInv == Init => IInv
<1> SUFFICES ASSUME Init PROVE IInv
  OBVIOUS
<1> USE DEF Init
<1>1. TypeOK
  BY DEF TypeOK, Labels, Index
<1>2. InitOK /\ MutexOK /\ TempOK /\ CachesOK /\ LockedForUse
  BY DEF InitOK, MutexOK, TempOK, CachesOK, LockedForUse
<1>3. MspacesInOrder
  BY DEF MspacesInOrder, Index
<1>4. \A t \in Threads : MspaceOK(t) /\ CacheOK(t)
  BY DEF MspaceOK, CacheOK, FindLabels, Scanning, AllocLabels
<1>5. Accounted
  <2>1. Taken = {} /\ Holders = {}
    BY DEF Taken, Holders, Holding
  <2> QED
    BY <2>1, FS_EmptySet DEF Accounted
<1> QED
  BY <1>1, <1>2, <1>3, <1>4, <1>5 DEF IInv

LEMMA NextIInv == IInv /\ [Next]_vars => IInv'
<1> SUFFICES ASSUME IInv, [Next]_vars PROVE IInv'
  OBVIOUS
<1>1. ASSUME NEW t \in Threads, InitPool(t) PROVE IInv'
  BY <1>1, InitPoolIInv
<1>2. ASSUME NEW t \in Threads, AllocCache(t) PROVE IInv'
  BY <1>2, AllocLockIInv, AllocScanIInv, AllocMemoryIInv, AllocTlsIInv DEF AllocCache
<1>3. ASSUME NEW t \in Threads, FindMSpace(t) PROVE IInv'
  BY <1>3, ScanUpIInv, ScanUpEndIInv, ScanDownIInv, ScanDownEndIInv, CreateIInv,
     InstallLockIInv, InstallIInv, InstallTakeIInv, LockLastIInv DEF FindMSpace
<1>4. ASSUME NEW t \in Threads, Call(t) \/ HasCache(t) \/ NeedsCache(t) PROVE IInv'
  BY <1>4, CallIInv, HasCacheIInv, NeedsCacheIInv
<1>5. ASSUME NEW t \in Threads, \/ UseCache(t) \/ FreeBlock(t) \/ TryLast(t)
                                \/ LastIsLocked(t) \/ MallocAndUnlock(t)
      PROVE IInv'
  BY <1>5, UseIInv, LockLastIInv, LastIsLockedIInv, MallocAndUnlockIInv
<1>6. ASSUME NEW t \in Threads, Disable(t) \/ DisableFree(t) \/ EndThread(t) PROVE IInv'
  BY <1>6, DisableIInv, DisableFreeIInv, EndThreadIInv
<1>7. CASE UNCHANGED vars
  <2>1. /\ TypeOK' /\ InitOK' /\ MutexOK' /\ MspacesInOrder' /\ TempOK'
        /\ CachesOK' /\ LockedForUse'
    BY <1>7 DEF IInv, vars, poolVars, cacheVars, callVars, findVars, TypeOK, InitOK,
                MutexOK, MspacesInOrder, TempOK, CachesOK, LockedForUse
  <2>2. \A t \in Threads : MspaceOK(t)' /\ CacheOK(t)'
    BY <1>7 DEF IInv, vars, poolVars, cacheVars, callVars, findVars, MspaceOK, CacheOK
  <2>3. Accounted'
    BY <1>7, AccountedKept DEF IInv, vars, poolVars, cacheVars, callVars, findVars, Holding
  <2> QED
    BY <2>1, <2>2, <2>3 DEF IInv
<1> QED
  BY <1>1, <1>2, <1>3, <1>4, <1>5, <1>6, <1>7 DEF Next, Step

\* Whatever the threads do at once, the pool keeps its invariant.
THEOREM Invariance == Spec => []IInv
BY InitIInv, NextIInv, PTL DEF Spec

\* The values of the pool, of the caches and of the threads' locals have their
\* types: no index into m or caches is ever out of its bounds.
THEOREM TypeCorrect == Spec => []TypeOK
<1>1. IInv => TypeOK
  BY DEF IInv
<1> QED
  BY <1>1, Invariance, PTL

\* "Returns a locked and ready for use mspace" (GetMSpace): a thread allocates
\* only in an mspace it has locked itself, for any number of threads.
THEOREM AllocatesLocked == Spec => []LockedForUse
<1>1. IInv => LockedForUse
  BY DEF IInv
<1> QED
  BY <1>1, Invariance, PTL

\* What the code reads without the mutex is good when it is used: the first
\* mspace exists, the mspaces fill m from the start without duplicates, a thread's
\* cache is its own, and an entry of caches is taken by a thread that lives or
\* was lost with one that ended.
THEOREM Consistent == Spec => []PoolConsistent
<1>1. ASSUME IInv PROVE PoolConsistent
  <2>1. TypeOK /\ InitOK /\ MspacesInOrder /\ Accounted /\ \A t \in Threads : CacheOK(t)
    BY <1>1 DEF IInv
  <2>2. PoolReady
    BY <2>1 DEF PoolReady, InitOK
  <2>3. CacheOwned
    BY <2>1 DEF CacheOwned, CacheOK
  <2>4. EntriesAccounted
    BY <2>1 DEF EntriesAccounted, Accounted, Taken, Holders
  <2> QED
    BY <2>1, <2>2, <2>3, <2>4 DEF PoolConsistent
<1> QED
  BY <1>1, Invariance, PTL

------------------------------------------------------------------------------
\* The pool never jams.  A lock that is taken has an owner who is where the code
\* between taking and releasing it is: none is left behind.

Owners ==
  /\ \A t \in Threads : global_mutex = t => pc[t] \in {"init_mspace", "init_threads"}
  /\ \A t \in Threads : mutex = t => pc[t] \in MutexLabels
  /\ \A s \in Mspaces, t \in Threads :
       lock[s] = t => pc[t] = "held" /\ m[mymspace[t]] = s

\* What a step of thread t may do to the locks.
Moves(t) ==
  /\ \A u \in Threads \ {t} : pc'[u] = pc[u] /\ mymspace'[u] = mymspace[u]
  /\ \A i \in Index : m[i] # None => m'[i] = m[i]
  /\ \/ global_mutex' = None
     \/ global_mutex' = global_mutex /\ global_mutex # t
     \/ pc'[t] \in {"init_mspace", "init_threads"} /\ global_mutex' = t
  /\ \/ mutex' = None
     \/ mutex' = mutex /\ mutex # t
     \/ pc'[t] \in MutexLabels /\ mutex' = t
  /\ \A s \in Mspaces :
       \/ lock'[s] = None
       \/ lock'[s] = lock[s] /\ lock[s] # t
       \/ lock'[s] = t /\ pc'[t] = "held" /\ m'[mymspace'[t]] = s

LEMMA MovesKeep ==
  ASSUME TypeOK, Owners, NEW t \in Threads, Moves(t)
  PROVE  Owners'
<1> USE DEF Moves
<1>1. ASSUME NEW u \in Threads, global_mutex' = u
      PROVE  pc'[u] \in {"init_mspace", "init_threads"}
  BY <1>1, NoneAssumption DEF Owners
<1>2. ASSUME NEW u \in Threads, mutex' = u
      PROVE  pc'[u] \in MutexLabels
  BY <1>2, NoneAssumption DEF Owners
<1>3. ASSUME NEW s \in Mspaces, NEW u \in Threads, lock'[s] = u
      PROVE  pc'[u] = "held" /\ m'[mymspace'[u]] = s
  <2>1. CASE u = t
    BY <1>3, <2>1, NoneAssumption
  <2>2. CASE u # t
    <3>1. lock[s] = u /\ s # None
      BY <1>3, <2>2, NoneAssumption
    <3>2. pc[u] = "held" /\ m[mymspace[u]] = s /\ mymspace[u] \in Index
      BY <3>1 DEF Owners, TypeOK
    <3> QED
      BY <2>2, <3>1, <3>2
  <2> QED
    BY <2>1, <2>2
<1> QED
  BY <1>1, <1>2, <1>3 DEF Owners

\* A step that touches no lock, of a thread that has none.
LEMMA NoLockMoves ==
  ASSUME TypeOK, Owners, NEW t \in Threads,
         UNCHANGED <<global_mutex, mutex, m, lock>>,
         pc[t] \notin {"init_mspace", "init_threads", "held"} \cup MutexLabels,
         pc' = [pc EXCEPT ![t] = pc'[t]],
         mymspace' = [mymspace EXCEPT ![t] = mymspace'[t]]
  PROVE  Moves(t)
<1>1. \A u \in Threads \ {t} : pc'[u] = pc[u] /\ mymspace'[u] = mymspace[u]
  BY DEF TypeOK
<1>2. global_mutex # t /\ mutex # t /\ \A s \in Mspaces : lock[s] # t
  BY DEF Owners
<1> QED
  BY <1>1, <1>2 DEF Moves

LEMMA QuietMoves ==
  ASSUME TypeOK, Owners, NEW t \in Threads,
         \/ Call(t) \/ HasCache(t) \/ NeedsCache(t) \/ AllocTls(t)
         \/ UseCache(t) \/ FreeBlock(t) \/ LastIsLocked(t)
         \/ ScanUpEnd(t) \/ ScanDownEnd(t) \/ Create(t)
         \/ Disable(t) \/ DisableFree(t) \/ EndThread(t)
  PROVE  Moves(t)
<1> USE DEF Goto, Return, poolVars, callVars, MutexLabels, TypeOK
<1>1. CASE Call(t) \/ NeedsCache(t) \/ EndThread(t)
  BY <1>1, NoLockMoves DEF Call, NeedsCache, EndThread
<1>2. CASE HasCache(t)
  BY <1>2, NoLockMoves DEF HasCache
<1>3. CASE AllocTls(t)
  BY <1>3, NoLockMoves DEF AllocTls
<1>4. CASE UseCache(t) \/ FreeBlock(t)
  BY <1>4, NoLockMoves DEF UseCache, FreeBlock
<1>5. CASE LastIsLocked(t) \/ ScanUpEnd(t) \/ ScanDownEnd(t)
  BY <1>5, NoLockMoves DEF LastIsLocked, ScanUpEnd, ScanDownEnd
<1>6. CASE Create(t)
  BY <1>6, NoLockMoves DEF Create
<1>7. CASE Disable(t)
  BY <1>7, NoLockMoves DEF Disable
<1>8. CASE DisableFree(t)
  BY <1>8, NoLockMoves DEF DisableFree
<1> QED
  BY <1>1, <1>2, <1>3, <1>4, <1>5, <1>6, <1>7, <1>8

LEMMA InitPoolMoves ==
  ASSUME IInv, Owners, NEW t \in Threads, InitPool(t)
  PROVE  Moves(t)
<1> USE DEF Goto, callVars
<1>1. TypeOK /\ InitOK
  BY DEF IInv
<1>2. /\ UNCHANGED <<mutex, lock, mymspace>>
      /\ pc[t] \in {"init", "init_mspace", "init_threads"}
      /\ pc' = [pc EXCEPT ![t] = pc'[t]]
  BY <1>1 DEF InitPool, InitLock, InitMspace, InitThreads, TypeOK
<1>3. /\ \A u \in Threads \ {t} : pc'[u] = pc[u] /\ mymspace'[u] = mymspace[u]
      /\ mutex # t /\ \A s \in Mspaces : lock[s] # t
  BY <1>1, <1>2 DEF Owners, MutexLabels, TypeOK
<1>4. \A i \in Index : m[i] # None => m'[i] = m[i]
  BY <1>1 DEF InitPool, InitLock, InitMspace, InitThreads, InitOK
<1>5. \/ global_mutex' = None
      \/ global_mutex' = global_mutex /\ global_mutex # t
      \/ pc'[t] \in {"init_mspace", "init_threads"} /\ global_mutex' = t
  <2>1. CASE InitLock(t)
    BY <1>1, <2>1, NoneAssumption DEF InitLock, TypeOK
  <2>2. CASE InitMspace(t)
    BY <1>1, <2>2 DEF InitMspace, TypeOK, InitOK
  <2>3. CASE InitThreads(t)
    BY <2>3 DEF InitThreads
  <2> QED
    BY <2>1, <2>2, <2>3 DEF InitPool
<1> QED
  BY <1>2, <1>3, <1>4, <1>5 DEF Moves

\* The steps that take or release the mutex, or keep it.
LEMMA MutexMoves ==
  ASSUME IInv, Owners, NEW t \in Threads,
         AllocLock(t) \/ AllocScan(t) \/ AllocMemory(t) \/ InstallLock(t) \/ Install(t)
  PROVE  Moves(t)
<1> USE DEF Goto, NoCache, callVars, findVars
<1>1. TypeOK /\ MutexOK
  BY DEF IInv
<1>2. /\ UNCHANGED <<global_mutex, lock>>
      /\ pc[t] \in {"alloc", "alloc_scan", "alloc_memory", "install_lock", "install"}
      /\ pc' = [pc EXCEPT ![t] = pc'[t]]
      /\ mymspace' = [mymspace EXCEPT ![t] = mymspace'[t]]
  <2>1. CASE AllocLock(t) \/ InstallLock(t)
    BY <1>1, <2>1 DEF AllocLock, InstallLock, TypeOK
  <2>2. CASE AllocScan(t)
    BY <1>1, <2>2 DEF AllocScan, TypeOK
  <2>3. CASE AllocMemory(t)
    BY <1>1, <2>3 DEF AllocMemory, TypeOK
  <2>4. CASE Install(t)
    BY <1>1, <2>4 DEF Install, TypeOK
  <2> QED
    BY <2>1, <2>2, <2>3, <2>4
<1>3. /\ \A u \in Threads \ {t} : pc'[u] = pc[u] /\ mymspace'[u] = mymspace[u]
      /\ global_mutex # t /\ \A s \in Mspaces : lock[s] # t
  BY <1>1, <1>2 DEF Owners, TypeOK
<1>4. \A i \in Index : m[i] # None => m'[i] = m[i]
  BY <1>1 DEF AllocLock, AllocScan, AllocMemory, InstallLock, Install, TypeOK
<1>5. mutex' = None \/ (pc'[t] \in MutexLabels /\ mutex' = t)
  <2>1. CASE AllocLock(t) \/ InstallLock(t)
    BY <1>1, <2>1 DEF AllocLock, InstallLock, MutexLabels, TypeOK
  <2>2. CASE AllocScan(t)
    BY <1>1, <2>2 DEF AllocScan, MutexLabels, MutexOK, TypeOK
  <2>3. CASE AllocMemory(t)
    BY <2>3 DEF AllocMemory
  <2>4. CASE Install(t)
    BY <1>1, <2>4 DEF Install, MutexLabels, MutexOK, TypeOK
  <2> QED
    BY <2>1, <2>2, <2>3, <2>4
<1> QED
  BY <1>2, <1>3, <1>4, <1>5 DEF Moves

\* The lock of an mspace that is there is taken by a thread that prefers it from
\* then on.
LEMMA TakesMspace ==
  ASSUME TypeOK, Owners, NEW t \in Threads, NEW i \in Index, m[i] # None,
         lock' = [lock EXCEPT ![m[i]] = t],
         UNCHANGED <<global_mutex, m>>,
         mutex' = None \/ (mutex' = mutex /\ mutex # t),
         pc[t] \notin {"held", "init_mspace", "init_threads"},
         pc' = [pc EXCEPT ![t] = "held"],
         mymspace' = [mymspace EXCEPT ![t] = i]
  PROVE  Moves(t)
<1>1. \A u \in Threads \ {t} : pc'[u] = pc[u] /\ mymspace'[u] = mymspace[u]
  BY DEF TypeOK
<1>2. global_mutex # t /\ \A s \in Mspaces : lock[s] # t
  BY DEF Owners
<1>3. pc'[t] = "held" /\ m'[mymspace'[t]] = m[i] /\ m[i] \in Mspaces
  BY DEF TypeOK
<1>4. \A s \in Mspaces : lock'[s] = IF s = m[i] THEN t ELSE lock[s]
  BY DEF TypeOK
<1> QED
  BY <1>1, <1>2, <1>3, <1>4 DEF Moves

LEMMA TakingMoves ==
  ASSUME IInv, Owners, NEW t \in Threads,
         TryLast(t) \/ WaitForLast(t) \/ ScanUp(t) \/ ScanDown(t) \/ InstallTake(t)
  PROVE  Moves(t)
<1> USE DEF Goto, callVars
<1>1. TypeOK /\ MspaceOK(t) /\ mymspace[t] \in Index /\ n[t] \in Index /\ end[t] \in Index
  BY DEF IInv, TypeOK
<1>2. ASSUME TryLast(t) \/ WaitForLast(t) PROVE Moves(t)
  <2>1. /\ pc[t] \in {"use", "wait"} /\ lock' = [lock EXCEPT ![m[mymspace[t]]] = t]
        /\ pc' = [pc EXCEPT ![t] = "held"]
        /\ UNCHANGED <<global_mutex, mutex, m, mymspace>>
    BY <1>2 DEF TryLast, WaitForLast
  <2>2. m[mymspace[t]] # None /\ mutex # t
    BY <1>1, <2>1 DEF MspaceOK, FindLabels, Owners, MutexLabels
  <2>3. mymspace' = [mymspace EXCEPT ![t] = mymspace[t]]
    BY <1>1, <2>1 DEF TypeOK
  <2> QED
    BY <1>1, <2>1, <2>2, <2>3, TakesMspace
<1>3. ASSUME ScanUp(t) \/ ScanDown(t) PROVE Moves(t)
  <2>1. /\ pc[t] \in {"scan_up", "scan_down"} /\ m[n[t]] # None
        /\ UNCHANGED <<global_mutex, mutex, m>>
    BY <1>3 DEF ScanUp, ScanDown
  <2>2. mutex # t
    BY <2>1 DEF Owners, MutexLabels
  <2>3. CASE TryLock(t, n[t])
    BY <1>1, <2>1, <2>2, <2>3, TakesMspace DEF TryLock, FoundAt
  <2>4. CASE ~TryLock(t, n[t])
    <3>1. UNCHANGED <<lock, pc, mymspace>>
      BY <1>3, <2>4 DEF ScanUp, ScanDown
    <3>2. /\ pc' = [pc EXCEPT ![t] = pc'[t]]
          /\ mymspace' = [mymspace EXCEPT ![t] = mymspace'[t]]
      BY <1>1, <3>1 DEF TypeOK
    <3> QED
      BY <1>1, <2>1, <3>1, <3>2, NoLockMoves DEF MutexLabels
  <2> QED
    BY <2>3, <2>4
<1>4. ASSUME InstallTake(t) PROVE Moves(t)
  <2>1. /\ pc[t] = "install_take" /\ TryLock(t, end[t]) /\ mutex' = None
        /\ UNCHANGED <<global_mutex, m>>
    BY <1>4 DEF InstallTake
  <2>2. m[end[t]] # None
    BY <1>1, <2>1 DEF MspaceOK
  <2> QED
    BY <1>1, <2>1, <2>2, TakesMspace DEF TryLock, FoundAt
<1> QED
  BY <1>2, <1>3, <1>4

LEMMA MallocAndUnlockMoves ==
  ASSUME IInv, Owners, NEW t \in Threads, MallocAndUnlock(t)
  PROVE  Moves(t)
<1>1. TypeOK
  BY DEF IInv
<1>2. /\ pc[t] = "held" /\ lock' = [lock EXCEPT ![m[mymspace[t]]] = None]
      /\ UNCHANGED <<global_mutex, mutex, m>>
      /\ pc' = [pc EXCEPT ![t] = "idle"] /\ mymspace' = [mymspace EXCEPT ![t] = 0]
  BY DEF MallocAndUnlock, Return, Goto
<1>3. \A u \in Threads \ {t} : pc'[u] = pc[u] /\ mymspace'[u] = mymspace[u]
  BY <1>1, <1>2 DEF TypeOK
<1>4. global_mutex # t /\ mutex # t
  BY <1>2 DEF Owners, MutexLabels
<1>5. \A s \in Mspaces : lock'[s] = None \/ (lock'[s] = lock[s] /\ lock[s] # t)
  BY <1>1, <1>2 DEF Owners, TypeOK
<1> QED
  BY <1>2, <1>3, <1>4, <1>5 DEF Moves

LEMMA OwnersStep == IInv /\ Owners /\ [Next]_vars => Owners'
<1> SUFFICES ASSUME IInv, Owners, [Next]_vars PROVE Owners'
  OBVIOUS
<1>1. TypeOK
  BY DEF IInv
<1>2. ASSUME NEW t \in Threads, Call(t) \/ Step(t) \/ EndThread(t) PROVE Moves(t)
  BY <1>1, <1>2, QuietMoves, InitPoolMoves, MutexMoves, TakingMoves, MallocAndUnlockMoves
     DEF Step, InitPool, AllocCache, FindMSpace
<1>3. CASE UNCHANGED vars
  BY <1>3 DEF Owners, vars, poolVars, callVars
<1> QED
  BY <1>1, <1>2, <1>3, MovesKeep DEF Next

\* Where all locks of mspaces are free, the owner of the mutex goes on; otherwise
\* the owner of one of them does.
LEMMA SomebodyGoesOn == IInv /\ Owners => NeverJammed
<1> SUFFICES ASSUME IInv, Owners, NEW u \in Threads, pc[u] # "idle"
             PROVE  \E t \in Threads : pc[t] # "idle" /\ ~Waits(t)
  BY DEF NeverJammed, Inside
<1>1. TypeOK /\ InitOK
  BY DEF IInv
<1>2. CASE \E s \in Mspaces : lock[s] # None
  <2>1. PICK s \in Mspaces : lock[s] # None
    BY <1>2
  <2>2. PICK t \in Threads : lock[s] = t
    BY <1>1, <2>1 DEF TypeOK
  <2>3. pc[t] = "held"
    BY <2>2 DEF Owners
  <2> QED
    BY <2>3 DEF Waits
<1>3. CASE \A s \in Mspaces : lock[s] = None
  <2>1. ASSUME NEW t \in Threads,
               pc[t] \notin {"idle", "init", "alloc", "install_lock"}
        PROVE  ~Waits(t)
    <3>1. pc[t] \in {"alloc_memory", "disable_free"} => m[0] \in Mspaces
      <4>1. 0 \in Index
        BY SizeAssumption DEF Index
      <4>2. m[0] \in Mspaces \cup {None}
        BY <1>1, <4>1 DEF TypeOK
      <4>3. pc[t] \in {"alloc_memory", "disable_free"} => m[0] # None
        BY <1>1 DEF InitOK, InitLabels
      <4> QED
        BY <4>2, <4>3
    <3>2. pc[t] = "install_take" => m[end[t]] \in Mspaces
      BY <1>1 DEF IInv, MspaceOK, TypeOK
    <3>3. pc[t] = "wait" => m[mymspace[t]] \in Mspaces
      BY <1>1 DEF IInv, MspaceOK, FindLabels, TypeOK
    <3> QED
      BY <1>3, <2>1, <3>1, <3>2, <3>3 DEF Waits
  <2>2. CASE mutex # None
    <3>1. PICK t \in Threads : mutex = t
      BY <1>1, <2>2 DEF TypeOK
    <3>2. pc[t] \in MutexLabels
      BY <3>1 DEF Owners
    <3> QED
      BY <2>1, <3>2 DEF MutexLabels
  <2>3. CASE mutex = None /\ global_mutex # None
    <3>1. PICK t \in Threads : global_mutex = t
      BY <1>1, <2>3 DEF TypeOK
    <3>2. pc[t] \in {"init_mspace", "init_threads"}
      BY <3>1 DEF Owners
    <3> QED
      BY <2>1, <3>2
  <2>4. CASE mutex = None /\ global_mutex = None
    <3>1. ~Waits(u)
      BY <2>1, <2>4 DEF Waits
    <3> QED
      BY <3>1
  <2> QED
    BY <2>2, <2>3, <2>4
<1> QED
  BY <1>2, <1>3

\* Of the threads inside the allocator one can go on, for any number of threads
\* and mspaces: the locks of the pool and of its mspaces never form a circle.
THEOREM PoolNeverJams == Spec => []NeverJammed
<1>1. Init => Owners
  BY NoneAssumption DEF Init, Owners
<1>2. IInv /\ Owners /\ [Next]_vars => Owners'
  BY OwnersStep
<1>3. IInv /\ Owners => NeverJammed
  BY SomebodyGoesOn
<1> QED
  BY <1>1, <1>2, <1>3, Invariance, PTL DEF Spec

==============================================================================
