---------------------------- MODULE AllocatorPool ----------------------------
(***************************************************************************)
(* The system pool of nedmalloc.c: how threads come to a thread cache and  *)
(* to a locked mspace.  InitPool, AllocCache, FindMSpace, GetMSpace,       *)
(* GetThreadCache, nedtrimthreadcache, and nedpmalloc2 and nedpfree2       *)
(* around them.                                                            *)
(*                                                                         *)
(* The pool's arrays m and caches are read without a lock and written      *)
(* under the pool's mutex, except that a thread clears its own entry of    *)
(* caches.  What a thread knows is in its thread-local storage: 0 when it  *)
(* has nothing yet, n for the cache caches[n-1], -n for the mspace m[n-1]. *)
(* Locks are those of SpinLock.                                            *)
(***************************************************************************)
EXTENDS Integers, FiniteSets

CONSTANTS
  Threads,
  Mspaces,       \* heaps that create_mspace can make
  None,          \* no thread, no mspace
  MaxThreads,    \* DEFAULTMAXTHREADSINPOOL: mspaces in the pool
  MaxCaches      \* THREADCACHEMAXCACHES

ASSUME NoneAssumption == None \notin Threads /\ None \notin Mspaces
ASSUME SizeAssumption == MaxThreads \in Nat \ {0} /\ MaxCaches \in Nat

VARIABLES
  limit,         \* nedpool.threads, 0 until the pool is initialised
  global_mutex,  \* malloc_global_mutex
  mutex,         \* nedpool.mutex
  m,             \* nedpool.m: the mspaces
  lock,          \* malloc_state.mutex of each mspace
  caches,        \* nedpool.caches: the thread the cache was allocated for
  cache_mspace,  \* threadcache.mymspace
  tls,           \* the thread-local value of each thread
  pc,            \* where each thread is
  op,            \* which function it called
  tc,            \* local: its cache, 0 for none; n of AllocCache in its scan
  mymspace,      \* local: index of an mspace; *lastUsed in FindMSpace
  n, end,        \* locals of FindMSpace
  temp,          \* local of FindMSpace: the mspace it has created
  ended          \* threads that ended with a cache (not in the code)

poolVars  == <<limit, global_mutex, mutex, m, lock>>
cacheVars == <<caches, cache_mspace, tls>>
findVars  == <<n, end, temp>>
callVars  == <<op, tc, mymspace, findVars>>
vars == <<poolVars, cacheVars, pc, callVars, ended>>

Slots == 1 .. MaxCaches
Index == 0 .. MaxThreads        \* m has one entry more than it uses

InitLabels  == {"init", "init_mspace", "init_threads"}
AllocLabels == {"alloc", "alloc_scan", "alloc_memory", "alloc_tls"}
FindLabels  == {"scan_up", "scan_down", "create", "install_lock", "install",
                "install_take", "wait"}
Labels == {"idle", "tls", "use", "held", "disable_free"}
            \cup InitLabels \cup AllocLabels \cup FindLabels

TypeOK ==
  /\ limit \in {0, MaxThreads}
  /\ global_mutex \in Threads \cup {None}
  /\ mutex \in Threads \cup {None}
  /\ m \in [Index -> Mspaces \cup {None}]
  /\ lock \in [Mspaces -> Threads \cup {None}]
  /\ caches \in [Slots -> Threads \cup {None}]
  /\ cache_mspace \in [Slots -> Index]
  /\ tls \in [Threads -> -MaxThreads .. MaxCaches]
  /\ pc \in [Threads -> Labels]
  /\ op \in [Threads -> {"memory", "disable"}]
  /\ tc \in [Threads -> 0 .. MaxCaches]
  /\ mymspace \in [Threads -> Index]
  /\ n \in [Threads -> Index]
  /\ end \in [Threads -> Index]
  /\ temp \in [Threads -> Mspaces \cup {None}]
  /\ ended \in 0 .. MaxCaches

Init ==
  /\ limit = 0
  /\ global_mutex = None
  /\ mutex = None
  /\ m = [i \in Index |-> None]
  /\ lock = [s \in Mspaces |-> None]
  /\ caches = [k \in Slots |-> None]
  /\ cache_mspace = [k \in Slots |-> 0]
  /\ tls = [t \in Threads |-> 0]
  /\ pc = [t \in Threads |-> "idle"]
  /\ op = [t \in Threads |-> "memory"]
  /\ tc = [t \in Threads |-> 0]
  /\ mymspace = [t \in Threads |-> 0]
  /\ n = [t \in Threads |-> 0]
  /\ end = [t \in Threads |-> 0]
  /\ temp = [t \in Threads |-> None]
  /\ ended = 0

Goto(t, label) == pc' = [pc EXCEPT ![t] = label]

\* The locals of a call go away with it.
Return(t) ==
  /\ Goto(t, "idle")
  /\ op' = [op EXCEPT ![t] = "memory"]
  /\ tc' = [tc EXCEPT ![t] = 0]
  /\ mymspace' = [mymspace EXCEPT ![t] = 0]
  /\ n' = [n EXCEPT ![t] = 0]
  /\ end' = [end EXCEPT ![t] = 0]
  /\ temp' = [temp EXCEPT ![t] = None]

------------------------------------------------------------------------------
\* A thread calls nedmalloc or nedfree, or neddisablethreadcache, which all
\* begin with if(!syspool.threads) InitPool(&syspool, 0, -1).

Call(t) ==
  /\ pc[t] = "idle"
  /\ \E o \in {"memory", "disable"} : op' = [op EXCEPT ![t] = o]
  /\ Goto(t, IF limit = 0 THEN "init" ELSE "tls")
  /\ UNCHANGED <<poolVars, cacheVars, tc, mymspace, findVars, ended>>

\* ACQUIRE_MALLOC_GLOBAL_LOCK(); if(p->threads) goto done;
InitLock(t) ==
  /\ pc[t] = "init"
  /\ global_mutex = None
  /\ IF limit # 0 THEN Goto(t, "tls") /\ UNCHANGED global_mutex
                  ELSE Goto(t, "init_mspace") /\ global_mutex' = t
  /\ UNCHANGED <<limit, mutex, m, lock, cacheVars, callVars, ended>>

\* p->m[0] = create_mspace(...); when this fails the program is ended.
InitMspace(t) ==
  /\ pc[t] = "init_mspace"
  /\ \E s \in Mspaces : m' = [m EXCEPT ![0] = s]
  /\ Goto(t, "init_threads")
  /\ UNCHANGED <<limit, global_mutex, mutex, lock, cacheVars, callVars, ended>>

InitThreads(t) ==
  /\ pc[t] = "init_threads"
  /\ limit' = MaxThreads
  /\ global_mutex' = None
  /\ Goto(t, "tls")
  /\ UNCHANGED <<mutex, m, lock, cacheVars, callVars, ended>>

------------------------------------------------------------------------------
\* GetThreadCache and AllocCache

\* The thread has a cache, or has an mspace of its own and no cache.
HasCache(t) ==
  /\ pc[t] = "tls"
  /\ op[t] # "disable"
  /\ tls[t] # 0
  /\ tc' = [tc EXCEPT ![t] = IF tls[t] > 0 THEN tls[t] ELSE 0]
  /\ mymspace' = [mymspace EXCEPT ![t] = IF tls[t] > 0 THEN cache_mspace[tls[t]]
                                         ELSE -tls[t] - 1]
  /\ Goto(t, "use")
  /\ UNCHANGED <<poolVars, cacheVars, op, findVars, ended>>

NeedsCache(t) ==
  /\ pc[t] = "tls"
  /\ op[t] # "disable"
  /\ tls[t] = 0
  /\ Goto(t, "alloc")
  /\ UNCHANGED <<poolVars, cacheVars, callVars, ended>>

\* Faulty variant: the free entry is looked for without the mutex.
AllocLockUnlocked(t) ==
  /\ pc[t] = "alloc"
  /\ Goto(t, "alloc_scan")
  /\ UNCHANGED <<poolVars, cacheVars, callVars, ended>>

AllocLock(t) ==
  /\ pc[t] = "alloc"
  /\ mutex = None
  /\ mutex' = t
  /\ Goto(t, "alloc_scan")
  /\ UNCHANGED <<limit, global_mutex, m, lock, cacheVars, callVars, ended>>

\* Thread t goes on without a cache: TLSSET((*p)->mycache, -1).
NoCache(t) ==
  /\ tls' = [tls EXCEPT ![t] = -1]
  /\ mymspace' = [mymspace EXCEPT ![t] = 0]
  /\ Goto(t, "use")

\* for(n=0; n<THREADCACHEMAXCACHES && p->caches[n]; n++);  The entries are read
\* one at a time, and their owners clear them without the mutex; tc counts the
\* entries that were in use.
AllocScan(t) ==
  /\ pc[t] = "alloc_scan"
  /\ \/ /\ tc[t] < MaxCaches
        /\ tc' = [tc EXCEPT ![t] = @ + 1]
        /\ IF caches[tc[t] + 1] = None THEN Goto(t, "alloc_memory")
                                       ELSE UNCHANGED pc
        /\ UNCHANGED <<mutex, tls, mymspace>>
     \/ /\ tc[t] = MaxCaches
        /\ mutex' = None
        /\ NoCache(t)
        /\ tc' = [tc EXCEPT ![t] = 0]
  /\ UNCHANGED <<limit, global_mutex, m, lock, caches, cache_mspace, op,
                 findVars, ended>>

\* The mspaces are counted up to the first empty entry.
Count == CHOOSE i \in Index : m[i] = None /\ \A j \in 0 .. i - 1 : m[j] # None

\* CallMalloc(p->m[0], ...) waits for that mspace with the pool's mutex held;
\* mymspace is abs(threadid) % end.
AllocMemory(t) ==
  /\ pc[t] = "alloc_memory"
  /\ lock[m[0]] = None
  /\ mutex' = None
  /\ \/ /\ caches' = [caches EXCEPT ![tc[t]] = t]
        /\ \E i \in 0 .. Count - 1 :
             cache_mspace' = [cache_mspace EXCEPT ![tc[t]] = i]
        /\ Goto(t, "alloc_tls")
        /\ UNCHANGED <<tc, tls, mymspace>>
     \/ \* out of memory
        /\ NoCache(t)
        /\ tc' = [tc EXCEPT ![t] = 0]
        /\ UNCHANGED <<caches, cache_mspace>>
  /\ UNCHANGED <<limit, global_mutex, m, lock, op, findVars, ended>>

AllocTls(t) ==
  /\ pc[t] = "alloc_tls"
  /\ tls' = [tls EXCEPT ![t] = tc[t]]
  /\ mymspace' = [mymspace EXCEPT ![t] = cache_mspace[tc[t]]]
  /\ Goto(t, "use")
  /\ UNCHANGED <<poolVars, caches, cache_mspace, op, tc, findVars, ended>>

------------------------------------------------------------------------------
\* nedpmalloc2 and nedpfree2

\* The cache has a block, or takes the block that is freed.
UseCache(t) ==
  /\ pc[t] = "use"
  /\ tc[t] # 0
  /\ Return(t)
  /\ UNCHANGED <<poolVars, cacheVars, ended>>

\* mspace_free waits for the mspace of the block, wherever that is.
FreeBlock(t) ==
  /\ pc[t] = "use"
  /\ \E i \in Index : m[i] # None /\ lock[m[i]] = None
  /\ Return(t)
  /\ UNCHANGED <<poolVars, cacheVars, ended>>

\* GetMSpace: TRY_LOCK of the mspace that the thread used last.
TryLast(t) ==
  /\ pc[t] = "use"
  /\ lock[m[mymspace[t]]] = None
  /\ lock' = [lock EXCEPT ![m[mymspace[t]]] = t]
  /\ Goto(t, "held")
  /\ UNCHANGED <<limit, global_mutex, mutex, m, cacheVars, callVars, ended>>

LastIsLocked(t) ==
  /\ pc[t] = "use"
  /\ lock[m[mymspace[t]]] # None
  /\ n' = [n EXCEPT ![t] = mymspace[t] + 1]
  /\ end' = [end EXCEPT ![t] = mymspace[t] + 1]
  /\ Goto(t, "scan_up")
  /\ UNCHANGED <<poolVars, cacheVars, op, tc, mymspace, temp, ended>>

\* CallMalloc in the locked mspace, and RELEASE_LOCK.
MallocAndUnlock(t) ==
  /\ pc[t] = "held"
  /\ lock' = [lock EXCEPT ![m[mymspace[t]]] = None]
  /\ Return(t)
  /\ UNCHANGED <<limit, global_mutex, mutex, m, cacheVars, ended>>

------------------------------------------------------------------------------
\* FindMSpace

\* found: the thread will try mspace i first from now on.
FoundAt(t, i) ==
  /\ mymspace' = [mymspace EXCEPT ![t] = i]
  /\ IF tc[t] # 0
     THEN /\ cache_mspace' = [cache_mspace EXCEPT ![tc[t]] = i]
          /\ UNCHANGED tls
     ELSE /\ tls' = [tls EXCEPT ![t] = -(i + 1)]
          /\ UNCHANGED cache_mspace
  /\ Goto(t, "held")
  /\ n' = [n EXCEPT ![t] = 0]
  /\ end' = [end EXCEPT ![t] = 0]
  /\ UNCHANGED <<caches, op, tc, temp>>

TryLock(t, i) ==
  /\ lock[m[i]] = None
  /\ lock' = [lock EXCEPT ![m[i]] = t]
  /\ FoundAt(t, i)

ScanUp(t) ==
  /\ pc[t] = "scan_up"
  /\ m[n[t]] # None
  /\ \/ TryLock(t, n[t])
     \/ /\ lock[m[n[t]]] # None
        /\ n' = [n EXCEPT ![t] = @ + 1]
        /\ end' = [end EXCEPT ![t] = n[t] + 1]
        /\ UNCHANGED <<lock, cacheVars, pc, op, tc, mymspace, temp>>
  /\ UNCHANGED <<limit, global_mutex, mutex, m, ended>>

ScanUpEnd(t) ==
  /\ pc[t] = "scan_up"
  /\ m[n[t]] = None
  /\ n' = [n EXCEPT ![t] = 0]
  /\ Goto(t, "scan_down")
  /\ UNCHANGED <<poolVars, cacheVars, op, tc, mymspace, end, temp, ended>>

ScanDown(t) ==
  /\ pc[t] = "scan_down"
  /\ n[t] < mymspace[t] /\ m[n[t]] # None
  /\ \/ TryLock(t, n[t])
     \/ /\ lock[m[n[t]]] # None
        /\ n' = [n EXCEPT ![t] = @ + 1]
        /\ UNCHANGED <<lock, cacheVars, pc, op, tc, mymspace, end, temp>>
  /\ UNCHANGED <<limit, global_mutex, mutex, m, ended>>

\* if(end<p->threads)
ScanDownEnd(t) ==
  /\ pc[t] = "scan_down"
  /\ ~ (n[t] < mymspace[t] /\ m[n[t]] # None)
  /\ Goto(t, IF end[t] < limit THEN "create" ELSE "wait")
  /\ UNCHANGED <<poolVars, cacheVars, callVars, ended>>

\* The mspaces that exist.
Created == {m[i] : i \in Index} \cup {temp[t] : t \in Threads}

Create(t) ==
  /\ pc[t] = "create"
  /\ \/ \E s \in Mspaces \ Created :
          /\ temp' = [temp EXCEPT ![t] = s]
          /\ Goto(t, "install_lock")
     \/ \* create_mspace fails
        /\ Goto(t, "wait")
        /\ UNCHANGED temp
  /\ UNCHANGED <<poolVars, cacheVars, op, tc, mymspace, n, end, ended>>

InstallLock(t) ==
  /\ pc[t] = "install_lock"
  /\ mutex = None
  /\ mutex' = t
  /\ Goto(t, "install")
  /\ UNCHANGED <<limit, global_mutex, m, lock, cacheVars, callVars, ended>>

\* Faulty variant: a thread for which no entry is left has no way out.
InstallStuck(t) ==
  /\ pc[t] = "install"
  /\ end[t] < limit
  /\ \/ /\ m[end[t]] # None
        /\ end' = [end EXCEPT ![t] = @ + 1]
        /\ UNCHANGED <<m, mutex, temp, pc>>
     \/ /\ m[end[t]] = None
        /\ m' = [m EXCEPT ![end[t]] = temp[t]]
        /\ temp' = [temp EXCEPT ![t] = None]
        /\ Goto(t, "install_take")
        /\ UNCHANGED <<end, mutex>>
  /\ UNCHANGED <<limit, global_mutex, lock, cacheVars, op, tc, mymspace, n,
                 ended>>

\* while(p->m[end] && end<p->threads) end++;
Install(t) ==
  /\ pc[t] = "install"
  /\ \/ /\ m[end[t]] # None /\ end[t] < limit
        /\ end' = [end EXCEPT ![t] = @ + 1]
        /\ UNCHANGED <<m, mutex, temp, pc>>
     \/ /\ end[t] < limit /\ m[end[t]] = None
        /\ m' = [m EXCEPT ![end[t]] = temp[t]]
        /\ temp' = [temp EXCEPT ![t] = None]
        /\ Goto(t, "install_take")
        /\ UNCHANGED <<end, mutex>>
     \/ \* others were faster: destroy_mspace(temp)
        /\ end[t] >= limit
        /\ mutex' = None
        /\ temp' = [temp EXCEPT ![t] = None]
        /\ Goto(t, "wait")
        /\ UNCHANGED <<m, end>>
  /\ UNCHANGED <<limit, global_mutex, lock, cacheVars, op, tc, mymspace, n,
                 ended>>

\* Faulty variant: the pool's mutex stays with the thread.
InstallTakeKept(t) ==
  /\ pc[t] = "install_take"
  /\ TryLock(t, end[t])
  /\ UNCHANGED <<limit, global_mutex, mutex, m, ended>>

\* Others have seen the new mspace and may have locked it already.
InstallTake(t) ==
  /\ pc[t] = "install_take"
  /\ TryLock(t, end[t])
  /\ mutex' = None
  /\ UNCHANGED <<limit, global_mutex, m, ended>>

\* Faulty variant: the lock that is taken is that of the first mspace.
WaitForFirst(t) ==
  /\ pc[t] = "wait"
  /\ lock[m[0]] = None
  /\ lock' = [lock EXCEPT ![m[0]] = t]
  /\ Goto(t, "held")
  /\ UNCHANGED <<limit, global_mutex, mutex, m, cacheVars, callVars, ended>>

\* badexit: ACQUIRE_LOCK(&p->m[*lastUsed]->mutex)
WaitForLast(t) ==
  /\ pc[t] = "wait"
  /\ lock[m[mymspace[t]]] = None
  /\ lock' = [lock EXCEPT ![m[mymspace[t]]] = t]
  /\ Goto(t, "held")
  /\ UNCHANGED <<limit, global_mutex, mutex, m, cacheVars, callVars, ended>>

------------------------------------------------------------------------------
\* nedtrimthreadcache(p, 1), and the end of a thread

\* The new value of a thread without a cache is -1, of one with a cache
\* -mymspace, and none for a thread whose cache is disabled.
Disable(t) ==
  /\ pc[t] = "tls"
  /\ op[t] = "disable"
  /\ IF tls[t] > 0
     THEN /\ tc' = [tc EXCEPT ![t] = tls[t]]
          /\ tls' = [tls EXCEPT ![t] = -cache_mspace[tls[t]]]
          /\ Goto(t, "disable_free")
          /\ UNCHANGED <<op, mymspace, findVars>>
     ELSE /\ tls' = [tls EXCEPT ![t] = IF tls[t] = 0 THEN -1 ELSE tls[t]]
          /\ Return(t)
  /\ UNCHANGED <<poolVars, caches, cache_mspace, ended>>

\* The blocks and the memory of the cache go back to their mspaces, whose locks
\* are taken one at a time, and the entry of caches is cleared without a lock.
DisableFree(t) ==
  /\ pc[t] = "disable_free"
  /\ lock[m[0]] = None
  /\ caches' = [caches EXCEPT ![tc[t]] = None]
  /\ cache_mspace' = [cache_mspace EXCEPT ![tc[t]] = 0]
  /\ Return(t)
  /\ UNCHANGED <<poolVars, tls, ended>>

\* A thread ends: nobody frees its cache.  Another thread may start.
EndThread(t) ==
  /\ pc[t] = "idle"
  /\ tls[t] # 0
  /\ ended' = IF tls[t] > 0 THEN ended + 1 ELSE ended
  /\ tls' = [tls EXCEPT ![t] = 0]
  /\ UNCHANGED <<poolVars, caches, cache_mspace, pc, callVars>>

------------------------------------------------------------------------------
InitPool(t)   == InitLock(t) \/ InitMspace(t) \/ InitThreads(t)
AllocCache(t) == AllocLock(t) \/ AllocScan(t) \/ AllocMemory(t) \/ AllocTls(t)
FindMSpace(t) == \/ ScanUp(t) \/ ScanUpEnd(t) \/ ScanDown(t) \/ ScanDownEnd(t)
                 \/ Create(t) \/ InstallLock(t) \/ Install(t) \/ InstallTake(t)
                 \/ WaitForLast(t)
Step(t) == \/ InitPool(t) \/ HasCache(t) \/ NeedsCache(t)
           \/ AllocCache(t) \/ UseCache(t) \/ FreeBlock(t) \/ TryLast(t)
           \/ LastIsLocked(t) \/ MallocAndUnlock(t) \/ FindMSpace(t)
           \/ Disable(t) \/ DisableFree(t)

Next == \E t \in Threads : Call(t) \/ Step(t) \/ EndThread(t)

Spec == Init /\ [][Next]_vars

------------------------------------------------------------------------------
\* "Returns a locked and ready for use mspace" (GetMSpace): a thread allocates
\* only in an mspace it has locked itself, which stays in the pool.
LockedForUse ==
  \A t \in Threads : pc[t] = "held" => /\ m[mymspace[t]] # None
                                       /\ lock[m[mymspace[t]]] = t

\* Nobody gets past the unlocked test of syspool.threads before the pool has
\* its first mspace.
PoolReady == \A t \in Threads :
               pc[t] \notin {"idle"} \cup InitLabels => m[0] # None

\* The mspaces fill m from the start, which every loop over m relies on, and
\* none is in two entries, whoever races for the next entry.
MspacesInOrder ==
  /\ m[MaxThreads] = None
  /\ \A i, j \in Index : i < j /\ m[j] # None => m[i] # None /\ m[i] # m[j]

\* The cache a thread finds through its thread-local value is its own, and no
\* other thread finds the same.
CacheOwned ==
  \A t \in Threads : tls[t] > 0 =>
    /\ caches[tls[t]] = t
    /\ \A u \in Threads \ {t} : tls[u] # tls[t]

\* An entry of caches that is taken belongs to a thread that lives, or to one
\* that ended without calling neddisablethreadcache: each of those costs one of
\* the THREADCACHEMAXCACHES entries for good.
Holding(t) == tls[t] > 0 \/ pc[t] \in {"alloc_tls", "disable_free"}
EntriesAccounted ==
  Cardinality({k \in Slots : caches[k] # None})
    = Cardinality({t \in Threads : Holding(t)}) + ended

\* What threads rely on that read m, threads and caches without the mutex, or
\* between two of its critical sections.
PoolConsistent ==
  TypeOK /\ PoolReady /\ MspacesInOrder /\ CacheOwned /\ EntriesAccounted

\* Thread t waits for a lock that is taken.
Waits(t) ==
  \/ pc[t] = "init" /\ global_mutex # None
  \/ pc[t] \in {"alloc", "install_lock"} /\ mutex # None
  \/ pc[t] \in {"alloc_memory", "disable_free"} /\ lock[m[0]] # None
  \/ pc[t] = "install_take" /\ lock[m[end[t]]] # None
  \/ pc[t] = "wait" /\ lock[m[mymspace[t]]] # None

\* The locks, which are nested (mutex, then that of an mspace), never make all
\* the threads inside the allocator wait for one another: one of them can go on.
Inside == {t \in Threads : pc[t] # "idle"}
NeverJammed == Inside = {} \/ \E t \in Inside : ~Waits(t)

\* A lock that is taken is all that stops a thread inside the allocator: no loop
\* over m runs out of entries, and a thread whose mspace or entry of m went to
\* somebody else has another way out.
OnlyLocksStop == \A t \in Inside : Waits(t) <=> ~ENABLED Step(t)

==============================================================================
