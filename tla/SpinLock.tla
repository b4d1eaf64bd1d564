------------------------------ MODULE SpinLock ------------------------------
(***************************************************************************)
(* The spin lock of malloc.c.h (win32_acquire_lock, win32_try_lock and     *)
(* win32_release_lock), which guards every mspace and pool of the memory   *)
(* allocator.  Each access to shared memory is a step of its own: only the *)
(* exchange on l is atomic, and threadid is read by threads that do not    *)
(* own the lock.  The lock is recursive: nedmalloc holds the mutex of an   *)
(* mspace when it calls mspace_malloc, which takes it again.               *)
(***************************************************************************)
EXTENDS Naturals

CONSTANTS
  Threads,
  None,        \* threadid 0: no thread
  MaxDepth     \* bound: how often a thread takes a lock it owns

\* What the constants are; the theorems have it as their hypothesis.
Parameters == None \notin Threads /\ MaxDepth \in Nat \ {0}

VARIABLES
  l,           \* 0 or 1, changed by interlockedexchange
  threadid,    \* the thread that owns the lock
  c,           \* how often it has taken it
  pc,          \* where each thread is in a call of the lock's functions
  trying,      \* the call is TRY_LOCK (its stack frame)
  depth        \* locks the thread took and has not given back (not in the code)

lockVars == <<l, threadid, c>>
vars == <<lockVars, pc, trying, depth>>

\* After its exchange has found the lock free, until threadid and c are set.
Entering == {"set_threadid", "set_c"}
\* After the last RELEASE_LOCK has decremented c, until l is zero.
Leaving  == {"clear_threadid", "clear_l"}
Calling  == {"read_l", "read_threadid", "exchange"}

TypeOK ==
  /\ l \in {0, 1}
  /\ threadid \in Threads \cup {None}
  /\ c \in Nat
  /\ pc \in [Threads -> {"out"} \cup Calling \cup Entering \cup Leaving]
  /\ trying \in [Threads -> BOOLEAN]
  /\ depth \in [Threads -> 0 .. MaxDepth]

\* INITIAL_LOCK
Init ==
  /\ l = 0
  /\ threadid = None
  /\ c = 0
  /\ pc = [t \in Threads |-> "out"]
  /\ trying = [t \in Threads |-> FALSE]
  /\ depth = [t \in Threads |-> 0]

Goto(t, label) == pc' = [pc EXCEPT ![t] = label]

------------------------------------------------------------------------------
\* ACQUIRE_LOCK and TRY_LOCK

Call(t) ==
  /\ pc[t] = "out"
  /\ depth[t] < MaxDepth
  /\ \E try \in BOOLEAN : trying' = [trying EXCEPT ![t] = try]
  /\ Goto(t, "read_l")
  /\ UNCHANGED <<lockVars, depth>>

\* The lock is somebody's: try again, or return 0.
NotTaken(t) ==
  /\ Goto(t, IF trying[t] THEN "out" ELSE "read_l")
  /\ UNCHANGED <<threadid, c, trying, depth>>

\* if (sl->l != 0)
ReadL(t) ==
  /\ pc[t] = "read_l"
  /\ Goto(t, IF l # 0 THEN "read_threadid" ELSE "exchange")
  /\ UNCHANGED <<lockVars, trying, depth>>

\* if (sl->threadid == mythreadid) ++sl->c;
TakeAgain(t) ==
  /\ pc[t] = "read_threadid"
  /\ threadid = t
  /\ c' = c + 1
  /\ depth' = [depth EXCEPT ![t] = @ + 1]
  /\ Goto(t, "out")
  /\ UNCHANGED <<l, threadid, trying>>

OwnedByOther(t) ==
  /\ pc[t] = "read_threadid"
  /\ threadid # t
  /\ NotTaken(t)
  /\ UNCHANGED l

\* if (!interlockedexchange(&sl->l, 1))
Exchange(t) ==
  /\ pc[t] = "exchange"
  /\ l = 0
  /\ l' = 1
  /\ Goto(t, "set_threadid")
  /\ UNCHANGED <<threadid, c, trying, depth>>

ExchangeLost(t) ==
  /\ pc[t] = "exchange"
  /\ l = 1
  /\ l' = 1
  /\ NotTaken(t)

SetThreadid(t) ==
  /\ pc[t] = "set_threadid"
  /\ threadid' = t
  /\ Goto(t, "set_c")
  /\ UNCHANGED <<l, c, trying, depth>>

SetC(t) ==
  /\ pc[t] = "set_c"
  /\ c' = 1
  /\ depth' = [depth EXCEPT ![t] = 1]
  /\ Goto(t, "out")
  /\ UNCHANGED <<l, threadid, trying>>

------------------------------------------------------------------------------
\* RELEASE_LOCK, of a lock that the thread took.

\* if (--sl->c == 0)
Release(t) ==
  /\ pc[t] = "out"
  /\ depth[t] > 0
  /\ c' = c - 1
  /\ depth' = [depth EXCEPT ![t] = @ - 1]
  /\ Goto(t, IF c' = 0 THEN "clear_threadid" ELSE "out")
  /\ UNCHANGED <<l, threadid, trying>>

ClearThreadid(t) ==
  /\ pc[t] = "clear_threadid"
  /\ threadid' = None
  /\ Goto(t, "clear_l")
  /\ UNCHANGED <<l, c, trying, depth>>

\* interlockedexchange(&sl->l, 0);
ClearL(t) ==
  /\ pc[t] = "clear_l"
  /\ l' = 0
  /\ Goto(t, "out")
  /\ UNCHANGED <<threadid, c, trying, depth>>

------------------------------------------------------------------------------
Acquiring(t) == \/ ReadL(t) \/ TakeAgain(t) \/ OwnedByOther(t) \/ Exchange(t)
                \/ ExchangeLost(t) \/ SetThreadid(t) \/ SetC(t)
Releasing(t) == ClearThreadid(t) \/ ClearL(t)

Next == \E t \in Threads : Call(t) \/ Acquiring(t) \/ Release(t) \/ Releasing(t)

Spec == Init /\ [][Next]_vars

------------------------------------------------------------------------------
\* The thread has the lock: its exchange won, and it has not set l to zero.
Has(t) == pc[t] \in Entering \cup Leaving \/ depth[t] > 0

\* Two threads never have the lock, although the test of l, the exchange and
\* the store of threadid are separate, and although threadid is read without
\* the lock: a thread finds its own number there only if it has the lock.
Exclusive == \A t, u \in Threads : Has(t) /\ Has(u) => t = u

\* assert(!sl->threadid) of lines 2175 and 2205, which release builds leave out:
\* the thread that had the lock before has cleared its number.
ThreadidCleared == \A t \in Threads : pc[t] = "set_threadid" => threadid = None

\* A thread never waits for itself: one that owns the lock takes it again,
\* whatever the others read and exchange meanwhile.
NeverWaitsForItself ==
  \A t \in Threads :
    depth[t] > 0 /\ pc[t] \in Calling => pc[t] # "exchange" /\ threadid = t

\* The lock is the recursive lock that nedmalloc relies on.
Lock == INSTANCE RecursiveLock WITH
  owner <- IF \E t \in Threads : Has(t) THEN CHOOSE t \in Threads : Has(t)
           ELSE None,
  depth <- IF \E t \in Threads : pc[t] \in Entering \cup Leaving THEN 1 ELSE c
ImplementsLock == Lock!Spec

==============================================================================
