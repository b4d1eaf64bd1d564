---------------------------- MODULE HeapDetection ----------------------------
(***************************************************************************)
(* How nedmalloc.c knows a block as its own.  Every CallMalloc brings two  *)
(* variables of the whole process up to date, leastusedaddress and         *)
(* largestusedblock: each is tested and then written, under no lock but    *)
(* that of the mspace that is allocated from, and AllocCache does not even *)
(* hold that one.  nedblkmstate, and through it nedblksize and nedpfree2,  *)
(* compares a block with both and ends the program when the block is       *)
(* outside of them.                                                        *)
(*                                                                         *)
(* A block is the least address of its mspace and its size; blocks with    *)
(* the same are one.                                                       *)
(***************************************************************************)
EXTENDS Integers

CONSTANTS
  Threads,
  N,             \* mspaces: their least addresses are 1 .. N
  First,         \* the one that is m[0] of the pool
  MaxSize,       \* the largest block
  Page           \* mparams.page_size

\* What the constants are; the theorems have it as their hypothesis.
Parameters ==
  /\ N \in Nat \ {0} /\ First \in 1 .. N
  /\ MaxSize \in Nat \ {0} /\ Page \in Nat \ {0}

VARIABLES
  leastusedaddress,   \* 0 until the first block
  largestusedblock,   \* 0 until the first block
  live,               \* blocks that the program has
  pc,                 \* where in CallMalloc each thread is
  caller,             \* who called it: nedpmalloc2 or AllocCache
  ret,                \* local of CallMalloc: the block
  aborted,            \* nedpfree2 called abort()
  tested,             \* what the thread's last test saw (not in the code)
  raced               \* a thread wrote after another had (not in the code)

vars == <<leastusedaddress, largestusedblock, live, pc, caller, ret, aborted,
          tested, raced>>

Mspaces == 1 .. N
Sizes   == 1 .. MaxSize
Blocks  == [mspace : Mspaces, size : Sizes]

TypeOK ==
  /\ leastusedaddress \in 0 .. N
  /\ largestusedblock \in Nat
  /\ live \subseteq Blocks
  /\ pc \in [Threads -> {"idle", "least", "set_least", "largest", "set_largest"}]
  /\ caller \in [Threads -> {"nedpmalloc2", "AllocCache"}]
  /\ ret \in [Threads -> Blocks]
  /\ aborted \in BOOLEAN
  /\ tested \in [Threads -> Nat]
  /\ raced \in BOOLEAN

NoBlock == [mspace |-> 1, size |-> 1]

Init ==
  /\ leastusedaddress = 0
  /\ largestusedblock = 0
  /\ live = {}
  /\ pc = [t \in Threads |-> "idle"]
  /\ caller = [t \in Threads |-> "nedpmalloc2"]
  /\ ret = [t \in Threads |-> NoBlock]
  /\ aborted = FALSE
  /\ tested = [t \in Threads |-> 0]
  /\ raced = FALSE

Goto(t, label) == pc' = [pc EXCEPT ![t] = label]

\* (truesize+mparams.page_size) & ~(mparams.page_size-1)
Pages(size) == ((size + Page) \div Page) * Page

\* The threads in CallMalloc that hold what thread t needs: nedpmalloc2 holds the
\* lock of the mspace, AllocCache the mutex of the pool.
Excludes(u, who, s) ==
  /\ pc[u] # "idle"
  /\ caller[u] = who
  /\ ret[u].mspace = s

\* mspace_malloc2 has returned a block.
Malloc(t, who, b) ==
  /\ ~aborted
  /\ pc[t] = "idle"
  /\ who = "AllocCache" => b.mspace = First
  /\ \A u \in Threads : ~Excludes(u, who, b.mspace)
  /\ caller' = [caller EXCEPT ![t] = who]
  /\ ret' = [ret EXCEPT ![t] = b]
  /\ Goto(t, "least")
  /\ UNCHANGED <<leastusedaddress, largestusedblock, live, aborted, tested, raced>>

TestLeast(t) ==
  /\ ~aborted
  /\ pc[t] = "least"
  /\ tested' = [tested EXCEPT ![t] = leastusedaddress]
  /\ Goto(t, IF leastusedaddress = 0 \/ ret[t].mspace < leastusedaddress
             THEN "set_least" ELSE "largest")
  /\ UNCHANGED <<leastusedaddress, largestusedblock, live, caller, ret, aborted, raced>>

SetLeast(t) ==
  /\ ~aborted
  /\ pc[t] = "set_least"
  /\ leastusedaddress' = ret[t].mspace
  /\ raced' = (raced \/ leastusedaddress # tested[t])
  /\ Goto(t, "largest")
  /\ UNCHANGED <<largestusedblock, live, caller, ret, aborted, tested>>

\* The caller gets the block and unlocks.
Return(t) ==
  /\ Goto(t, "idle")
  /\ live' = live \cup {ret[t]}
  /\ ret' = [ret EXCEPT ![t] = NoBlock]
  /\ caller' = [caller EXCEPT ![t] = "nedpmalloc2"]
  /\ tested' = [tested EXCEPT ![t] = 0]

TestLargest(t) ==
  /\ ~aborted
  /\ pc[t] = "largest"
  /\ IF largestusedblock = 0 \/ ret[t].size > largestusedblock
     THEN /\ tested' = [tested EXCEPT ![t] = largestusedblock]
          /\ Goto(t, "set_largest")
          /\ UNCHANGED <<live, ret, caller>>
     ELSE Return(t)
  /\ UNCHANGED <<leastusedaddress, largestusedblock, aborted, raced>>

SetLargest(t) ==
  /\ ~aborted
  /\ pc[t] = "set_largest"
  /\ largestusedblock' = Pages(ret[t].size)
  /\ raced' = (raced \/ largestusedblock # tested[t])
  /\ Return(t)
  /\ UNCHANGED <<leastusedaddress, aborted>>

\* nedblkmstate: the reads of the two variables need not be apart, as each is
\* compared on its own.
Recognised(b) ==
  /\ b.mspace >= leastusedaddress
  /\ b.size <= largestusedblock

\* nedpfree2: "called with a block not created by nedmalloc!" and abort().
Free(b) ==
  /\ ~aborted
  /\ b \in live
  /\ live' = live \ {b}
  /\ aborted' = ~Recognised(b)
  /\ UNCHANGED <<leastusedaddress, largestusedblock, pc, caller, ret, tested, raced>>

Next ==
  \/ \E t \in Threads :
       \/ \E who \in {"nedpmalloc2", "AllocCache"}, b \in Blocks : Malloc(t, who, b)
       \/ TestLeast(t) \/ SetLeast(t) \/ TestLargest(t) \/ SetLargest(t)
  \/ \E b \in Blocks : Free(b)

Spec == Init /\ [][Next]_vars

------------------------------------------------------------------------------
\* The program is ended for a block that it got from the allocator only if two
\* threads were between test and write at the same time.
AbortOnlyAfterRace == aborted => raced

\* Until then every block that the program has lies within the two variables.
\* Needed to prove AbortOnlyAfterRace: for a thread that has passed a test, the
\* value tested is the value that counts.
InBounds == ~raced => \A b \in live : Recognised(b)

\* The two variables only ever widen what is recognised, one careless write
\* excepted, which forgets what other threads have recorded.
OnlyRaceNarrows ==
  [][~raced' => /\ leastusedaddress # 0 => leastusedaddress' <= leastusedaddress
                /\ largestusedblock' >= largestusedblock]_vars

\* nedmalloc.c line 590 of nedblkmstate: "size should never exceed
\* largestusedblock".
SizeNeverExceeds == \A b \in live : b.size <= largestusedblock

==============================================================================
