----------------------------- MODULE ThreadCache -----------------------------
(***************************************************************************)
(* The cache of free blocks that nedmalloc.c keeps for a thread:           *)
(* threadcache_malloc, threadcache_free, RemoveCacheEntries,               *)
(* ReleaseFreeInCache, and nedpmalloc2, nedprealloc2, nedpfree2 and        *)
(* nedtrimthreadcache as far as they use them.                             *)
(*                                                                         *)
(* The cache belongs to one thread and takes no lock.  What is hard is     *)
(* the data: doubly linked lists in bins of powers of two, sizes that are  *)
(* rounded up when a block is taken and down when it is put back, and ages *)
(* that are differences of a counter that wraps.                           *)
(***************************************************************************)
EXTENDS Integers, Sequences, FiniteSetsExt, SequencesExt

CONSTANTS
  Blocks,         \* memory blocks of the mspaces
  Null,
  MaxBin,         \* THREADCACHEMAXBINS; bin i is for sizes from 2^i
  Overhead,       \* CHUNK_OVERHEAD: a cached block may be that much larger
  Slack,          \* how much larger than asked for a block of an mspace can be
  MaxFree,        \* THREADCACHEMAXFREESPACE
  ReleaseAge,     \* THREADCACHEMAXFREESPACE/8192
  FreesModulus,   \* the unsigned counter frees wraps here: 2^32
  NoopSlack       \* nedprealloc2 leaves a block alone that is not larger by more

MaxSize == 2 ^ MaxBin      \* THREADCACHEMAX, in units of the smallest bin
Bins    == 0 .. MaxBin

ASSUME NullAssumption == Null \notin Blocks
ASSUME BlocksAssumption == IsFiniteSet(Blocks)
ASSUME BinAssumption  == MaxBin \in Nat /\ Overhead \in 0 .. MaxSize - 1
ASSUME FreeAssumption == MaxFree \in Nat /\ MaxFree > MaxSize
ASSUME AgeAssumption  == /\ ReleaseAge \in Nat \ {0}
                         /\ FreesModulus \in Nat /\ FreesModulus > ReleaseAge
\* What the proofs need to know of powers of two.
ASSUME PowerAssumption == \A i \in 0 .. MaxBin + 1 : 2 ^ (i + 1) = 2 * 2 ^ i
ASSUME SlackAssumption == Slack \in Nat /\ NoopSlack \in Nat

VARIABLES
  place,        \* who has each block: the mspace, the program, or the cache
  memsize,      \* nedblksize of a block that was allocated
  asked,        \* the size the program asked for (not in the code)
  head, tail,   \* bins[2*i], the newest block of bin i, and bins[2*i+1]
  next, prev,   \* threadcacheblk.next and prev
  size,         \* threadcacheblk.size
  lastUsed,     \* threadcacheblk.lastUsed
  frees,        \* threadcache.frees
  freeInCache,  \* threadcache.freeInCache
  pc,           \* in which function the thread is
  release_age,  \* age in ReleaseFreeInCache
  age,          \* age in RemoveCacheEntries
  bin,          \* n in RemoveCacheEntries
  old,          \* the block nedprealloc2 still has to free
  waited        \* calls that advanced frees while a block was in the cache, up
                \* to FreesModulus (not in the code)

blockVars  == <<place, memsize, asked>>
listVars   == <<head, tail, next, prev, size, lastUsed>>
loopVars   == <<release_age, age, bin, old>>
vars == <<blockVars, listVars, frees, freeInCache, pc, loopVars, waited>>

Cached == {b \in Blocks : place[b] = "cache"}
Pointers == Blocks \cup {Null}

TypeOK ==
  /\ place \in [Blocks -> {"mspace", "program", "cache"}]
  /\ memsize \in [Blocks -> 0 .. MaxSize + 1 + Slack]
  /\ asked \in [Blocks -> 0 .. MaxSize + 1]
  /\ head \in [Bins -> Pointers] /\ tail \in [Bins -> Pointers]
  /\ next \in [Blocks -> Pointers] /\ prev \in [Blocks -> Pointers]
  /\ size \in [Blocks -> 0 .. MaxSize]
  /\ lastUsed \in [Blocks -> 0 .. FreesModulus - 1]
  /\ frees \in 0 .. FreesModulus - 1
  /\ freeInCache \in Nat
  /\ pc \in {"idle", "realloc", "release", "remove"}
  /\ release_age \in 0 .. ReleaseAge
  /\ age \in 0 .. ReleaseAge
  /\ bin \in Bins
  /\ old \in Pointers
  /\ waited \in [Blocks -> 0 .. FreesModulus]

\* AllocCache: the memory of the cache is zeroed.
Init ==
  /\ place = [b \in Blocks |-> "mspace"]
  /\ memsize = [b \in Blocks |-> 0]
  /\ asked = [b \in Blocks |-> 0]
  /\ head = [i \in Bins |-> Null] /\ tail = [i \in Bins |-> Null]
  /\ next = [b \in Blocks |-> Null] /\ prev = [b \in Blocks |-> Null]
  /\ size = [b \in Blocks |-> 0]
  /\ lastUsed = [b \in Blocks |-> 0]
  /\ frees = 0
  /\ freeInCache = 0
  /\ pc = "idle"
  /\ release_age = 0
  /\ age = 0
  /\ bin = 0
  /\ old = Null
  /\ waited = [b \in Blocks |-> 0]

------------------------------------------------------------------------------
\* Sizes and bins.

Requests == 1 .. MaxSize + 1

\* size2binidx: the position of the highest bit.
Size2binidx(s) == CHOOSE i \in 0 .. MaxBin + 1 : 2 ^ i <= s /\ s < 2 ^ (i + 1)

\* Faulty variant: a size is rounded down to its bin.
BestIdxDown(s) == Size2binidx(s)

\* The first bin threadcache_malloc looks at: its blocks are all large enough.
BestIdx(s) == LET i == Size2binidx(s) IN IF s > 2 ^ i THEN i + 1 ELSE i

\* The size that is allocated for a request: it is rounded up to its bin.
Rounded(s) == IF s <= MaxSize THEN 2 ^ BestIdx(s) ELSE s

\* threadcache_malloc takes the newest block of that bin, or else of the next.
Unsuited(i) == head[i] = Null \/ size[head[i]] < 2 ^ i
FoundBin(s) == LET i == BestIdx(s) IN
               IF Unsuited(i) /\ i < MaxBin THEN i + 1 ELSE i
Hits(s, j) == s <= MaxSize /\ j = FoundBin(s) /\ head[j] # Null

Misses(s) == \A j \in Bins : ~ Hits(s, j)

\* What is put into the cache when it is freed; the rest goes to its mspace.
Cacheable(b) == memsize[b] <= MaxSize + Overhead

------------------------------------------------------------------------------
\* Taking from a bin and putting into one.

\* The threadcacheblk is the first bytes of the block itself: what it says when
\* the block has left the cache is of no concern.
Forget(b) ==
  /\ size' = [size EXCEPT ![b] = 0]
  /\ lastUsed' = [lastUsed EXCEPT ![b] = 0]
  /\ waited' = [waited EXCEPT ![b] = 0]

\* Faulty variant: the new newest block keeps its link to the one that is taken.
TakeHeadKeepsPrev(j, b) ==
  /\ head' = [head EXCEPT ![j] = next[b]]
  /\ tail' = IF next[b] = Null THEN [tail EXCEPT ![j] = Null] ELSE tail
  /\ freeInCache' = freeInCache - size[b]
  /\ next' = [next EXCEPT ![b] = Null]
  /\ UNCHANGED prev
  /\ Forget(b)

\* threadcache_malloc takes block b, the newest of bin j.
TakeHead(j, b) ==
  /\ head' = [head EXCEPT ![j] = next[b]]
  /\ tail' = IF next[b] = Null THEN [tail EXCEPT ![j] = Null] ELSE tail
  /\ prev' = IF next[b] = Null THEN prev ELSE [prev EXCEPT ![next[b]] = Null]
  /\ freeInCache' = freeInCache - size[b]
  /\ next' = [next EXCEPT ![b] = Null]
  /\ Forget(b)

\* Every block that stays in the cache has waited for one more call.
CountFree ==
  /\ frees' = (frees + 1) % FreesModulus
  /\ waited' = [b \in Blocks |-> IF b \in Cached
                                 THEN Min({waited[b] + 1, FreesModulus}) ELSE 0]

\* threadcache_free: the size of b is rounded down to its bin, and it becomes
\* the newest block there.
Put(b) ==
  LET i == Size2binidx(memsize[b])
      first == head[i] IN
  /\ CountFree
  /\ lastUsed' = [lastUsed EXCEPT ![b] = frees']
  /\ size' = [size EXCEPT ![b] = 2 ^ i]
  /\ next' = [next EXCEPT ![b] = first]
  /\ prev' = [x \in Blocks |-> IF x = b THEN Null
                              ELSE IF x = first THEN b ELSE prev[x]]
  /\ tail' = IF first = Null THEN [tail EXCEPT ![i] = b] ELSE tail
  /\ head' = [head EXCEPT ![i] = b]
  /\ freeInCache' = freeInCache + 2 ^ i

------------------------------------------------------------------------------
\* nedpmalloc2, nedpfree2 and nedprealloc2

\* The program gets block b for a request.
Get(b, s, as) ==
  /\ place' = [place EXCEPT ![b] = "program"]
  /\ asked' = [asked EXCEPT ![b] = s]
  /\ memsize' = [memsize EXCEPT ![b] = as]

MallocHit(s, j) ==
  /\ pc = "idle"
  /\ Hits(s, j)
  /\ TakeHead(j, head[j])
  /\ Get(head[j], s, memsize[head[j]])
  /\ UNCHANGED <<frees, pc, loopVars>>

\* mspace_malloc2 gives a block of at least the rounded size; one that fails
\* changes nothing.
MallocMiss(s, b) ==
  /\ pc = "idle"
  /\ Misses(s)
  /\ place[b] = "mspace"
  /\ \E extra \in 0 .. Slack : Get(b, s, Rounded(s) + extra)
  /\ UNCHANGED <<listVars, frees, freeInCache, pc, loopVars, waited>>

\* The end of nedpfree2, and of nedprealloc2 after a hit.
GiveBack(b) ==
  \/ /\ Cacheable(b)
     /\ Put(b)
     /\ place' = [place EXCEPT ![b] = "cache"]
     /\ asked' = [asked EXCEPT ![b] = 0]
     /\ IF freeInCache' >= MaxFree
        THEN pc' = "release" /\ release_age' = ReleaseAge
        ELSE pc' = "idle" /\ release_age' = 0
     /\ UNCHANGED memsize
  \/ /\ ~ Cacheable(b)
     /\ place' = [place EXCEPT ![b] = "mspace"]
     /\ asked' = [asked EXCEPT ![b] = 0]
     /\ memsize' = [memsize EXCEPT ![b] = 0]
     /\ pc' = "idle"
     /\ UNCHANGED <<listVars, frees, freeInCache, waited, release_age>>

Free(b) ==
  /\ pc = "idle"
  /\ place[b] = "program"
  /\ GiveBack(b)
  /\ UNCHANGED <<age, bin, old>>

\* A block that is only a little larger than asked for stays as it is.
ReallocNoop(b, s) ==
  /\ pc = "idle"
  /\ place[b] = "program"
  /\ memsize[b] - s \in 0 .. NoopSlack
  /\ asked' = [asked EXCEPT ![b] = s]
  /\ UNCHANGED <<place, memsize, listVars, frees, freeInCache, pc, loopVars, waited>>

\* The program has the new block when the old one is put into the cache.
ReallocHit(b, s, j) ==
  /\ pc = "idle"
  /\ place[b] = "program"
  /\ memsize[b] - s \notin 0 .. NoopSlack
  /\ Hits(s, j)
  /\ TakeHead(j, head[j])
  /\ Get(head[j], s, memsize[head[j]])
  /\ old' = b
  /\ pc' = "realloc"
  /\ UNCHANGED <<frees, release_age, age, bin>>

ReallocFree ==
  /\ pc = "realloc"
  /\ GiveBack(old)
  /\ old' = Null
  /\ UNCHANGED <<age, bin>>

\* mspace_realloc2, of the rounded size: the block changes in place, or moves.
ReallocMiss(b, new, s) ==
  /\ pc = "idle"
  /\ place[b] = "program"
  /\ new = b \/ place[new] = "mspace"
  /\ memsize[b] - s \notin 0 .. NoopSlack
  /\ Misses(s)
  /\ \E extra \in 0 .. Slack :
       memsize' = [[memsize EXCEPT ![b] = 0] EXCEPT ![new] = Rounded(s) + extra]
  /\ place' = [[place EXCEPT ![b] = "mspace"] EXCEPT ![new] = "program"]
  /\ asked' = [[asked EXCEPT ![b] = 0] EXCEPT ![new] = s]
  /\ UNCHANGED <<listVars, frees, freeInCache, pc, loopVars, waited>>

------------------------------------------------------------------------------
\* ReleaseFreeInCache and RemoveCacheEntries

\* nedtrimthreadcache(p, 0): everything is removed, whatever its age.
Trim ==
  /\ pc = "idle"
  /\ CountFree
  /\ age' = 0
  /\ bin' = 0
  /\ pc' = IF freeInCache > 0 THEN "remove" ELSE "idle"
  /\ UNCHANGED <<blockVars, listVars, freeInCache, release_age, old>>

\* while(age && tc->freeInCache>=THREADCACHEMAXFREESPACE)
ReleaseLoop ==
  /\ pc = "release"
  /\ IF release_age > 0 /\ freeInCache >= MaxFree
     THEN /\ pc' = "remove"
          /\ age' = release_age
          /\ release_age' = release_age \div 2
     ELSE /\ pc' = "idle"
          /\ age' = 0
          /\ release_age' = 0
  /\ bin' = 0
  /\ UNCHANGED <<blockVars, listVars, frees, freeInCache, old, waited>>

\* Faulty variant: an age is the difference of the counters as signed numbers.
OldestDueSigned == tail[bin] # Null /\ frees - lastUsed[tail[bin]] >= age

\* tc->frees-(*tcb)->lastUsed>=age, unsigned, of the oldest block of the bin
OldestDue ==
  /\ tail[bin] # Null
  /\ (frees - lastUsed[tail[bin]]) % FreesModulus >= age

\* Faulty variant: the bin is emptied, whether or not b was its only block.
RemoveOldestDropsBin ==
  LET b == tail[bin] IN
  /\ pc = "remove"
  /\ OldestDue
  /\ tail' = [tail EXCEPT ![bin] = prev[b]]
  /\ head' = [head EXCEPT ![bin] = Null]
  /\ next' = IF prev[b] = Null THEN next ELSE [next EXCEPT ![prev[b]] = Null]
  /\ prev' = [prev EXCEPT ![b] = Null]
  /\ freeInCache' = freeInCache - size[b]
  /\ Forget(b)
  /\ place' = [place EXCEPT ![b] = "mspace"]
  /\ memsize' = [memsize EXCEPT ![b] = 0]
  /\ UNCHANGED <<asked, frees, pc, loopVars>>

RemoveOldest ==
  LET b == tail[bin] IN
  /\ pc = "remove"
  /\ OldestDue
  /\ tail' = [tail EXCEPT ![bin] = prev[b]]
  /\ IF prev[b] # Null
     THEN next' = [next EXCEPT ![prev[b]] = Null] /\ UNCHANGED head
     ELSE head' = [head EXCEPT ![bin] = Null] /\ UNCHANGED next
  /\ prev' = [prev EXCEPT ![b] = Null]
  /\ freeInCache' = freeInCache - size[b]
  /\ Forget(b)
  /\ place' = [place EXCEPT ![b] = "mspace"]
  /\ memsize' = [memsize EXCEPT ![b] = 0]
  /\ UNCHANGED <<asked, frees, pc, loopVars>>

NextBin ==
  /\ pc = "remove"
  /\ ~ OldestDue
  /\ IF bin < MaxBin THEN bin' = bin + 1 /\ pc' = pc
                     ELSE bin' = 0 /\ pc' = "release"
  /\ UNCHANGED <<blockVars, listVars, frees, freeInCache, release_age, age, old,
                 waited>>

------------------------------------------------------------------------------
Request ==
  \E s \in Requests :
    \/ \E j \in Bins : MallocHit(s, j)
    \/ \E b \in Blocks : \/ MallocMiss(s, b)
                         \/ ReallocNoop(b, s)
                         \/ \E j \in Bins : ReallocHit(b, s, j)
                         \/ \E new \in Blocks : ReallocMiss(b, new, s)

Next ==
  \/ Request
  \/ \E b \in Blocks : Free(b)
  \/ Trim \/ ReallocFree \/ ReleaseLoop \/ RemoveOldest \/ NextBin

Spec == Init /\ [][Next]_vars

------------------------------------------------------------------------------
\* The blocks of a bin from the newest on along next, and from the oldest on
\* along prev.
Along(link, from) ==
  LET chain[n \in 0 .. Cardinality(Blocks)] ==
        IF n = 0 THEN <<>>
        ELSE LET seq == chain[n - 1]
                 b == IF seq = <<>> THEN from ELSE link[Last(seq)]
             IN IF b = Null \/ (seq # <<>> /\ Last(seq) = Null) THEN seq
                ELSE Append(seq, b)
  IN chain[Cardinality(Blocks)]

Listed(i) == Along(next, head[i])

\* The links of all the blocks and the two ends of all the bins work together
\* as what CacheBin says, read forwards, as threadcache_malloc reads them ...
Forwards(i) == INSTANCE CacheBin WITH bin <- Listed(i)
ImplementsBins ==
  /\ \A i \in Bins : Forwards(i)!Init
  /\ [][\A i \in Bins : Forwards(i)!Next \/ UNCHANGED Listed(i)]_vars

\* ... and backwards, as RemoveCacheEntries does; and a block that was freed is
\* in exactly one bin until it is allocated or removed.
ReadsBackwards ==
  /\ \A i \in Bins : Reverse(Along(prev, tail[i])) = Listed(i)
  /\ \A b \in Blocks : Cardinality({i \in Bins : b \in Range(Listed(i))})
                         = IF b \in Cached THEN 1 ELSE 0

\* freeInCache, which decides when space is given back, is the space in the
\* bins, although sizes are rounded on the way in and on the way out.
FreeSpaceCounted == freeInCache = MapThenSumSet(LAMBDA b : size[b], Cached)

CacheConsistent == TypeOK /\ ReadsBackwards /\ FreeSpaceCounted

\* A program never gets less than it asked for, from whatever bin.
LargeEnough == \A b \in Blocks : memsize[b] >= asked[b]

\* Between calls a cache keeps less than THREADCACHEMAXFREESPACE, unless a
\* block has stayed in it until the counter wrapped.
CacheBounded ==
  pc = "idle" => \/ freeInCache < MaxFree
                 \/ \E b \in Cached : waited[b] = FreesModulus

\* RemoveCacheEntries leaves nothing behind that is as old as it was asked to
\* remove, though it stops in each bin at the first block that is younger;
\* again unless the counter has wrapped.
OldOnesRemoved ==
  pc = "remove" =>
    \A i \in 0 .. bin - 1 : \A b \in Range(Listed(i)) :
      waited[b] < age \/ \E x \in Cached : waited[x] = FreesModulus

AgeingWorks == CacheBounded /\ OldOnesRemoved

==============================================================================
