------------------------------- MODULE Mspace -------------------------------
(***************************************************************************)
(* An mspace of malloc.c.h: chunks with boundary tags, the bins, the       *)
(* designated victim dv, the top chunk and the segments.                   *)
(* mspace_malloc_implementation, tmalloc_small, tmalloc_large, sys_alloc,  *)
(* prepend_alloc, add_segment, mspace_free, sys_trim,                      *)
(* release_unused_segments, and internal_realloc as far as it stays in     *)
(* place.  Each runs from PREACTION to POSTACTION with the lock of the     *)
(* mspace held and is one step.                                            *)
(*                                                                         *)
(* Addresses and sizes are in words (SIZE_T_SIZE).  chunks holds the       *)
(* headers that a chunk begins with; what is left of the header of a chunk *)
(* that has been merged with its neighbour is not kept.  A bin holds the   *)
(* free chunks of some sizes: all bins together are the set binned, as a   *)
(* search of them returns a chunk of the best size.                        *)
(***************************************************************************)
EXTENDS Integers, FiniteSets

CONSTANTS
  Memory,        \* addresses that the system may map: 0 .. Memory - 1
  Granularity,   \* mparams.granularity
  MinChunk,      \* MIN_CHUNK_SIZE
  SegmentSize,   \* pad_request(sizeof(struct malloc_segment))
  StateSize,     \* pad_request(sizeof(struct malloc_state))
  MinLarge,      \* MIN_LARGE_SIZE: smaller chunks are in small bins
  Requests,      \* the sizes asked for, padded: nb
  Resizes,       \* the sizes internal_realloc is asked for
  MaxBlocks,     \* bound: blocks that the program holds at once, or that
                 \* internal_realloc has yet to give back for it
  TrimThreshold, \* mparams.trim_threshold
  ReleaseRate,   \* MAX_RELEASE_CHECK_RATE
  None           \* no chunk, and a trim threshold that is never passed

\* TOP_FOOT_SIZE: room at the end of a segment for what add_segment puts there.
TopFoot == SegmentSize + MinChunk

ASSUME ChunkAssumption ==
  /\ MinChunk \in Nat /\ MinChunk >= 3
  /\ SegmentSize \in Nat /\ SegmentSize >= MinChunk
  /\ StateSize \in Nat /\ StateSize >= MinChunk
  /\ MinLarge \in Nat
  /\ \A nb \in Requests \cup Resizes : nb \in Nat /\ nb >= MinChunk
ASSUME GranularityAssumption ==
  /\ Granularity \in Nat /\ Memory \in Nat /\ Granularity <= Memory
  /\ Granularity > StateSize + TopFoot
  /\ Granularity - TopFoot >= MinLarge
ASSUME RatesAssumption ==
  /\ TrimThreshold \in Nat
  /\ ReleaseRate \in Nat \ {0}
ASSUME NoneAssumption == None \notin Int

VARIABLES
  chunks,          \* the header of each chunk
  binned,          \* chunks in small and tree bins
  dv, dvsize,      \* the chunk that small requests are carved from
  top, topsize,    \* the chunk at the end of the last segment
  seg,             \* the segments, and where the record of each is
  trim_check,
  release_checks,
  extra,           \* chunks that internal_realloc has split off
  given            \* what the program asked for and holds (not in the code)

freeVars == <<binned, dv, dvsize, top, topsize>>
sysVars  == <<seg, trim_check, release_checks>>
vars     == <<chunks, freeVars, sysVars, extra, given>>

Address == 0 .. Memory - 1
InUseFoot == 0     \* mark_inuse_foot: no size but the mspace, xor a secret
State == 0         \* the malloc_state, with m->seg, the record of the last segment

TypeOK ==
  /\ \A a \in DOMAIN chunks :
       /\ a \in Address
       /\ chunks[a] \in [size : 1 .. Memory, cinuse : BOOLEAN, pinuse : BOOLEAN,
                         prev_foot : 0 .. Memory]
  /\ binned \subseteq Address
  /\ dv \in Address \cup {None} /\ dvsize \in 0 .. Memory
  /\ top \in Address /\ topsize \in 1 .. Memory
  /\ seg \subseteq [base : Address, size : 1 .. Memory, at : Address]
  /\ trim_check \in {TrimThreshold, None}
  /\ release_checks \in Nat \ {0}
  /\ extra \subseteq Address
  /\ given \subseteq [at : Address, size : Requests \cup Resizes]

SizeOf(p) == chunks[p].size
Small(s)  == s < MinLarge
End(s)    == s.base + s.size
Holds(s, a) == a \in s.base .. End(s) - 1
Mapped    == UNION {s.base .. End(s) - 1 : s \in seg}
Latest    == CHOOSE s \in seg : s.at = State

------------------------------------------------------------------------------
\* Headers.  A header that is written anew keeps the word before it, which
\* belongs to the chunk before.

With(h, p, header) == [a \in DOMAIN h \cup {p} |-> IF a = p THEN header ELSE h[a]]

Header(h, p, s, c) ==
  With(h, p, [size |-> s, cinuse |-> c, pinuse |-> TRUE,
              prev_foot |-> IF p \in DOMAIN h THEN h[p].prev_foot ELSE InUseFoot])

\* set_size_and_pinuse_of_inuse_chunk
InUse(h, p, s) == [Header(h, p, s, TRUE) EXCEPT ![p + s].prev_foot = InUseFoot]

\* set_inuse_and_pinuse
InUseWhole(h, p, s) == [InUse(h, p, s) EXCEPT ![p + s].pinuse = TRUE]

\* set_size_and_pinuse_of_free_chunk
FreeChunk(h, p, s) == [Header(h, p, s, FALSE) EXCEPT ![p + s].prev_foot = s]

\* set_free_with_pinuse
FreeWithPinuse(h, p, s) == [FreeChunk(h, p, s) EXCEPT ![p + s].pinuse = FALSE]

\* The first nb words of a free chunk are used, the rest stays free.
Split(h, p, s, nb) == InUse(FreeChunk(h, p + nb, s - nb), p, nb)

Drop(h, p) == [a \in DOMAIN h \ {p} |-> h[a]]

\* init_top: the chunk behind top stands for the space that top leaves free.
InitTop(h, p, s) ==
  With(Header(h, p, s, FALSE), p + s,
       [size |-> TopFoot, cinuse |-> FALSE, pinuse |-> FALSE, prev_foot |-> InUseFoot])

Give(p, nb) == given' = given \cup {[at |-> p, size |-> nb]}

------------------------------------------------------------------------------
\* create_mspace and init_user_mstate: the malloc_state is the first chunk.
Init ==
  LET top0 == Granularity - TopFoot - StateSize IN
  /\ chunks = InitTop([a \in {State} |-> [size |-> StateSize, cinuse |-> TRUE,
                                          pinuse |-> TRUE, prev_foot |-> InUseFoot]],
                      StateSize, top0)
  /\ binned = {}
  /\ dv = None /\ dvsize = 0
  /\ top = StateSize /\ topsize = top0
  /\ seg = {[base |-> 0, size |-> Granularity, at |-> State]}
  /\ trim_check = TrimThreshold
  /\ release_checks = ReleaseRate
  /\ extra = {}
  /\ given = {}

------------------------------------------------------------------------------
\* mspace_malloc_implementation

Smallest(A) == {a \in A : \A b \in A : SizeOf(a) <= SizeOf(b)}
Tree == {a \in binned : ~Small(SizeOf(a))}

SmallFits(nb) == {a \in binned : Small(SizeOf(a)) /\ SizeOf(a) >= nb}

\* Faulty variant: the remainder is computed one too large.
TreeFitsLess(nb) == {a \in Tree : SizeOf(a) + 1 >= nb}

\* Faulty variant: a chunk of just the size asked for is passed over.
TreeFitsMore(nb) == {a \in Tree : SizeOf(a) > nb}
TreeFits(nb) == {a \in Tree : SizeOf(a) >= nb}

\* The chunks that the bins may serve a request from.  A small request takes a
\* small chunk that fits without remainder, and another one, tmalloc_small's,
\* only when dv is too small.  tmalloc_large leaves a request to dv when that
\* is the better fit: an unsigned comparison that a small dv always loses.
Candidates(nb) ==
  IF ~Small(nb)
  THEN {p \in Smallest(TreeFits(nb)) : dvsize < nb \/ SizeOf(p) < dvsize}
  ELSE IF SmallFits(nb) # {}
  THEN {p \in Smallest(SmallFits(nb)) : SizeOf(p) <= nb + 1 \/ nb > dvsize}
  ELSE IF nb > dvsize THEN Smallest(Tree) ELSE {}

\* replace_dv puts the old dv in a bin.
Replaced == {dv} \ {None}

\* The remainder of a small request becomes dv, that of a large one goes to a bin.
MallocBinned(nb) ==
  \E p \in Candidates(nb) :
    LET rest == SizeOf(p) - nb IN
    /\ \/ /\ rest < MinChunk
          /\ chunks' = InUseWhole(chunks, p, SizeOf(p))
          /\ binned' = binned \ {p}
          /\ UNCHANGED <<dv, dvsize>>
       \/ /\ rest >= MinChunk
          /\ chunks' = Split(chunks, p, SizeOf(p), nb)
          /\ IF Small(nb)
             THEN /\ binned' = (binned \ {p}) \cup Replaced
                  /\ dv' = p + nb /\ dvsize' = rest
             ELSE /\ binned' = (binned \ {p}) \cup {p + nb}
                  /\ UNCHANGED <<dv, dvsize>>
    /\ Give(p, nb)
    /\ UNCHANGED <<top, topsize, sysVars, extra>>

MallocDv(nb) ==
  /\ Candidates(nb) = {}
  /\ nb <= dvsize
  /\ \/ /\ dvsize - nb >= MinChunk
        /\ chunks' = Split(chunks, dv, dvsize, nb)
        /\ dv' = dv + nb /\ dvsize' = dvsize - nb
     \/ /\ dvsize - nb < MinChunk
        /\ chunks' = InUseWhole(chunks, dv, dvsize)
        /\ dv' = None /\ dvsize' = 0
  /\ Give(dv, nb)
  /\ UNCHANGED <<binned, top, topsize, sysVars, extra>>

\* The first nb words of a top chunk p of size s.
SplitTop(h, p, s, nb) ==
  /\ chunks' = InUse(Header(h, p + nb, s - nb, FALSE), p, nb)
  /\ top' = p + nb /\ topsize' = s - nb
  /\ Give(p, nb)

MallocTop(nb) ==
  /\ Candidates(nb) = {}
  /\ nb > dvsize
  /\ nb < topsize
  /\ SplitTop(chunks, top, topsize, nb)
  /\ UNCHANGED <<binned, dv, dvsize, sysVars, extra>>

------------------------------------------------------------------------------
\* sys_alloc: granularity_align(nb + SYS_ALLOC_PADDING) words from mmap, at any
\* place that is not mapped.

SysSize(nb) ==
  ((nb + TopFoot + 1 + Granularity - 1) \div Granularity) * Granularity

NeedsSystem(nb) == Candidates(nb) = {} /\ nb > dvsize /\ nb >= topsize

\* Any free place but the one directly below the first segment: that begins at
\* address 0, so it is extended upwards only, and it is to later segments that
\* memory is prepended.
Granules == {b \in Address : b % Granularity = 0}
Regions(nb) == {b \in Granules :
                  /\ b + SysSize(nb) <= Memory
                  /\ \A s \in seg : b + SysSize(nb) <= s.base \/ End(s) <= b}

AppendsTo(s, b)  == End(s) = b /\ Holds(s, top)
PrependsTo(s, b, size) == s.base = b + size

\* The new memory follows the segment of top, which grows.
SysAppend(nb) ==
  /\ NeedsSystem(nb)
  /\ \E b \in Regions(nb), sp \in seg :
       /\ AppendsTo(sp, b)
       /\ seg' = (seg \ {sp}) \cup {[sp EXCEPT !.size = @ + SysSize(nb)]}
       /\ SplitTop(InitTop(Drop(chunks, top + topsize), top, topsize + SysSize(nb)),
                   top, topsize + SysSize(nb), nb)
  /\ trim_check' = TrimThreshold
  /\ UNCHANGED <<binned, dv, dvsize, release_checks, extra>>

\* prepend_alloc: it precedes a segment, and what is left of it joins the
\* segment's first chunk, if that is free.
SysPrepend(nb) ==
  /\ NeedsSystem(nb)
  /\ \E b \in Regions(nb), sp \in seg :
       /\ ~ \E s \in seg : AppendsTo(s, b)
       /\ PrependsTo(sp, b, SysSize(nb))
       /\ seg' = (seg \ {sp}) \cup {[sp EXCEPT !.base = b, !.size = @ + SysSize(nb)]}
       /\ LET oldfirst == sp.base
              q     == b + nb
              qsize == SysSize(nb) - nb
              joint == qsize + SizeOf(oldfirst)
              h     == Drop(chunks, oldfirst)
          IN \/ /\ oldfirst = top
                /\ chunks' = InUse(Header(h, q, joint, FALSE), b, nb)
                /\ top' = q /\ topsize' = joint
                /\ UNCHANGED <<binned, dv, dvsize>>
             \/ /\ oldfirst = dv
                /\ chunks' = InUse(FreeChunk(h, q, joint), b, nb)
                /\ dv' = q /\ dvsize' = joint
                /\ UNCHANGED <<binned, top, topsize>>
             \/ /\ oldfirst \notin {top, dv} /\ ~chunks[oldfirst].cinuse
                /\ chunks' = InUse(FreeWithPinuse(h, q, joint), b, nb)
                /\ binned' = (binned \ {oldfirst}) \cup {q}
                /\ UNCHANGED <<dv, dvsize, top, topsize>>
             \/ /\ chunks[oldfirst].cinuse
                /\ chunks' = InUse(FreeWithPinuse(chunks, q, qsize), b, nb)
                /\ binned' = binned \cup {q}
                /\ UNCHANGED <<dv, dvsize, top, topsize>>
       /\ Give(b, nb)
  /\ UNCHANGED <<trim_check, release_checks, extra>>

\* Fenceposts, chunks of one word, from first to the end.
Fenced(h, first, end) ==
  [a \in DOMAIN h \cup first .. end - 2 |->
     IF a \in first .. end - 2
     THEN [size |-> 1, cinuse |-> TRUE, pinuse |-> TRUE, prev_foot |-> InUseFoot]
     ELSE h[a]]

\* The place of the old segment's record: the end of the old top, or all of it.
RecordAt(end) ==
  IF end - TopFoot < top + MinChunk THEN top ELSE end - TopFoot

\* add_segment: the record of the old segment and fenceposts take the end of the
\* old top, whose rest goes to a bin, and top moves to the new segment.
SysAddSegment(nb) ==
  /\ NeedsSystem(nb)
  /\ \E b \in Regions(nb) :
       /\ ~ \E s \in seg : AppendsTo(s, b) \/ PrependsTo(s, b, SysSize(nb))
       /\ LET oldsp == CHOOSE s \in seg : Holds(s, top)
              sp    == RecordAt(End(oldsp))
              h1    == Fenced(Drop(chunks, top + topsize), sp + SegmentSize, End(oldsp))
              h2    == InUse(h1, sp, SegmentSize)
              h3    == IF sp = top THEN h2 ELSE FreeWithPinuse(h2, top, sp - top)
              s     == SysSize(nb) - TopFoot
          IN /\ SplitTop(InitTop(h3, b, s), b, s, nb)
             /\ binned' = IF sp = top THEN binned ELSE binned \cup {top}
             /\ seg' = (seg \ {Latest})
                         \cup {[base |-> b, size |-> SysSize(nb), at |-> State],
                               [Latest EXCEPT !.at = sp]}
  /\ trim_check' = TrimThreshold
  /\ UNCHANGED <<dv, dvsize, release_checks, extra>>

Malloc(nb) ==
  \/ MallocBinned(nb) \/ MallocDv(nb) \/ MallocTop(nb)
  \/ SysAppend(nb) \/ SysPrepend(nb) \/ SysAddSegment(nb)

------------------------------------------------------------------------------
\* mspace_free.  The chunk joins the one before, if that is free: it then begins
\* at First(a), and its own header is gone.

First(a) == IF chunks[a].pinuse THEN a ELSE a - chunks[a].prev_foot
After(a) == a + SizeOf(a)
Joined(a) == After(a) - First(a)
Headers(a) == IF First(a) = a THEN chunks ELSE Drop(chunks, a)

\* The chunk is the program's, or one that internal_realloc gives back.
GivenBack(a) ==
  \/ a \in extra /\ extra' = extra \ {a} /\ UNCHANGED given
  \/ /\ \E b \in given : b.at = a /\ given' = given \ {b}
     /\ UNCHANGED extra

\* It only makes dv larger.
FreeBehindDv(a) ==
  /\ First(a) = dv
  /\ chunks[After(a)].cinuse
  /\ chunks' = FreeWithPinuse(Headers(a), dv, Joined(a))
  /\ dvsize' = Joined(a)
  /\ UNCHANGED <<binned, dv, top, topsize, sysVars>>

FreeBeforeDv(a) ==
  /\ After(a) = dv
  /\ chunks' = FreeChunk(Drop(Headers(a), dv), First(a), Joined(a) + dvsize)
  /\ dv' = First(a) /\ dvsize' = Joined(a) + dvsize
  /\ binned' = binned \ {First(a)}
  /\ UNCHANGED <<top, topsize, sysVars>>

\* release_unused_segments, for headers h, bins B and a dv d: every segment but
\* the first whose chunks are one free chunk goes back to the system.  munmap may
\* fail: the chunk is then put in a bin.
Unused(h) == {s \in seg :
                /\ s.at # State
                /\ ~h[s.base].cinuse
                /\ s.base + h[s.base].size >= End(s) - TopFoot}
Bases(K) == {s.base : s \in K}
Outside(h, K) == {a \in DOMAIN h : \A s \in K : ~Holds(s, a)}

\* MAX_RELEASE_CHECK_RATE, or the number of segments behind the first.
NextCheck == LET n == Cardinality(seg) - 1 IN IF n > ReleaseRate THEN n ELSE ReleaseRate

\* Faulty variant: a chunk that the system does not take back is in no bin.
ReleaseUnusedForgotten(h, B, d, dsize, K) ==
  /\ chunks' = [a \in Outside(h, K) |-> h[a]]
  /\ binned' = B \ Bases(Unused(h))
  /\ dv' = IF d \in Bases(Unused(h)) THEN None ELSE d
  /\ dvsize' = IF d \in Bases(Unused(h)) THEN 0 ELSE dsize
  /\ release_checks' = NextCheck

ReleaseUnused(h, B, d, dsize, K) ==
  /\ chunks' = [a \in Outside(h, K) |-> h[a]]
  /\ binned' = (B \cup Bases(Unused(h))) \ Bases(K)
  /\ dv' = IF d \in Bases(Unused(h)) THEN None ELSE d
  /\ dvsize' = IF d \in Bases(Unused(h)) THEN 0 ELSE dsize
  /\ release_checks' = NextCheck

\* sys_trim(m, 0): top gives back whole granules but the last, unless a record is
\* in its segment and if the system lets it.
Spare(tsize) ==
  IF tsize <= TopFoot THEN 0
  ELSE ((tsize - TopFoot + Granularity - 1) \div Granularity - 1) * Granularity

Pinned(s) == \E r \in seg : Holds(s, r.at)

Trim(p, tsize, B, d, dsize) ==
  LET s == CHOOSE x \in seg : Holds(x, top)
      h == Header(Drop(Headers(p), top), First(p), tsize, FALSE)
  IN \E released \in {0} \cup IF s.size >= Spare(tsize) /\ ~Pinned(s)
                              THEN {Spare(tsize)} ELSE {} :
       LET newsize == tsize - released
           hh == IF released = 0 THEN h
                 ELSE InitTop(Drop(h, First(p) + tsize), First(p), newsize)
       IN \E K \in SUBSET Unused(hh) :
            /\ ReleaseUnused(hh, B, d, dsize, K)
            /\ seg' = ((seg \ {s}) \cup {[s EXCEPT !.size = @ - released]}) \ K
            /\ topsize' = newsize
            /\ trim_check' = IF released # 0 THEN TrimThreshold
                             ELSE IF K = {} THEN None ELSE trim_check

\* It joins top, which may have become large enough to be trimmed.
FreeBeforeTop(a) ==
  LET tsize == Joined(a) + topsize
      B     == binned \ {First(a)}
      d     == IF First(a) = dv THEN None ELSE dv
      dsize == IF First(a) = dv THEN 0 ELSE dvsize
  IN /\ After(a) = top
     /\ top' = First(a)
     /\ IF trim_check # None /\ tsize > trim_check
        THEN Trim(a, tsize, B, d, dsize)
        ELSE /\ chunks' = Header(Drop(Headers(a), top), First(a), tsize, FALSE)
             /\ topsize' = tsize
             /\ binned' = B
             /\ dv' = d /\ dvsize' = dsize
             /\ UNCHANGED sysVars

\* It joins a free chunk behind it, if there is one, and goes to a bin, unless
\* it has become part of dv.
FreeBinned(a) ==
  LET next  == After(a)
      free  == ~chunks[next].cinuse
      size  == Joined(a) + (IF free THEN SizeOf(next) ELSE 0)
      h     == IF free THEN FreeChunk(Drop(Headers(a), next), First(a), size)
                       ELSE FreeWithPinuse(Headers(a), First(a), size)
      B     == (binned \ {next}) \cup {First(a)}
  IN /\ next \notin {top, dv}
     /\ First(a) = dv => free
     /\ \/ /\ First(a) = dv
           /\ chunks' = h
           /\ binned' = binned \ {next}
           /\ dvsize' = size
           /\ UNCHANGED <<dv, sysVars>>
        \/ /\ First(a) # dv
           /\ Small(size) \/ release_checks > 1
           /\ chunks' = h
           /\ binned' = B
           /\ release_checks' = IF Small(size) THEN release_checks
                                ELSE release_checks - 1
           /\ UNCHANGED <<dv, dvsize, seg, trim_check>>
        \/ /\ First(a) # dv
           /\ ~Small(size) /\ release_checks = 1
           /\ \E K \in SUBSET Unused(h) :
                /\ ReleaseUnused(h, B, dv, dvsize, K)
                /\ seg' = seg \ K
           /\ UNCHANGED trim_check
     /\ UNCHANGED <<top, topsize>>

Free(a) ==
  /\ GivenBack(a)
  /\ \/ FreeBehindDv(a) \/ FreeBeforeDv(a) \/ FreeBeforeTop(a) \/ FreeBinned(a)

------------------------------------------------------------------------------
\* internal_realloc in place; elsewhere it is a malloc and a free.

\* set_inuse, which leaves pinuse as it is
SetInuse(h, p, s) ==
  [h EXCEPT ![p].size = s, ![p].cinuse = TRUE,
            ![p + s].pinuse = TRUE, ![p + s].prev_foot = InUseFoot]

Resize(b, nb) == given' = (given \ {b}) \cup {[b EXCEPT !.size = nb]}

\* Faulty variant: what is split off is never given back.
SplitOffLost(a, rest) == {}

\* What is split off is a chunk in use, given back with internal_free later.
SplitOff(a, rest) == IF rest >= MinChunk THEN {a} ELSE {}

ReallocShrink(b, nb) ==
  LET rest == SizeOf(b.at) - nb IN
  /\ rest >= 0
  /\ IF rest >= MinChunk
     THEN chunks' = SetInuse(InUseWhole(chunks, b.at + nb, rest), b.at, nb)
     ELSE UNCHANGED chunks
  /\ extra' = extra \cup SplitOff(b.at + nb, rest)
  /\ Resize(b, nb)
  /\ UNCHANGED <<freeVars, sysVars>>

ReallocIntoTop(b, nb) ==
  LET newsize == SizeOf(b.at) + topsize IN
  /\ After(b.at) = top
  /\ SizeOf(b.at) < nb /\ newsize > nb
  /\ chunks' = SetInuse(Header(Drop(chunks, top), b.at + nb, newsize - nb, FALSE),
                        b.at, nb)
  /\ top' = b.at + nb /\ topsize' = newsize - nb
  /\ Resize(b, nb)
  /\ UNCHANGED <<binned, dv, dvsize, sysVars, extra>>

Realloc(b, nb) == ReallocShrink(b, nb) \/ ReallocIntoTop(b, nb)

Next ==
  \/ /\ Cardinality(given) + Cardinality(extra) < MaxBlocks
     /\ \/ \E nb \in Requests : Malloc(nb)
        \/ \E b \in given, nb \in Resizes : Realloc(b, nb)
  \/ \E a \in extra \cup {b.at : b \in given} : Free(a)

Spec == Init /\ [][Next]_vars

------------------------------------------------------------------------------
\* Whatever its headers say, the heap hands out memory that is mapped and that
\* nobody else holds, and keeps its hands off it.
Contract == INSTANCE HeapContract WITH mapped <- Mapped
ImplementsHeap == Contract!Spec

\* Another chunk follows in the same segment.
Followed(a) == /\ After(a) \in DOMAIN chunks
               /\ \E s \in seg : Holds(s, a) /\ Holds(s, After(a))

\* Walking a segment from chunk to chunk (traverse_and_check) passes every
\* header and ends behind top or behind the fenceposts.
Tiled ==
  /\ \A s \in seg : s.base \in DOMAIN chunks
  /\ \A a \in DOMAIN chunks :
       /\ \A b \in a + 1 .. After(a) - 1 : b \notin DOMAIN chunks
       /\ Followed(a)
            \/ \E s \in seg : After(a) \in {End(s) - 1, End(s)}

\* The tags on both sides of a boundary agree (do_check_inuse_chunk,
\* do_check_free_chunk), and there are never two free chunks in a row: what is
\* freed is joined in both directions.
TagsAgree ==
  \A a \in DOMAIN chunks : Followed(a) =>
    LET next == chunks[After(a)] IN
    /\ next.pinuse = chunks[a].cinuse
    /\ (~chunks[a].cinuse /\ a # top) => (next.prev_foot = SizeOf(a) /\ next.cinuse)

\* A free chunk can be found again: each is dv, or top, or in a bin, once
\* (do_check_malloc_state), and those in bins have room for the links.
FreeFound ==
  /\ {a \in DOMAIN chunks : ~chunks[a].cinuse}
       = binned \cup ({dv} \ {None}) \cup {top, top + topsize}
  /\ \A a \in binned : SizeOf(a) >= MinChunk
  /\ dv \notin binned /\ top \notin binned \cup {dv}
  /\ topsize = SizeOf(top)
  /\ dvsize = IF dv = None THEN 0 ELSE SizeOf(dv)

\* A block is large enough, and what it is larger than was asked for would not
\* have made a chunk (do_check_malloced_chunk).
FitsWell ==
  \A b \in given : SizeOf(b.at) >= b.size /\ SizeOf(b.at) < b.size + MinChunk

\* What do_check_malloc_state and its helpers assert of a heap at rest.
CheckedState == TypeOK /\ Tiled /\ TagsAgree /\ FreeFound /\ FitsWell

\* Nothing leaks: a chunk in use is one that the program or a realloc holds, or
\* one of the heap's own.
Records == {s.at : s \in seg}
NothingLeaks ==
  \A a \in DOMAIN chunks : chunks[a].cinuse =>
    \/ SizeOf(a) = 1
    \/ a \in extra \cup Records
    \/ \E b \in given : b.at = a

\* The heap asks the system for memory only for a request that no free chunk is
\* large enough for; top has to be larger than the request.
SystemIsLast ==
  [][~(Mapped' \subseteq Mapped) =>
       \E b \in given' \ given :
         \A a \in DOMAIN chunks : ~chunks[a].cinuse /\ a # top + topsize =>
           SizeOf(a) < b.size \/ (a = top /\ SizeOf(a) = b.size)]_vars

==============================================================================
