---------------------------- MODULE MspaceProofs ----------------------------
(***************************************************************************)
(* Proofs about Mspace, for any memory, any sizes and any requests.        *)
(*                                                                         *)
(* Heap says what chunks, segments and top have to do with each other; it  *)
(* knows of no request.  There are few ways in which a heap changes: a     *)
(* chunk is taken, vacated, cut or joined with the next, top gives or      *)
(* takes, a segment grows, shrinks, comes or goes.  Each is a predicate on *)
(* headers before and after (Taking, Vacating, Cutting, ...) and a lemma   *)
(* (Take, Vacate, Cut, ...) that says which chunks are used and which are  *)
(* free afterwards.  An operation is a sequence of such changes, and the   *)
(* headers between them are not those of any state of the model.  IInv     *)
(* adds who uses the chunks (Blocks) and where the free ones are found     *)
(* (Roles).                                                                *)
(***************************************************************************)
EXTENDS Mspace, FiniteSetTheorems, WellFoundedInduction, TLAPS

HeaderSet == [size : Nat \ {0}, cinuse : BOOLEAN, pinuse : BOOLEAN,
              prev_foot : 0 .. Memory]

Typed(h) == \A a \in DOMAIN h : a \in Nat /\ h[a] \in HeaderSet

\* h2 differs from h in the chunks of A only.
Elsewhere(h, h2, A) ==
  /\ DOMAIN h2 \ A = DOMAIN h \ A
  /\ \A a \in DOMAIN h \ A : h2[a] = h[a]

USE ChunkAssumption, GranularityAssumption, RatesAssumption, NoneAssumption

\* The header of chunk p.
Is(h, p, s, c, pi, pf) ==
  /\ p \in DOMAIN h
  /\ h[p].size = s /\ (h[p].cinuse <=> c) /\ (h[p].pinuse <=> pi) /\ h[p].prev_foot = pf

------------------------------------------------------------------------------
\* A heap: chunks h, segments S, top t and the chunk f behind it.

Segments(S) ==
  /\ IsFiniteSet(S)
  /\ \A s \in S :
       /\ s \in [base : Nat, size : Nat \ {0}, at : Nat]
       /\ End(s) <= Memory
  /\ \A s, r \in S : s # r => End(s) <= r.base \/ End(r) <= s.base

\* The chunks of a segment follow each other to its end.
Apart(h) == \A a, b \in DOMAIN h : a < b => a + h[a].size <= b
Home(h, S) == \A a \in DOMAIN h : \E s \in S : Holds(s, a)
Chained(h, S, f) ==
  \A a \in DOMAIN h, s \in S : Holds(s, a) =>
    IF a = f THEN a + h[a].size = End(s)
    ELSE \/ (a + h[a].size < End(s) /\ a + h[a].size \in DOMAIN h)
         \/ (a + h[a].size = End(s) - 1 /\ h[a].size = 1)
Based(h, S) == \A s \in S : s.base \in DOMAIN h

Geometry(h, S, f) == Apart(h) /\ Home(h, S) /\ Chained(h, S, f) /\ Based(h, S)

\* The tags of a chunk agree with the chunk behind it and with the one before.
Forward(h, t, f) ==
  \A a \in DOMAIN h : a # f /\ a + h[a].size \in DOMAIN h =>
    /\ h[a + h[a].size].pinuse <=> h[a].cinuse
    /\ ~h[a].cinuse /\ a # t =>
         h[a + h[a].size].prev_foot = h[a].size /\ h[a + h[a].size].cinuse
Back(h, t, f) ==
  \A b \in DOMAIN h : b # f /\ ~h[b].pinuse =>
    /\ b - h[b].prev_foot \in DOMAIN h \ {t, f}
    /\ ~h[b - h[b].prev_foot].cinuse
    /\ h[b - h[b].prev_foot].size = h[b].prev_foot
FreePinuse(h, f) == \A a \in DOMAIN h : ~h[a].cinuse /\ a # f => h[a].pinuse

Tags(h, t, f) == Forward(h, t, f) /\ Back(h, t, f) /\ FreePinuse(h, f)

\* top is the last chunk of the last segment.
TopOK(h, t, f, S) ==
  /\ t \in DOMAIN h /\ ~h[t].cinuse
  /\ f = t + h[t].size
  /\ Is(h, f, TopFoot, FALSE, FALSE, h[f].prev_foot)
  /\ \E s \in S : s.at = State /\ Holds(s, t)
  /\ \A s, r \in S : s.at = State /\ r.at = State => s = r

\* The record of a segment is the last chunk of it but for the fenceposts.
RecordsOK(h, S) ==
  \A s \in S :
    /\ s.at \in DOMAIN h /\ h[s.at].cinuse
    /\ s.at # State =>
         /\ Holds(s, s.at) /\ s.at <= End(s) - TopFoot
         /\ \A a \in DOMAIN h : Holds(s, a) /\ a > s.at => h[a].size = 1

SizesOK(h, t) ==
  \A a \in DOMAIN h : a = t \/ h[a].size >= MinChunk \/ (h[a].size = 1 /\ h[a].cinuse)

Heap(h, t, f, S) ==
  /\ Typed(h) /\ Segments(S) /\ Geometry(h, S, f) /\ Tags(h, t, f)
  /\ TopOK(h, t, f, S) /\ RecordsOK(h, S) /\ SizesOK(h, t)

\* The chunks that somebody uses, and the free ones but top.
Used(h, S) == {a \in DOMAIN h : /\ h[a].cinuse /\ h[a].size # 1
                                /\ \A s \in S : s.at # a}
Avail(h, t, f) == {a \in DOMAIN h : ~h[a].cinuse /\ a \notin {t, f}}

\* A heap with chunks U that are used and chunks A that are free.
Result(h, t, f, S, U, A) ==
  Heap(h, t, f, S) /\ Used(h, S) = U /\ Avail(h, t, f) = A

SameSize(h, h2, A) == \A x \in A : h2[x].size = h[x].size

\* Behind a chunk that is used or free there is another one of its segment.
LEMMA ChunkBehind ==
  ASSUME NEW h, NEW t, NEW f, NEW S, Heap(h, t, f, S),
         NEW a \in Used(h, S) \cup Avail(h, t, f)
  PROVE  /\ a \in DOMAIN h /\ a # f /\ a # t
         /\ a \in Nat /\ h[a].size \in Nat /\ h[a].size >= MinChunk
         /\ a + h[a].size \in DOMAIN h
         /\ a + h[a].size # a
         /\ \A s \in S : Holds(s, a) => Holds(s, a + h[a].size)
<1> USE DEF Heap
<1>1. a \in DOMAIN h /\ a \in Nat /\ h[a].size \in Nat /\ h[a].size >= 1
  BY DEF Typed, Used, Avail, HeaderSet
<1>2. a # f /\ a # t
  BY DEF Used, Avail, TopOK, Is
<1>3. h[a].size >= MinChunk
  BY <1>1, <1>2 DEF SizesOK, Used, Avail
<1>4. PICK s \in S : Holds(s, a)
  BY <1>1 DEF Geometry, Home
<1>5. a + h[a].size \in DOMAIN h
  BY <1>1, <1>2, <1>3, <1>4 DEF Geometry, Chained
<1>6. \A r \in S : Holds(r, a) => Holds(r, a + h[a].size)
  BY <1>1, <1>2, <1>3 DEF Geometry, Chained, Holds, End, Segments
<1> QED
  BY <1>1, <1>2, <1>3, <1>5, <1>6

\* What the headers of a heap are.
LEMMA HeapTypes ==
  ASSUME NEW h, NEW t, NEW f, NEW S, Heap(h, t, f, S)
  PROVE  \A x \in DOMAIN h : /\ x \in Nat /\ h[x].size \in Nat /\ h[x].size > 0
                              /\ h[x].prev_foot \in Nat
                              /\ h[x].cinuse \in BOOLEAN /\ h[x].pinuse \in BOOLEAN
BY DEF Heap, Typed, HeaderSet

\* Chunks of the same sizes lie as they did.
LEMMA SameSizes ==
  ASSUME NEW h, NEW f, NEW S, Geometry(h, S, f), NEW h2,
         DOMAIN h2 = DOMAIN h, \A x \in DOMAIN h : h2[x].size = h[x].size
  PROVE  Geometry(h2, S, f)
BY DEF Geometry, Apart, Home, Chained, Based

\* A free chunk is taken into use.
Taking(h, t, f, S, a, n, h2) ==
  /\ a \in Avail(h, t, f) /\ n = a + h[a].size
  /\ Typed(h2) /\ DOMAIN h2 = DOMAIN h /\ Elsewhere(h, h2, {a, n})
  /\ Is(h2, a, h[a].size, TRUE, TRUE, h[a].prev_foot)
  /\ Is(h2, n, h[n].size, h[n].cinuse, TRUE, h2[n].prev_foot)

LEMMA Take ==
  ASSUME NEW h, NEW t, NEW f, NEW S, Heap(h, t, f, S), NEW a, NEW n, NEW h2,
         Taking(h, t, f, S, a, n, h2)
  PROVE  /\ Result(h2, t, f, S, Used(h, S) \cup {a}, Avail(h, t, f) \ {a})
         /\ SameSize(h, h2, DOMAIN h)
<1> USE DEF Taking
<1>1. /\ a \in DOMAIN h /\ a # f /\ a # t /\ n \in DOMAIN h /\ n # a
      /\ ~h[a].cinuse /\ h[a].size \in Nat /\ h[a].size >= MinChunk /\ a \in Nat
  BY ChunkBehind DEF Avail
<1>2. h[n].cinuse /\ h[a].pinuse /\ h[n].size # 0
  BY <1>1 DEF Heap, Tags, Forward, FreePinuse, Typed, HeaderSet
<1>3. n # f /\ n # t
  BY <1>2 DEF Heap, TopOK, Is
<1>4. \A x \in DOMAIN h : h2[x].size = h[x].size
  BY DEF Elsewhere, Is
<1>5. \A x \in DOMAIN h : x # a => (h2[x].cinuse <=> h[x].cinuse)
  BY DEF Elsewhere, Is, Typed, HeaderSet
<1>6. Geometry(h2, S, f)
  BY <1>4, SameSizes DEF Heap
<1>7. Tags(h2, t, f)
  <2>1. Forward(h2, t, f)
    BY <1>1, <1>2, <1>3, <1>4, <1>5 DEF Heap, Tags, Forward, Is, Elsewhere, Geometry,
       Apart, Typed, HeaderSet
  <2>2. Back(h2, t, f)
    BY <1>1, <1>2, <1>3, <1>4, <1>5 DEF Heap, Tags, Back, Is, Elsewhere, Typed, HeaderSet
  <2>3. FreePinuse(h2, f)
    BY <1>1, <1>2, <1>3, <1>4, <1>5 DEF Heap, Tags, FreePinuse, Is, Elsewhere, Typed,
       HeaderSet
  <2> QED
    BY <2>1, <2>2, <2>3 DEF Tags
<1>8. TopOK(h2, t, f, S)
  BY <1>1, <1>2, <1>3, <1>4, <1>5 DEF Heap, TopOK, Is, Elsewhere
<1>9. RecordsOK(h2, S)
  BY <1>1, <1>4, <1>5 DEF Heap, RecordsOK, Is
<1>10. SizesOK(h2, t)
  BY <1>1, <1>4, <1>5 DEF Heap, SizesOK, Is
<1>11. Used(h2, S) = Used(h, S) \cup {a}
  BY <1>1, <1>4, <1>5 DEF Used, Heap, RecordsOK, Is
<1>12. Avail(h2, t, f) = Avail(h, t, f) \ {a}
  BY <1>1, <1>4, <1>5 DEF Avail, Is
<1> QED
  BY <1>4, <1>6, <1>7, <1>8, <1>9, <1>10, <1>11, <1>12 DEF Heap, Result, SameSize

\* A chunk that is used, behind one that is, becomes free.
Vacating(h, t, f, S, a, n, h2) ==
  /\ a \in Used(h, S) /\ h[a].pinuse /\ n = a + h[a].size /\ h[n].cinuse
  /\ Typed(h2) /\ DOMAIN h2 = DOMAIN h /\ Elsewhere(h, h2, {a, n})
  /\ Is(h2, a, h[a].size, FALSE, TRUE, h2[a].prev_foot)
  /\ Is(h2, n, h[n].size, TRUE, FALSE, h[a].size)

LEMMA Vacate ==
  ASSUME NEW h, NEW t, NEW f, NEW S, Heap(h, t, f, S), NEW a, NEW n, NEW h2,
         Vacating(h, t, f, S, a, n, h2)
  PROVE  /\ Result(h2, t, f, S, Used(h, S) \ {a}, Avail(h, t, f) \cup {a})
         /\ SameSize(h, h2, DOMAIN h)
<1> USE DEF Vacating
<1>1. /\ a \in DOMAIN h /\ a # f /\ a # t /\ n \in DOMAIN h /\ n # a
      /\ h[a].cinuse /\ h[a].size \in Nat /\ h[a].size >= MinChunk /\ a \in Nat
  BY ChunkBehind DEF Used
<1>2. h[n].pinuse /\ h[n].size # 0
  BY <1>1 DEF Heap, Tags, Forward, FreePinuse, Typed, HeaderSet
<1>3. n # f /\ n # t
  BY <1>2 DEF Heap, TopOK, Is
<1>4. \A x \in DOMAIN h : h2[x].size = h[x].size
  BY DEF Elsewhere, Is
<1>5. \A x \in DOMAIN h : x # a => (h2[x].cinuse <=> h[x].cinuse)
  BY DEF Elsewhere, Is, Typed, HeaderSet
<1>6. Geometry(h2, S, f)
  BY <1>4, SameSizes DEF Heap
<1>7. Tags(h2, t, f)
  <2>1. Forward(h2, t, f)
    <3>1. \A x \in DOMAIN h : x # f /\ x + h[x].size \in DOMAIN h /\ x + h[x].size = n => x = a
      BY <1>1 DEF Heap, Geometry, Apart, Typed, HeaderSet
    <3>2. \A x \in DOMAIN h : x # f /\ x + h[x].size = a /\ ~h[x].cinuse => FALSE
      BY <1>1 DEF Heap, Tags, Forward
    <3> QED
      BY <1>1, <1>2, <1>3, <1>4, <1>5, <3>1, <3>2 DEF Heap, Tags, Forward, Is, Elsewhere,
         Typed, HeaderSet
  <2>2. Back(h2, t, f)
    BY <1>1, <1>2, <1>3, <1>4, <1>5 DEF Heap, Tags, Back, Is, Elsewhere, Typed, HeaderSet
  <2>3. FreePinuse(h2, f)
    BY <1>1, <1>2, <1>3, <1>4, <1>5 DEF Heap, Tags, FreePinuse, Is, Elsewhere, Typed,
       HeaderSet
  <2> QED
    BY <2>1, <2>2, <2>3 DEF Tags
<1>8. TopOK(h2, t, f, S)
  BY <1>1, <1>2, <1>3, <1>4, <1>5 DEF Heap, TopOK, Is, Elsewhere
<1>9. RecordsOK(h2, S)
  BY <1>1, <1>4, <1>5 DEF Heap, RecordsOK, Is, Used
<1>10. SizesOK(h2, t)
  <2>1. \A x \in DOMAIN h : x # a => x = t \/ h[x].size >= MinChunk \/ (h[x].size = 1 /\ h[x].cinuse)
    BY DEF Heap, SizesOK
  <2> SUFFICES ASSUME NEW x \in DOMAIN h
               PROVE  x = t \/ h2[x].size >= MinChunk \/ (h2[x].size = 1 /\ h2[x].cinuse)
    BY DEF SizesOK
  <2>2. h2[x].size = h[x].size
    BY <1>4
  <2>3. CASE x = a
    BY <1>1, <2>2, <2>3
  <2>4. CASE x # a
    BY <1>5, <2>1, <2>2, <2>4
  <2> QED
    BY <2>3, <2>4
<1>11. Used(h2, S) = Used(h, S) \ {a}
  BY <1>1, <1>4, <1>5 DEF Used, Heap, RecordsOK, Is
<1>12. Avail(h2, t, f) = Avail(h, t, f) \cup {a}
  BY <1>1, <1>4, <1>5 DEF Avail, Is
<1> QED
  BY <1>4, <1>6, <1>7, <1>8, <1>9, <1>10, <1>11, <1>12 DEF Heap, Result, SameSize

\* A chunk that is used is cut in two.
Cutting(h, t, f, S, a, k, n, q, h2) ==
  /\ a \in Used(h, S) /\ n = a + h[a].size
  /\ k \in Nat /\ k >= MinChunk /\ h[a].size - k >= MinChunk /\ q = a + k
  /\ Typed(h2) /\ DOMAIN h2 = DOMAIN h \cup {q} /\ Elsewhere(h, h2, {a, q, n})
  /\ Is(h2, a, k, TRUE, h[a].pinuse, h[a].prev_foot)
  /\ Is(h2, q, h[a].size - k, TRUE, TRUE, h2[q].prev_foot)
  /\ Is(h2, n, h[n].size, h[n].cinuse, TRUE, h2[n].prev_foot)

LEMMA Cut ==
  ASSUME NEW h, NEW t, NEW f, NEW S, Heap(h, t, f, S), NEW a, NEW k, NEW n, NEW q, NEW h2,
         Cutting(h, t, f, S, a, k, n, q, h2)
  PROVE  /\ Result(h2, t, f, S, Used(h, S) \cup {q}, Avail(h, t, f))
         /\ SameSize(h, h2, DOMAIN h \ {a})
         /\ q \notin DOMAIN h
<1> USE DEF Cutting
<1>1. /\ a \in DOMAIN h /\ a # f /\ a # t /\ n \in DOMAIN h /\ n # a
      /\ h[a].cinuse /\ h[a].size \in Nat /\ h[a].size >= MinChunk /\ a \in Nat
      /\ \A s \in S : Holds(s, a) => Holds(s, n)
      /\ q \in Nat /\ q > a /\ q < n
  BY ChunkBehind DEF Used
<1>2. h[n].pinuse /\ h[n].size # 0
  BY <1>1 DEF Heap, Tags, Forward, FreePinuse, Typed, HeaderSet
<1>3. n # f /\ q \notin DOMAIN h
  BY <1>1, <1>2 DEF Heap, TopOK, Is, Geometry, Apart, Typed
<1>4. \A x \in DOMAIN h : x # a => h2[x].size = h[x].size
  BY <1>1, <1>3 DEF Elsewhere, Is
<1>5. \A x \in DOMAIN h : (h2[x].cinuse <=> h[x].cinuse)
  BY <1>1, <1>3 DEF Elsewhere, Is, Typed, HeaderSet
<1>6. Geometry(h2, S, f)
  <2>0. \A x \in DOMAIN h : x \in Nat /\ h[x].size \in Nat /\ h[x].size > 0
    BY HeapTypes
  <2>1. Apart(h2)
    BY <1>1, <1>3, <1>4, <2>0 DEF Heap, Geometry, Apart, Is
  <2>2. Home(h2, S)
    BY <1>1, <1>3, <1>4, <2>0 DEF Heap, Geometry, Home, Is, Holds, End, Segments
  <2>3. Chained(h2, S, f)
    <3> SUFFICES ASSUME NEW x \in DOMAIN h2, NEW s \in S, Holds(s, x)
                 PROVE  IF x = f THEN x + h2[x].size = End(s)
                        ELSE \/ (x + h2[x].size < End(s) /\ x + h2[x].size \in DOMAIN h2)
                             \/ (x + h2[x].size = End(s) - 1 /\ h2[x].size = 1)
      BY DEF Chained
    <3>1. CASE x = a
      <4>1. h2[a].size = k /\ Holds(s, n)
        BY <1>1, <3>1 DEF Is
      <4> QED
        BY <1>1, <3>1, <4>1 DEF Holds, End, Segments, Heap
    <3>2. CASE x = q
      <4>1. q + h2[q].size = n /\ q # f
        BY <1>1, <1>3 DEF Is, Heap, TopOK
      <4>2. PICK r \in S : Holds(r, a) /\ Holds(r, n)
        BY <1>1 DEF Heap, Geometry, Home
      <4>3. r = s
        BY <1>1, <3>2, <4>2 DEF Heap, Segments, Holds, End
      <4> QED
        BY <1>1, <3>2, <4>1, <4>2, <4>3 DEF Holds, End, Segments, Heap
    <3>3. CASE x # a /\ x # q
      BY <1>1, <1>3, <1>4, <3>3 DEF Heap, Geometry, Chained
    <3> QED
      BY <3>1, <3>2, <3>3
  <2>4. Based(h2, S)
    BY DEF Heap, Geometry, Based
  <2> QED
    BY <2>1, <2>2, <2>3, <2>4 DEF Geometry
<1>7. Tags(h2, t, f)
  <2>1. Forward(h2, t, f)
    <3>1. \A x \in DOMAIN h : x # a /\ x + h[x].size \in DOMAIN h2 => x + h[x].size # q /\ x + h[x].size # n
      BY <1>1, <1>3 DEF Heap, Geometry, Apart, Typed, HeaderSet
    <3> QED
      BY <1>1, <1>2, <1>3, <1>4, <1>5, <3>1 DEF Heap, Tags, Forward, Is, Elsewhere, Typed,
         HeaderSet
  <2>2. Back(h2, t, f)
    BY <1>1, <1>2, <1>3, <1>4, <1>5 DEF Heap, Tags, Back, Is, Elsewhere, Typed, HeaderSet
  <2>3. FreePinuse(h2, f)
    BY <1>1, <1>2, <1>3, <1>4, <1>5 DEF Heap, Tags, FreePinuse, Is, Elsewhere, Typed,
       HeaderSet
  <2> QED
    BY <2>1, <2>2, <2>3 DEF Tags
<1>8. TopOK(h2, t, f, S)
  BY <1>1, <1>2, <1>3, <1>4, <1>5 DEF Heap, TopOK, Is, Elsewhere
<1>9. RecordsOK(h2, S)
  BY <1>1, <1>3, <1>4, <1>5 DEF Heap, RecordsOK, Is, Used, Holds, End, Segments, Geometry,
     Apart
<1>10. SizesOK(h2, t)
  BY <1>1, <1>3, <1>4, <1>5 DEF Heap, SizesOK, Is
<1>11. Used(h2, S) = Used(h, S) \cup {q}
  BY <1>1, <1>3, <1>4, <1>5 DEF Used, Heap, RecordsOK, Is
<1>12. Avail(h2, t, f) = Avail(h, t, f)
  BY <1>1, <1>3, <1>4, <1>5 DEF Avail, Is
<1> QED
  BY <1>3, <1>4, <1>6, <1>7, <1>8, <1>9, <1>10, <1>11, <1>12 DEF Heap, Result, SameSize

\* A chunk that is used takes in the free one behind it.
Absorbing(h, t, f, S, a, n, e, h2) ==
  /\ a \in Used(h, S) /\ n = a + h[a].size /\ n \in Avail(h, t, f) /\ e = n + h[n].size
  /\ Typed(h2) /\ DOMAIN h2 = DOMAIN h \ {n} /\ Elsewhere(h, h2, {a, n, e})
  /\ Is(h2, a, h[a].size + h[n].size, TRUE, h[a].pinuse, h[a].prev_foot)
  /\ Is(h2, e, h[e].size, h[e].cinuse, TRUE, h2[e].prev_foot)

LEMMA Absorb ==
  ASSUME NEW h, NEW t, NEW f, NEW S, Heap(h, t, f, S), NEW a, NEW n, NEW e, NEW h2,
         Absorbing(h, t, f, S, a, n, e, h2)
  PROVE  /\ Result(h2, t, f, S, Used(h, S), Avail(h, t, f) \ {n})
         /\ SameSize(h, h2, DOMAIN h \ {n, a})
         /\ h[e].cinuse /\ e # t /\ e # f
<1> USE DEF Absorbing
<1>1. /\ a \in DOMAIN h /\ a # f /\ a # t /\ n \in DOMAIN h /\ n # a
      /\ h[a].cinuse /\ h[a].size \in Nat /\ h[a].size >= MinChunk /\ a \in Nat
      /\ \A s \in S : Holds(s, a) => Holds(s, n)
  BY ChunkBehind DEF Used
<1>2. /\ n # f /\ n # t /\ e \in DOMAIN h /\ e # n /\ n \in Nat
      /\ ~h[n].cinuse /\ h[n].size \in Nat /\ h[n].size >= MinChunk
      /\ \A s \in S : Holds(s, n) => Holds(s, e)
  <2>1. n \in Used(h, S) \cup Avail(h, t, f)
    BY Zenon
  <2>2. ~h[n].cinuse
    BY Zenon DEF Avail
  <2> QED
    BY <2>1, <2>2, ChunkBehind, Zenon
<1>3. h[e].cinuse /\ e # a
  BY <1>1, <1>2 DEF Heap, Tags, Forward
<1>31. e # f /\ e # t
  BY <1>3 DEF Heap, TopOK, Is
<1>4. \A x \in DOMAIN h \ {n} : x # a => h2[x].size = h[x].size
  BY <1>1, <1>2 DEF Elsewhere, Is
<1>5. \A x \in DOMAIN h \ {n} : (h2[x].cinuse <=> h[x].cinuse)
  BY <1>1, <1>2 DEF Elsewhere, Is, Typed, HeaderSet
<1>6. Geometry(h2, S, f)
  <2>0. \A x \in DOMAIN h : x \in Nat /\ h[x].size \in Nat /\ h[x].size > 0
    BY HeapTypes, Zenon
  <2>1. Apart(h2)
    BY <1>1, <1>2, <1>3, <1>4, <2>0 DEF Heap, Geometry, Apart, Is
  <2>2. Home(h2, S)
    BY Zenon DEF Heap, Geometry, Home
  <2>3. Chained(h2, S, f)
    <3>1. \A x \in DOMAIN h : x # a => x + h[x].size # n
      BY <1>1, <1>2, <2>0 DEF Heap, Geometry, Apart
    <3> QED
      BY <1>1, <1>2, <1>3, <1>4, <2>0, <3>1 DEF Heap, Geometry, Chained, Is, Holds, End,
         Segments
  <2>4. Based(h2, S)
    BY <1>1, <1>2 DEF Heap, Geometry, Based, Home, Holds, End, Segments
  <2> QED
    BY <2>1, <2>2, <2>3, <2>4, Zenon DEF Geometry
<1>7. Tags(h2, t, f)
  <2>1. Forward(h2, t, f)
    <3>1. \A x \in DOMAIN h : x # n /\ x + h[x].size \in DOMAIN h => x + h[x].size # e
      BY <1>1, <1>2 DEF Heap, Geometry, Apart, Typed, HeaderSet
    <3> QED
      BY <1>1, <1>2, <1>3, <1>31, <1>4, <1>5, <3>1 DEF Heap, Tags, Forward, Is, Elsewhere,
         Typed, HeaderSet
  <2>2. Back(h2, t, f)
    <3>1. \A x \in DOMAIN h2 : x # f /\ ~h2[x].pinuse => x # e /\ ~h[x].pinuse /\ h2[x].prev_foot = h[x].prev_foot
      BY <1>1, <1>2, <1>3, <1>31 DEF Is, Elsewhere, Typed, HeaderSet
    <3>2. \A x \in DOMAIN h2 : x # f /\ ~h2[x].pinuse => x - h[x].prev_foot # n
      <4>1. \A x \in DOMAIN h2 : x \in Nat /\ h[x].prev_foot \in Nat
        BY HeapTypes, Zenon
      <4> QED
        BY <1>1, <1>2, <3>1, <4>1 DEF Heap, Tags, Back
    <3> QED
      BY <1>1, <1>4, <1>5, <3>1, <3>2 DEF Heap, Tags, Back
  <2>3. FreePinuse(h2, f)
    BY <1>1, <1>2, <1>3, <1>4, <1>5 DEF Heap, Tags, FreePinuse, Is, Elsewhere, Typed,
       HeaderSet
  <2> QED
    BY <2>1, <2>2, <2>3, Zenon DEF Tags
<1>8. TopOK(h2, t, f, S)
  BY <1>1, <1>2, <1>3, <1>31, <1>4, <1>5 DEF Heap, TopOK, Is, Elsewhere
<1>9. RecordsOK(h2, S)
  BY <1>1, <1>2, <1>3, <1>4, <1>5 DEF Heap, RecordsOK, Is, Used, Holds, End, Segments,
     Geometry, Apart
<1>10. SizesOK(h2, t)
  BY <1>1, <1>2, <1>4, <1>5 DEF Heap, SizesOK, Is
<1>11. Used(h2, S) = Used(h, S)
  BY <1>1, <1>2, <1>4, <1>5 DEF Used, Heap, RecordsOK, Is
<1>12. Avail(h2, t, f) = Avail(h, t, f) \ {n}
  BY <1>1, <1>2, <1>4, <1>5 DEF Avail, Is
<1> QED
  BY <1>3, <1>31, <1>4, <1>6, <1>7, <1>8, <1>9, <1>10, <1>11, <1>12, Zenon DEF Heap,
     Result, SameSize

\* A chunk that is used joins the free one before it, which is then used.
JoiningBack(h, t, f, S, p, a, h2) ==
  /\ p \in Avail(h, t, f) /\ a = p + h[p].size /\ a \in Used(h, S)
  /\ Typed(h2) /\ DOMAIN h2 = DOMAIN h \ {a} /\ Elsewhere(h, h2, {p, a})
  /\ Is(h2, p, h[p].size + h[a].size, TRUE, TRUE, h2[p].prev_foot)

LEMMA AbsorbBack ==
  ASSUME NEW h, NEW t, NEW f, NEW S, Heap(h, t, f, S), NEW p, NEW a, NEW h2,
         JoiningBack(h, t, f, S, p, a, h2)
  PROVE  /\ Result(h2, t, f, S, (Used(h, S) \ {a}) \cup {p}, Avail(h, t, f) \ {p})
         /\ SameSize(h, h2, DOMAIN h \ {a, p})
<1> USE DEF JoiningBack
<1> DEFINE n == a + h[a].size
<1>1. /\ a \in DOMAIN h /\ a # f /\ a # t /\ n \in DOMAIN h /\ n # a
      /\ h[a].cinuse /\ h[a].size \in Nat /\ h[a].size >= MinChunk /\ a \in Nat
      /\ \A s \in S : Holds(s, a) => Holds(s, n)
  <2>1. a \in Used(h, S) \cup Avail(h, t, f) /\ h[a].cinuse
    BY DEF Used
  <2> QED
    BY <2>1, ChunkBehind
<1>2. /\ p # f /\ p # t /\ p \in DOMAIN h /\ p # a /\ p \in Nat
      /\ ~h[p].cinuse /\ h[p].size \in Nat /\ h[p].size >= MinChunk
      /\ \A s \in S : Holds(s, p) => Holds(s, a)
  <2>1. ~h[p].cinuse
    BY DEF Avail
  <2> QED
    BY <2>1, ChunkBehind
<1>3. h[n].pinuse /\ n # f /\ n # p
  BY <1>1, <1>2 DEF Heap, Tags, Forward, TopOK, Is
<1>31. h[p].pinuse
  BY <1>2 DEF Heap, Tags, FreePinuse
<1>4. \A x \in DOMAIN h \ {a, p} : h2[x].size = h[x].size
  BY <1>1, <1>2 DEF Elsewhere, Is
<1>5. \A x \in DOMAIN h \ {a, p} : (h2[x].cinuse <=> h[x].cinuse)
  BY <1>1, <1>2 DEF Elsewhere, Is, Typed, HeaderSet
<1>6. Geometry(h2, S, f)
  <2>0. \A x \in DOMAIN h : x \in Nat /\ h[x].size \in Nat /\ h[x].size > 0
    BY HeapTypes
  <2>1. Apart(h2)
    BY <1>1, <1>2, <1>4, <2>0 DEF Heap, Geometry, Apart, Is
  <2>2. Home(h2, S)
    BY DEF Heap, Geometry, Home
  <2>3. Chained(h2, S, f)
    <3>1. \A x \in DOMAIN h : x # p => x + h[x].size # a
      BY <1>1, <1>2, <2>0 DEF Heap, Geometry, Apart
    <3> QED
      BY <1>1, <1>2, <1>3, <1>4, <2>0, <3>1 DEF Heap, Geometry, Chained, Is, Holds, End,
         Segments
  <2>4. Based(h2, S)
    BY <1>1, <1>2 DEF Heap, Geometry, Based, Home, Holds, End, Segments
  <2> QED
    BY <2>1, <2>2, <2>3, <2>4 DEF Geometry
<1>7. Tags(h2, t, f)
  <2>0. \A x \in DOMAIN h : /\ x \in Nat /\ h[x].size \in Nat /\ h[x].size > 0
                            /\ h[x].prev_foot \in Nat
    BY HeapTypes
  <2>1. Forward(h2, t, f)
    <3>1. \A x \in DOMAIN h : x # a /\ x + h[x].size \in DOMAIN h => x + h[x].size # n
      BY <1>1, <1>2, <2>0 DEF Heap, Geometry, Apart
    <3>2. \A x \in DOMAIN h : x # f /\ x # t /\ ~h[x].cinuse => x + h[x].size # p
      BY <1>2, <2>0 DEF Heap, Tags, Forward
    <3> QED
      BY <1>1, <1>2, <1>3, <1>31, <1>4, <1>5, <3>1, <3>2 DEF Heap, Tags, Forward, Is,
         Elsewhere, Typed, HeaderSet
  <2>2. Back(h2, t, f)
    <3>1. \A x \in DOMAIN h2 : x # f /\ ~h2[x].pinuse => x # p /\ ~h[x].pinuse /\ h2[x].prev_foot = h[x].prev_foot
      BY <1>1, <1>2, <1>3 DEF Is, Elsewhere, Typed, HeaderSet
    <3>2. \A x \in DOMAIN h2 : x # f /\ ~h2[x].pinuse => x - h[x].prev_foot # p /\ x - h[x].prev_foot # a
      BY <1>1, <1>2, <2>0, <3>1 DEF Heap, Tags, Back
    <3> QED
      BY <1>1, <1>4, <1>5, <3>1, <3>2 DEF Heap, Tags, Back
  <2>3. FreePinuse(h2, f)
    BY <1>1, <1>2, <1>3, <1>4, <1>5 DEF Heap, Tags, FreePinuse, Is, Elsewhere, Typed,
       HeaderSet
  <2> QED
    BY <2>1, <2>2, <2>3 DEF Tags
<1>8. TopOK(h2, t, f, S)
  <2>1. f # a /\ f # p /\ t # a /\ t # p
    BY <1>1, <1>2
  <2> QED
    BY <2>1, <1>4, <1>5 DEF Heap, TopOK, Is, Elsewhere
<1>9. RecordsOK(h2, S)
  <2>1. \A s \in S : s.at # a /\ s.at # p
    BY <1>2 DEF Used, Heap, RecordsOK
  <2>2. \A s \in S : s.at # State => ~(Holds(s, p) /\ p > s.at)
    BY <1>2 DEF Heap, RecordsOK
  <2> QED
    BY <1>1, <1>2, <1>4, <1>5, <2>1, <2>2 DEF Heap, RecordsOK, Is
<1>10. SizesOK(h2, t)
  BY <1>1, <1>2, <1>4, <1>5 DEF Heap, SizesOK, Is
<1>11. Used(h2, S) = (Used(h, S) \ {a}) \cup {p}
  BY <1>1, <1>2, <1>4, <1>5 DEF Used, Heap, RecordsOK, Is
<1>12. Avail(h2, t, f) = Avail(h, t, f) \ {p}
  BY <1>1, <1>2, <1>4, <1>5 DEF Avail, Is
<1> QED
  BY <1>4, <1>6, <1>7, <1>8, <1>9, <1>10, <1>11, <1>12 DEF Heap, Result, SameSize

\* top is the last chunk of its segment but for the space at its end.
LEMMA TopIs ==
  ASSUME NEW h, NEW t, NEW f, NEW S, Heap(h, t, f, S)
  PROVE  /\ t \in DOMAIN h /\ f \in DOMAIN h /\ t # f /\ f = t + h[t].size
         /\ t \in Nat /\ f \in Nat /\ h[t].size \in Nat /\ h[t].size > 0
         /\ h[t].pinuse /\ ~h[t].cinuse /\ ~h[f].cinuse /\ ~h[f].pinuse
         /\ h[f].size = TopFoot
         /\ \E s \in S : s.at = State /\ Holds(s, t) /\ Holds(s, f) /\ f + TopFoot = End(s)
         /\ \A x \in DOMAIN h : x # t => x + h[x].size # f
         /\ \A x \in DOMAIN h \ {t, f} : x + h[x].size = t => h[x].cinuse
<1> USE DEF Heap
<1>1. /\ t \in DOMAIN h /\ f \in DOMAIN h /\ t # f /\ f = t + h[t].size
      /\ t \in Nat /\ f \in Nat /\ h[t].size \in Nat /\ h[t].size > 0
      /\ ~h[t].cinuse /\ ~h[f].cinuse /\ ~h[f].pinuse
      /\ h[f].size = TopFoot
  BY HeapTypes DEF TopOK, Is
<1>2. h[t].pinuse
  BY <1>1 DEF Tags, FreePinuse
<1>3. PICK s \in S : s.at = State /\ Holds(s, t)
  BY DEF TopOK
<1>4. Holds(s, f)
  BY <1>1, <1>3 DEF Geometry, Chained, Holds, End, Segments, SizesOK
<1>5. f + TopFoot = End(s)
  BY <1>1, <1>4 DEF Geometry, Chained
<1>6. \A x \in DOMAIN h : x # t => x + h[x].size # f
  BY <1>1, HeapTypes DEF Geometry, Apart
<1>7. \A x \in DOMAIN h \ {t, f} : x + h[x].size = t => h[x].cinuse
  BY <1>1, <1>2 DEF Tags, Forward
<1> QED
  BY <1>1, <1>2, <1>3, <1>4, <1>5, <1>6, <1>7

\* The beginning of top is taken into use.
CuttingTop(h, t, f, S, k, q, h2) ==
  /\ k \in Nat /\ k >= MinChunk /\ k < h[t].size /\ q = t + k
  /\ Typed(h2) /\ DOMAIN h2 = DOMAIN h \cup {q} /\ Elsewhere(h, h2, {t, q})
  /\ Is(h2, t, k, TRUE, TRUE, h2[t].prev_foot)
  /\ Is(h2, q, h[t].size - k, FALSE, TRUE, h2[q].prev_foot)

LEMMA CutTop ==
  ASSUME NEW h, NEW t, NEW f, NEW S, Heap(h, t, f, S), NEW k, NEW q, NEW h2,
         CuttingTop(h, t, f, S, k, q, h2)
  PROVE  /\ Result(h2, q, f, S, Used(h, S) \cup {t}, Avail(h, t, f))
         /\ SameSize(h, h2, DOMAIN h \ {t})
         /\ q \notin DOMAIN h
<1> USE DEF CuttingTop
<1>0. \A x \in DOMAIN h : /\ x \in Nat /\ h[x].size \in Nat /\ h[x].size > 0
                          /\ h[x].prev_foot \in Nat
  BY HeapTypes
<1>1. /\ t \in DOMAIN h /\ f \in DOMAIN h /\ t # f /\ f = t + h[t].size
      /\ t \in Nat /\ f \in Nat /\ h[t].size \in Nat /\ h[t].size > 0
      /\ h[t].pinuse /\ ~h[t].cinuse /\ ~h[f].cinuse /\ ~h[f].pinuse
      /\ \A x \in DOMAIN h : x # t => x + h[x].size # f
  BY TopIs
<1>2. PICK s \in S : s.at = State /\ Holds(s, t) /\ Holds(s, f) /\ f + TopFoot = End(s)
  BY TopIs
<1>3. q \notin DOMAIN h /\ q \in Nat /\ q # t /\ q # f /\ q > t /\ q < f /\ Holds(s, q)
  BY <1>0, <1>1, <1>2 DEF Heap, Geometry, Apart, Holds, End, Segments
<1>4. \A x \in DOMAIN h \ {t} : h2[x].size = h[x].size
  BY <1>1, <1>3 DEF Elsewhere, Is
<1>5. \A x \in DOMAIN h \ {t} : (h2[x].cinuse <=> h[x].cinuse)
  BY <1>1, <1>3 DEF Elsewhere, Is, Typed, HeaderSet
<1>6. Geometry(h2, S, f)
  <2>1. Apart(h2)
    BY <1>0, <1>1, <1>3, <1>4 DEF Heap, Geometry, Apart, Is
  <2>2. Home(h2, S)
    BY <1>2, <1>3 DEF Heap, Geometry, Home
  <2>3. Chained(h2, S, f)
    <3> SUFFICES ASSUME NEW x \in DOMAIN h2, NEW r \in S, Holds(r, x)
                 PROVE  IF x = f THEN x + h2[x].size = End(r)
                        ELSE \/ (x + h2[x].size < End(r) /\ x + h2[x].size \in DOMAIN h2)
                             \/ (x + h2[x].size = End(r) - 1 /\ h2[x].size = 1)
      BY DEF Chained
    <3>1. CASE x = t
      <4>1. r = s
        BY <1>2, <3>1 DEF Heap, Segments, Holds, End
      <4> QED
        BY <1>1, <1>2, <1>3, <3>1, <4>1 DEF Is, Holds, End, Segments, Heap
    <3>2. CASE x = q
      <4>1. r = s
        BY <1>2, <1>3, <3>2 DEF Heap, Segments, Holds, End
      <4> QED
        BY <1>1, <1>2, <1>3, <3>2, <4>1 DEF Is, Holds, End, Segments, Heap
    <3>3. CASE x # t /\ x # q
      BY <1>1, <1>3, <1>4, <3>3 DEF Heap, Geometry, Chained
    <3> QED
      BY <3>1, <3>2, <3>3
  <2>4. Based(h2, S)
    BY DEF Heap, Geometry, Based
  <2> QED
    BY <2>1, <2>2, <2>3, <2>4 DEF Geometry
<1>7. Tags(h2, q, f)
  <2>1. Forward(h2, q, f)
    <3>1. \A x \in DOMAIN h : x # t /\ x + h[x].size \in DOMAIN h2 => x + h[x].size # q
      BY <1>0, <1>1, <1>3 DEF Heap, Geometry, Apart
    <3> QED
      BY <1>1, <1>3, <1>4, <1>5, <3>1 DEF Heap, Tags, Forward, Is, Elsewhere, Typed,
         HeaderSet
  <2>2. Back(h2, q, f)
    <3>1. \A x \in DOMAIN h2 : x # f /\ ~h2[x].pinuse => x \in DOMAIN h \ {t} /\ h2[x] = h[x]
      BY <1>1, <1>3 DEF Elsewhere, Is
    <3> QED
      BY <1>0, <1>1, <1>3, <1>4, <1>5, <3>1 DEF Heap, Tags, Back
  <2>3. FreePinuse(h2, f)
    BY <1>1, <1>3, <1>4, <1>5 DEF Heap, Tags, FreePinuse, Is, Elsewhere, Typed, HeaderSet
  <2> QED
    BY <2>1, <2>2, <2>3 DEF Tags
<1>8. TopOK(h2, q, f, S)
  BY <1>1, <1>2, <1>3, <1>4, <1>5 DEF Heap, TopOK, Is, Elsewhere
<1>9. RecordsOK(h2, S)
  <2>1. \A r \in S : r.at # State => ~Holds(r, t) /\ ~Holds(r, q)
    BY <1>2, <1>3 DEF Heap, Segments, Holds, End
  <2>2. \A r \in S : r.at # t
    BY <1>1 DEF Heap, RecordsOK
  <2> QED
    BY <1>1, <1>3, <1>4, <1>5, <2>1, <2>2 DEF Heap, RecordsOK, Is
<1>10. SizesOK(h2, q)
  BY <1>1, <1>3, <1>4, <1>5 DEF Heap, SizesOK, Is
<1>11. Used(h2, S) = Used(h, S) \cup {t}
  <2>1. \A r \in S : r.at # t /\ r.at # q
    BY <1>1, <1>3 DEF Heap, RecordsOK
  <2> QED
    BY <1>1, <1>3, <1>4, <1>5, <2>1 DEF Used, Is
<1>12. Avail(h2, q, f) = Avail(h, t, f)
  BY <1>1, <1>3, <1>4, <1>5 DEF Avail, Is
<1> QED
  BY <1>3, <1>4, <1>6, <1>7, <1>8, <1>9, <1>10, <1>11, <1>12 DEF Heap, Result, SameSize

\* A chunk that is used joins top.
JoiningTop(h, t, f, S, a, h2) ==
  /\ a \in Used(h, S) /\ h[a].pinuse /\ a + h[a].size = t
  /\ Typed(h2) /\ DOMAIN h2 = DOMAIN h \ {t} /\ Elsewhere(h, h2, {a, t})
  /\ Is(h2, a, h[a].size + h[t].size, FALSE, TRUE, h2[a].prev_foot)

LEMMA JoinTop ==
  ASSUME NEW h, NEW t, NEW f, NEW S, Heap(h, t, f, S), NEW a, NEW h2,
         JoiningTop(h, t, f, S, a, h2)
  PROVE  /\ Result(h2, a, f, S, Used(h, S) \ {a}, Avail(h, t, f))
         /\ SameSize(h, h2, DOMAIN h \ {a, t})
<1> USE DEF JoiningTop
<1>0. \A x \in DOMAIN h : /\ x \in Nat /\ h[x].size \in Nat /\ h[x].size > 0
                          /\ h[x].prev_foot \in Nat
  BY HeapTypes
<1>1. /\ t \in DOMAIN h /\ f \in DOMAIN h /\ t # f /\ f = t + h[t].size
      /\ t \in Nat /\ f \in Nat /\ h[t].size \in Nat /\ h[t].size > 0
      /\ h[t].pinuse /\ ~h[t].cinuse /\ ~h[f].cinuse /\ ~h[f].pinuse
      /\ \A x \in DOMAIN h : x # t => x + h[x].size # f
  BY TopIs
<1>2. PICK s \in S : s.at = State /\ Holds(s, t) /\ Holds(s, f) /\ f + TopFoot = End(s)
  BY TopIs
<1>3. /\ a \in DOMAIN h /\ a # t /\ a # f /\ a \in Nat /\ h[a].size \in Nat
      /\ h[a].cinuse /\ h[a].size >= MinChunk
      /\ \A r \in S : Holds(r, a) => Holds(r, t)
  BY ChunkBehind DEF Used
<1>31. Holds(s, a)
  <2>1. PICK r \in S : Holds(r, a) /\ Holds(r, t)
    BY <1>3 DEF Heap, Geometry, Home
  <2>2. r = s
    BY <1>2, <2>1 DEF Heap, Segments, Holds, End
  <2> QED
    BY <2>1, <2>2
<1>4. \A x \in DOMAIN h \ {a, t} : h2[x].size = h[x].size
  BY <1>1, <1>3 DEF Elsewhere, Is
<1>5. \A x \in DOMAIN h \ {a, t} : (h2[x].cinuse <=> h[x].cinuse)
  BY <1>1, <1>3 DEF Elsewhere, Is, Typed, HeaderSet
<1>6. Geometry(h2, S, f)
  <2>1. Apart(h2)
    BY <1>0, <1>1, <1>3, <1>4 DEF Heap, Geometry, Apart, Is
  <2>2. Home(h2, S)
    BY DEF Heap, Geometry, Home
  <2>3. Chained(h2, S, f)
    <3>1. \A x \in DOMAIN h : x # a => x + h[x].size # t
      BY <1>0, <1>1, <1>3 DEF Heap, Geometry, Apart
    <3> SUFFICES ASSUME NEW x \in DOMAIN h2, NEW r \in S, Holds(r, x)
                 PROVE  IF x = f THEN x + h2[x].size = End(r)
                        ELSE \/ (x + h2[x].size < End(r) /\ x + h2[x].size \in DOMAIN h2)
                             \/ (x + h2[x].size = End(r) - 1 /\ h2[x].size = 1)
      BY DEF Chained
    <3>2. CASE x = a
      <4>1. r = s
        BY <1>2, <1>31, <3>2 DEF Heap, Segments, Holds, End
      <4> QED
        BY <1>1, <1>2, <1>3, <3>2, <4>1 DEF Is, Holds, End, Segments, Heap
    <3>3. CASE x # a
      BY <1>1, <1>3, <1>4, <3>1, <3>3 DEF Heap, Geometry, Chained
    <3> QED
      BY <3>2, <3>3
  <2>4. Based(h2, S)
    BY <1>1, <1>3 DEF Heap, Geometry, Based, Home, Holds, End, Segments
  <2> QED
    BY <2>1, <2>2, <2>3, <2>4 DEF Geometry
<1>7. Tags(h2, a, f)
  <2>1. Forward(h2, a, f)
    <3>1. \A x \in DOMAIN h : x # f /\ x + h[x].size = a => h[x].cinuse
      BY <1>3 DEF Heap, Tags, Forward
    <3> QED
      BY <1>1, <1>3, <1>4, <1>5, <3>1 DEF Heap, Tags, Forward, Is, Elsewhere, Typed,
         HeaderSet
  <2>2. Back(h2, a, f)
    <3>1. \A x \in DOMAIN h2 : x # f /\ ~h2[x].pinuse => x \in DOMAIN h \ {a, t} /\ h2[x] = h[x]
      BY <1>1, <1>3 DEF Elsewhere, Is
    <3> QED
      BY <1>0, <1>1, <1>3, <1>4, <1>5, <3>1 DEF Heap, Tags, Back
  <2>3. FreePinuse(h2, f)
    BY <1>1, <1>3, <1>4, <1>5 DEF Heap, Tags, FreePinuse, Is, Elsewhere, Typed, HeaderSet
  <2> QED
    BY <2>1, <2>2, <2>3 DEF Tags
<1>8. TopOK(h2, a, f, S)
  BY <1>1, <1>2, <1>3, <1>31, <1>4, <1>5 DEF Heap, TopOK, Is, Elsewhere
<1>9. RecordsOK(h2, S)
  <2>1. \A r \in S : r.at # State => ~Holds(r, a)
    BY <1>2, <1>31 DEF Heap, Segments, Holds, End
  <2>2. \A r \in S : r.at # t /\ r.at # a
    BY <1>1 DEF Heap, RecordsOK, Used
  <2> QED
    BY <1>1, <1>3, <1>4, <1>5, <2>1, <2>2 DEF Heap, RecordsOK, Is
<1>10. SizesOK(h2, a)
  BY <1>1, <1>3, <1>4, <1>5 DEF Heap, SizesOK, Is
<1>11. Used(h2, S) = Used(h, S) \ {a}
  BY <1>1, <1>3, <1>4, <1>5 DEF Used, Is
<1>12. Avail(h2, a, f) = Avail(h, t, f)
  BY <1>1, <1>3, <1>4, <1>5 DEF Avail, Is
<1> QED
  BY <1>3, <1>4, <1>6, <1>7, <1>8, <1>9, <1>10, <1>11, <1>12 DEF Heap, Result, SameSize

\* A chunk that is used grows into top.
ShiftingTop(h, t, f, S, a, k, q, h2) ==
  /\ a \in Used(h, S) /\ a + h[a].size = t
  /\ k \in Nat /\ k > h[a].size /\ k < h[a].size + h[t].size /\ q = a + k
  /\ Typed(h2) /\ DOMAIN h2 = (DOMAIN h \ {t}) \cup {q} /\ Elsewhere(h, h2, {a, t, q})
  /\ Is(h2, a, k, TRUE, h[a].pinuse, h[a].prev_foot)
  /\ Is(h2, q, h[a].size + h[t].size - k, FALSE, TRUE, h2[q].prev_foot)

LEMMA ShiftTop ==
  ASSUME NEW h, NEW t, NEW f, NEW S, Heap(h, t, f, S), NEW a, NEW k, NEW q, NEW h2,
         ShiftingTop(h, t, f, S, a, k, q, h2)
  PROVE  /\ Result(h2, q, f, S, Used(h, S), Avail(h, t, f))
         /\ SameSize(h, h2, DOMAIN h \ {a, t})
         /\ q \notin DOMAIN h
<1> USE DEF ShiftingTop
<1>0. \A x \in DOMAIN h : /\ x \in Nat /\ h[x].size \in Nat /\ h[x].size > 0
                          /\ h[x].prev_foot \in Nat
  BY HeapTypes
<1>1. /\ t \in DOMAIN h /\ f \in DOMAIN h /\ t # f /\ f = t + h[t].size
      /\ t \in Nat /\ f \in Nat /\ h[t].size \in Nat /\ h[t].size > 0
      /\ h[t].pinuse /\ ~h[t].cinuse /\ ~h[f].cinuse /\ ~h[f].pinuse
      /\ \A x \in DOMAIN h : x # t => x + h[x].size # f
  BY TopIs
<1>2. PICK s \in S : s.at = State /\ Holds(s, t) /\ Holds(s, f) /\ f + TopFoot = End(s)
  BY TopIs
<1>3. /\ a \in DOMAIN h /\ a # t /\ a # f /\ a \in Nat /\ h[a].size \in Nat
      /\ h[a].cinuse /\ h[a].size >= MinChunk /\ a < t
      /\ \A r \in S : Holds(r, a) => Holds(r, t)
  BY ChunkBehind DEF Used
<1>31. Holds(s, a)
  <2>1. PICK r \in S : Holds(r, a) /\ Holds(r, t)
    BY <1>3 DEF Heap, Geometry, Home
  <2>2. r = s
    BY <1>2, <2>1 DEF Heap, Segments, Holds, End
  <2> QED
    BY <2>1, <2>2
<1>32. q \notin DOMAIN h /\ q \in Nat /\ q # t /\ q # f /\ q > t /\ q < f /\ Holds(s, q) /\ q # a
  BY <1>0, <1>1, <1>2, <1>3 DEF Heap, Geometry, Apart, Holds, End, Segments
<1>4. \A x \in DOMAIN h \ {a, t} : h2[x].size = h[x].size
  BY <1>1, <1>3, <1>32 DEF Elsewhere, Is
<1>5. \A x \in DOMAIN h \ {t} : (h2[x].cinuse <=> h[x].cinuse)
  BY <1>1, <1>3, <1>32 DEF Elsewhere, Is, Typed, HeaderSet
<1>6. Geometry(h2, S, f)
  <2>1. Apart(h2)
    BY <1>0, <1>1, <1>3, <1>32, <1>4 DEF Heap, Geometry, Apart, Is
  <2>2. Home(h2, S)
    BY <1>2, <1>32 DEF Heap, Geometry, Home
  <2>3. Chained(h2, S, f)
    <3>1. \A x \in DOMAIN h : x # a => x + h[x].size # t
      BY <1>0, <1>1, <1>3 DEF Heap, Geometry, Apart
    <3> SUFFICES ASSUME NEW x \in DOMAIN h2, NEW r \in S, Holds(r, x)
                 PROVE  IF x = f THEN x + h2[x].size = End(r)
                        ELSE \/ (x + h2[x].size < End(r) /\ x + h2[x].size \in DOMAIN h2)
                             \/ (x + h2[x].size = End(r) - 1 /\ h2[x].size = 1)
      BY DEF Chained
    <3>2. CASE x = a
      <4>1. r = s
        BY <1>2, <1>31, <3>2 DEF Heap, Segments, Holds, End
      <4> QED
        BY <1>1, <1>2, <1>3, <1>32, <3>2, <4>1 DEF Is, Holds, End, Segments, Heap
    <3>3. CASE x = q
      <4>1. r = s
        BY <1>2, <1>32, <3>3 DEF Heap, Segments, Holds, End
      <4> QED
        BY <1>1, <1>2, <1>3, <1>32, <3>3, <4>1 DEF Is, Holds, End, Segments, Heap
    <3>4. CASE x # a /\ x # q
      BY <1>1, <1>3, <1>32, <1>4, <3>1, <3>4 DEF Heap, Geometry, Chained
    <3> QED
      BY <3>2, <3>3, <3>4
  <2>4. Based(h2, S)
    BY <1>1, <1>3 DEF Heap, Geometry, Based, Home, Holds, End, Segments
  <2> QED
    BY <2>1, <2>2, <2>3, <2>4 DEF Geometry
<1>7. Tags(h2, q, f)
  <2>1. Forward(h2, q, f)
    <3>1. \A x \in DOMAIN h : x # t /\ x # a /\ x + h[x].size \in DOMAIN h2 =>
             x + h[x].size # q /\ x + h[x].size \in DOMAIN h
      BY <1>0, <1>1, <1>3, <1>32 DEF Heap, Geometry, Apart
    <3> QED
      BY <1>1, <1>3, <1>32, <1>4, <1>5, <3>1 DEF Heap, Tags, Forward, Is, Elsewhere, Typed,
         HeaderSet
  <2>2. Back(h2, q, f)
    <3>1. \A x \in DOMAIN h2 : x # f /\ ~h2[x].pinuse =>
             /\ x \in DOMAIN h \ {t} /\ ~h[x].pinuse /\ h2[x].prev_foot = h[x].prev_foot
      BY <1>1, <1>3, <1>32 DEF Elsewhere, Is, Typed, HeaderSet
    <3> QED
      BY <1>0, <1>1, <1>3, <1>32, <1>4, <1>5, <3>1 DEF Heap, Tags, Back
  <2>3. FreePinuse(h2, f)
    BY <1>1, <1>3, <1>32, <1>4, <1>5 DEF Heap, Tags, FreePinuse, Is, Elsewhere, Typed,
       HeaderSet
  <2> QED
    BY <2>1, <2>2, <2>3 DEF Tags
<1>8. TopOK(h2, q, f, S)
  BY <1>1, <1>2, <1>3, <1>32, <1>4, <1>5 DEF Heap, TopOK, Is, Elsewhere
<1>9. RecordsOK(h2, S)
  <2>1. \A r \in S : r.at # State => ~Holds(r, a) /\ ~Holds(r, q)
    BY <1>2, <1>31, <1>32 DEF Heap, Segments, Holds, End
  <2>2. \A r \in S : r.at # t /\ r.at # a
    BY <1>1 DEF Heap, RecordsOK, Used
  <2> QED
    BY <1>1, <1>3, <1>32, <1>4, <1>5, <2>1, <2>2 DEF Heap, RecordsOK, Is
<1>10. SizesOK(h2, q)
  BY <1>1, <1>3, <1>32, <1>4, <1>5 DEF Heap, SizesOK, Is
<1>11. Used(h2, S) = Used(h, S)
  <2>1. \A r \in S : r.at # q
    BY <1>32 DEF Heap, RecordsOK
  <2> QED
    BY <1>1, <1>3, <1>32, <1>4, <1>5, <2>1 DEF Used, Is
<1>12. Avail(h2, q, f) = Avail(h, t, f)
  BY <1>1, <1>3, <1>32, <1>4, <1>5 DEF Avail, Is
<1> QED
  BY <1>32, <1>4, <1>6, <1>7, <1>8, <1>9, <1>10, <1>11, <1>12 DEF Heap, Result, SameSize

\* The chunk behind top moves with the end of the last segment.
MovingFoot(h, t, f, S, s, d, s2, S2, f2, h2) ==
  /\ s \in S /\ s.at = State /\ d \in Int /\ h[t].size + d > 0
  /\ s2.base = s.base /\ s2.size = s.size + d /\ s2.at = s.at
  /\ S2 = (S \ {s}) \cup {s2} /\ Segments(S2)
  /\ f2 = f + d
  /\ Typed(h2) /\ DOMAIN h2 = (DOMAIN h \ {f}) \cup {f2} /\ Elsewhere(h, h2, {t, f, f2})
  /\ Is(h2, t, h[t].size + d, FALSE, TRUE, h2[t].prev_foot)
  /\ Is(h2, f2, TopFoot, FALSE, FALSE, h2[f2].prev_foot)

LEMMA MoveFoot ==
  ASSUME NEW h, NEW t, NEW f, NEW S, Heap(h, t, f, S), NEW s, NEW d, NEW s2, NEW S2, NEW f2, NEW h2,
         MovingFoot(h, t, f, S, s, d, s2, S2, f2, h2)
  PROVE  /\ Result(h2, t, f2, S2, Used(h, S), Avail(h, t, f))
         /\ SameSize(h, h2, DOMAIN h \ {t, f})
<1> USE DEF MovingFoot
<1>0. \A x \in DOMAIN h : /\ x \in Nat /\ h[x].size \in Nat /\ h[x].size > 0
                          /\ h[x].prev_foot \in Nat
  BY HeapTypes
<1>1. /\ t \in DOMAIN h /\ f \in DOMAIN h /\ t # f /\ f = t + h[t].size
      /\ t \in Nat /\ f \in Nat /\ h[t].size \in Nat /\ h[t].size > 0
      /\ h[t].pinuse /\ ~h[t].cinuse /\ ~h[f].cinuse /\ ~h[f].pinuse
      /\ \A x \in DOMAIN h : x # t => x + h[x].size # f
      /\ h[f].size = TopFoot
  BY TopIs
<1>2. Holds(s, t) /\ Holds(s, f) /\ f + TopFoot = End(s)
  <2>1. PICK r \in S : r.at = State /\ Holds(r, t) /\ Holds(r, f) /\ f + TopFoot = End(r)
    BY TopIs
  <2>2. r = s
    BY <2>1 DEF Heap, TopOK
  <2> QED
    BY <2>1, <2>2
<1>3. /\ s2.base = s.base /\ s2.at = State /\ s2.size = s.size + d /\ s2 \in S2
      /\ End(s2) = End(s) + d /\ s2.size \in Nat
  BY DEF Heap, Segments, End
<1>4. /\ \A r \in S2 : r # s2 => r \in S /\ r # s
      /\ \A r \in S : r # s => r \in S2 /\ r # s2
  BY <1>3 DEF Heap, TopOK
<1>5. \A x \in DOMAIN h \ {f} : Holds(s, x) => x <= t
  <2> SUFFICES ASSUME NEW x \in DOMAIN h \ {f}, Holds(s, x), x > t
               PROVE  FALSE
    BY <1>0, <1>1
  <2>1. x > f
    BY <1>0, <1>1 DEF Heap, Geometry, Apart
  <2>2. x >= End(s)
    BY <1>0, <1>1, <1>2, <2>1 DEF Heap, Geometry, Apart
  <2> QED
    BY <1>0, <2>2 DEF Holds, End, Heap, Segments
<1>6. f2 > t /\ f2 \in Nat /\ Holds(s2, f2) /\ f2 + TopFoot = End(s2) /\ Holds(s2, t)
  <2>1. s.base \in Nat /\ s.size \in Nat /\ s.base <= t
    BY <1>1, <1>2 DEF Holds, End, Heap, Segments
  <2>2. f2 > t /\ f2 \in Nat /\ f2 + TopFoot = End(s2)
    BY <1>1, <1>2, <1>3, <2>1 DEF End, TopFoot
  <2>3. TopFoot \in Nat \ {0}
    BY DEF TopFoot
  <2> QED
    BY <1>1, <1>3, <2>1, <2>2, <2>3 DEF Holds, End
<1>7. \A x \in DOMAIN h \ {f} : Holds(s, x) <=> Holds(s2, x)
  <2> SUFFICES ASSUME NEW x \in DOMAIN h \ {f}
               PROVE  Holds(s, x) <=> Holds(s2, x)
    OBVIOUS
  <2>1. Holds(s, x) => Holds(s2, x)
    BY <1>0, <1>1, <1>3, <1>5, <1>6 DEF Holds, End, Heap, Segments
  <2>2. ASSUME Holds(s2, x) PROVE Holds(s, x)
    <3>1. PICK r \in S : Holds(r, x)
      BY DEF Heap, Geometry, Home
    <3>2. CASE r # s
      <4>1. r \in S2 /\ r # s2
        BY <1>4, <3>2
      <4> QED
        BY <1>0, <1>3, <3>1, <2>2, <4>1 DEF Segments, Holds, End
    <3> QED
      BY <3>1, <3>2
  <2> QED
    BY <2>1, <2>2
<1>8. f2 \notin DOMAIN h \ {f}
  BY <1>5, <1>6, <1>7, <1>1
<1>9. \A x \in DOMAIN h \ {t, f} : h2[x] = h[x] /\ x # f2
  BY <1>8 DEF Elsewhere
<1>10. Geometry(h2, S2, f2)
  <2>1. Apart(h2)
    <3> SUFFICES ASSUME NEW x \in DOMAIN h2, NEW y \in DOMAIN h2, x < y
                 PROVE  x + h2[x].size <= y
      BY DEF Apart
    <3>0. \A z \in DOMAIN h \ {f} : z < f2 => z <= t
      <4> SUFFICES ASSUME NEW z \in DOMAIN h \ {f}, z < f2, z > t
                   PROVE  FALSE
        BY <1>0, <1>1
      <4>1. Holds(s2, z)
        BY <1>0, <1>6, <1>1, <1>3 DEF Holds, End, Heap, Segments
      <4> QED
        BY <1>0, <1>1, <1>5, <1>7, <4>1
    <3>1. CASE x = f2
      <4>1. ~Holds(s2, y)
        BY <1>0, <1>1, <1>5, <1>6, <1>7, <3>1
      <4>2. y \in Nat
        BY <1>0, <1>6
      <4> QED
        BY <1>3, <1>6, <3>1, <4>1, <4>2 DEF Is, Holds, End, Heap, Segments
    <3>2. CASE y = f2
      <4>1. x \in DOMAIN h \ {f} /\ x <= t /\ x # f2
        BY <1>0, <1>6, <3>0, <3>2
      <4>2. CASE x = t
        BY <1>1, <3>2, <4>2 DEF Is
      <4>3. CASE x # t
        <5>1. x + h[x].size <= t
          BY <1>0, <1>1, <4>1, <4>3 DEF Heap, Geometry, Apart
        <5> QED
          BY <1>0, <1>1, <1>6, <1>9, <3>2, <4>1, <4>3, <5>1
      <4> QED
        BY <4>2, <4>3
    <3>3. CASE x # f2 /\ y # f2
      <4>1. CASE x = t
        <5>1. y \in DOMAIN h \ {f} /\ y > f2
          BY <1>0, <1>1, <1>6, <3>0, <3>3, <4>1
        <5> QED
          BY <1>0, <1>1, <1>6, <4>1, <5>1 DEF Is
      <4>2. CASE x # t
        BY <1>0, <1>9, <3>3, <4>2 DEF Heap, Geometry, Apart
      <4> QED
        BY <4>1, <4>2
    <3> QED
      BY <3>1, <3>2, <3>3
  <2>2. Home(h2, S2)
    BY <1>3, <1>4, <1>6, <1>7 DEF Heap, Geometry, Home
  <2>3. Chained(h2, S2, f2)
    <3> SUFFICES ASSUME NEW x \in DOMAIN h2, NEW r \in S2, Holds(r, x)
                 PROVE  IF x = f2 THEN x + h2[x].size = End(r)
                        ELSE \/ (x + h2[x].size < End(r) /\ x + h2[x].size \in DOMAIN h2)
                             \/ (x + h2[x].size = End(r) - 1 /\ h2[x].size = 1)
      BY DEF Chained
    <3>1. CASE x = f2 \/ x = t
      <4>1. r = s2
        BY <1>3, <1>6, <3>1, <1>1 DEF Segments, Holds, End
      <4>2. f2 \in DOMAIN h2 /\ h2[f2].size = TopFoot /\ h2[t].size = h[t].size + d /\ f2 = t + h2[t].size
        BY <1>1 DEF Is
      <4>3. TopFoot \in Nat \ {0}
        BY DEF TopFoot
      <4>4. f2 < End(s2)
        BY <1>6, <4>3
      <4>5. CASE x = f2
        BY <1>6, <4>1, <4>2, <4>5
      <4>6. CASE x = t
        BY <1>6, <4>1, <4>2, <4>4, <4>6
      <4> QED
        BY <3>1, <4>5, <4>6
    <3>2. CASE x # f2 /\ x # t /\ r = s2
      <4>1. Holds(s, x) /\ x < t /\ h2[x] = h[x] /\ x \in DOMAIN h \ {f}
        BY <1>0, <1>1, <1>5, <1>7, <1>9, <3>2
      <4>2. x + h[x].size <= t
        BY <1>0, <1>1, <4>1 DEF Heap, Geometry, Apart
      <4>3. x + h[x].size \in DOMAIN h
        BY <1>0, <1>1, <1>2, <4>1, <4>2 DEF Heap, Geometry, Chained, TopFoot
      <4> QED
        BY <1>0, <1>1, <1>6, <3>2, <4>1, <4>2, <4>3 DEF Heap, Geometry
    <3>3. CASE x # f2 /\ x # t /\ r # s2
      <4>1. r \in S /\ x \in DOMAIN h \ {f, t} /\ h2[x] = h[x]
        BY <1>4, <1>9, <3>3
      <4> QED
        BY <1>1, <3>3, <4>1 DEF Heap, Geometry, Chained
    <3> QED
      BY <3>1, <3>2, <3>3
  <2>4. Based(h2, S2)
    BY <1>1, <1>2, <1>3, <1>4 DEF Heap, Geometry, Based, Holds, End, Segments
  <2> QED
    BY <2>1, <2>2, <2>3, <2>4 DEF Geometry
<1>11. Tags(h2, t, f2)
  <2>1. Forward(h2, t, f2)
    <3> SUFFICES ASSUME NEW x \in DOMAIN h2, x # f2, x + h2[x].size \in DOMAIN h2
                 PROVE  /\ h2[x + h2[x].size].pinuse <=> h2[x].cinuse
                        /\ ~h2[x].cinuse /\ x # t =>
                             h2[x + h2[x].size].prev_foot = h2[x].size /\ h2[x + h2[x].size].cinuse
      BY DEF Forward
    <3>1. CASE x = t
      BY <1>1, <1>6, <3>1 DEF Is
    <3>2. CASE x # t
      <4>1. x \in DOMAIN h \ {f, t} /\ h2[x] = h[x]
        BY <1>9, <3>2
      <4>2. x + h[x].size # f2
        <5>1. Apart(h2)
          BY <1>10 DEF Geometry
        <5>2. x < t \/ x > t
          BY <1>0, <1>1, <4>1
        <5> QED
          BY <1>0, <1>1, <1>6, <4>1, <5>1, <5>2 DEF Apart, Is
      <4>3. x + h[x].size \in DOMAIN h \ {f}
        BY <4>1, <4>2
      <4>4. CASE x + h[x].size = t
        BY <1>1, <4>1, <4>4 DEF Is, Heap, Tags, Forward
      <4>5. CASE x + h[x].size # t
        BY <1>9, <4>1, <4>3, <4>5 DEF Heap, Tags, Forward
      <4> QED
        BY <4>4, <4>5
    <3> QED
      BY <3>1, <3>2
  <2>2. Back(h2, t, f2)
    <3>1. \A x \in DOMAIN h2 : x # f2 /\ ~h2[x].pinuse => x \in DOMAIN h \ {t, f} /\ h2[x] = h[x]
      BY <1>9 DEF Is
    <3> QED
      BY <1>0, <1>1, <1>9, <3>1 DEF Heap, Tags, Back
  <2>3. FreePinuse(h2, f2)
    BY <1>1, <1>9 DEF Heap, Tags, FreePinuse, Is
  <2> QED
    BY <2>1, <2>2, <2>3 DEF Tags
<1>12. TopOK(h2, t, f2, S2)
  <2>1. \A r, q \in S2 : r.at = State /\ q.at = State => r = q
    BY <1>3, <1>4 DEF Heap, TopOK
  <2>2. f2 = t + h2[t].size /\ h2[t].size = h[t].size + d
    BY <1>1 DEF Is
  <2> QED
    BY <1>1, <1>3, <1>6, <2>1, <2>2 DEF TopOK, Is
<1>13. RecordsOK(h2, S2)
  BY <1>1, <1>3, <1>4, <1>6, <1>9 DEF Heap, RecordsOK, Is, Segments, Holds, End
<1>14. SizesOK(h2, t)
  BY <1>1, <1>9 DEF Heap, SizesOK, Is, TopFoot
<1>15. Used(h2, S2) = Used(h, S)
  <2>2. \A x : (\A r \in S2 : r.at # x) <=> (\A r \in S : r.at # x)
    <3>1. s2.at = s.at
      BY <1>3
    <3> QED
      BY <1>3, <1>4, <3>1
  <2> QED
    BY <1>1, <1>6, <1>9, <2>2 DEF Used, Is
<1>16. Avail(h2, t, f2) = Avail(h, t, f)
  BY <1>1, <1>9 DEF Avail, Is
<1> QED
  BY <1>9, <1>10, <1>11, <1>12, <1>13, <1>14, <1>15, <1>16 DEF Heap, Result, SameSize

\* Segments are ranges of addresses, and no two share one.
LEMMA OneSegment ==
  ASSUME NEW S, Segments(S)
  PROVE  /\ \A s \in S : s.base \in Nat /\ s.size \in Nat /\ s.size > 0 /\ End(s) \in Nat
                         /\ End(s) = s.base + s.size
         /\ \A s, r \in S, x \in Int : Holds(s, x) /\ Holds(r, x) => s = r
         /\ \A s \in S, x \in Int : Holds(s, x) <=> s.base <= x /\ x < End(s)
BY DEF Segments, Holds, End

\* Two segments that share an address are one.
LEMMA SameSegment ==
  ASSUME NEW S, Segments(S), NEW s \in S, NEW r \in S, NEW x \in Int, Holds(s, x), Holds(r, x)
  PROVE  s = r
BY DEF Segments, Holds, End

\* No free chunk precedes a segment.
LEMMA BasePinuse ==
  ASSUME NEW h, NEW t, NEW f, NEW S, Heap(h, t, f, S), NEW s \in S
  PROVE  s.base \in DOMAIN h /\ s.base # f /\ h[s.base].pinuse /\ Holds(s, s.base)
<1>0. \A x \in DOMAIN h : /\ x \in Nat /\ h[x].size \in Nat /\ h[x].size > 0
                          /\ h[x].prev_foot \in Nat
  BY HeapTypes
<1>1. s.base \in DOMAIN h /\ Holds(s, s.base)
  BY DEF Heap, Geometry, Based, Segments, Holds, End
<1>2. s.base # f
  <2>1. PICK r \in S : Holds(r, t) /\ Holds(r, f) /\ f > t
    BY TopIs
  <2> QED
    BY <1>0, <1>1, <2>1, TopIs DEF Heap, Segments, Holds, End
<1>3. ASSUME ~h[s.base].pinuse PROVE FALSE
  <2> DEFINE y == s.base - h[s.base].prev_foot
  <2>1. y \in DOMAIN h /\ y # t /\ y # f /\ ~h[y].cinuse /\ y + h[y].size = s.base /\ y < s.base
    BY <1>0, <1>1, <1>2, <1>3 DEF Heap, Tags, Back
  <2>2. y \in Avail(h, t, f)
    BY <2>1 DEF Avail
  <2>3. \A r \in S : Holds(r, y) => Holds(r, s.base)
    BY <2>1, <2>2, ChunkBehind
  <2>4. PICK r \in S : Holds(r, y) /\ Holds(r, s.base)
    BY <2>1, <2>3 DEF Heap, Geometry, Home
  <2>5. r = s
    BY <1>1, <2>4 DEF Heap, Segments, Holds, End
  <2> QED
    BY <1>0, <2>1, <2>4, <2>5 DEF Heap, Segments, Holds, End
<1> QED
  BY <1>1, <1>2, <1>3

\* New memory precedes a segment: two chunks that are used.
Prepending(h, t, f, S, s, b, k, m, q, s2, S2, h2) ==
  /\ s \in S /\ b \in Nat /\ k \in Nat /\ m \in Nat /\ k >= MinChunk /\ m >= MinChunk
  /\ b + k + m = s.base /\ q = b + k
  /\ s2.base = b /\ s2.size = s.size + (k + m) /\ s2.at = s.at
  /\ S2 = (S \ {s}) \cup {s2} /\ Segments(S2)
  /\ Typed(h2) /\ DOMAIN h2 = DOMAIN h \cup {b, q} /\ Elsewhere(h, h2, {b, q})
  /\ Is(h2, b, k, TRUE, TRUE, h2[b].prev_foot)
  /\ Is(h2, q, m, TRUE, TRUE, h2[q].prev_foot)

LEMMA Prepend ==
  ASSUME NEW h, NEW t, NEW f, NEW S, Heap(h, t, f, S), NEW s, NEW b, NEW k, NEW m, NEW q, NEW s2, NEW S2, NEW h2,
         Prepending(h, t, f, S, s, b, k, m, q, s2, S2, h2)
  PROVE  /\ Result(h2, t, f, S2, Used(h, S) \cup {b, q}, Avail(h, t, f))
         /\ b \notin DOMAIN h /\ q \notin DOMAIN h
         /\ SameSize(h, h2, DOMAIN h)
<1> USE DEF Prepending
<1>0. \A x \in DOMAIN h : /\ x \in Nat /\ h[x].size \in Nat /\ h[x].size > 0
                          /\ h[x].prev_foot \in Nat
  BY HeapTypes
<1>1. /\ s.base \in DOMAIN h /\ s.base # f /\ h[s.base].pinuse /\ Holds(s, s.base)
      /\ s.base \in Nat /\ s.size \in Nat /\ s.size > 0
  BY BasePinuse DEF Heap, Segments
<1>2. s2.base = b /\ s2.at = s.at /\ s2.size = s.size + (k + m) /\ s2 \in S2 /\ End(s2) = End(s)
  BY <1>1 DEF Heap, Segments, End
<1>21. Holds(s2, s.base)
  BY <1>1, <1>2 DEF Holds, End
<1>31. s2 \notin S
  <2>0. b # s.base
    OBVIOUS
  <2>1. s2 # s
    BY <2>0, <1>2
  <2>2. Segments(S)
    BY DEF Heap
  <2> QED
    BY <1>1, <1>21, <2>1, <2>2, OneSegment
<1>3. \A x \in DOMAIN h : x < s.base => ~Holds(s2, x)
  <2> SUFFICES ASSUME NEW x \in DOMAIN h, x < s.base, Holds(s2, x)
               PROVE  FALSE
    OBVIOUS
  <2>1. PICK r \in S : Holds(r, x)
    BY DEF Heap, Geometry, Home
  <2>2. r # s
    BY <1>0, <1>1, <2>1 DEF Holds, End
  <2>3. r \in S2 /\ x \in Int
    BY <1>0, <2>1, <2>2
  <2>4. r = s2
    <3>1. s2 \in S2
      BY <1>2
    <3> HIDE DEF Holds
    <3> QED
      BY <3>1, <2>1, <2>3, SameSegment
  <2> QED
    BY <1>31, <2>1, <2>4
<1>4. /\ \A r \in S2 : r # s2 => r \in S /\ r # s
      /\ \A r \in S : r # s => r \in S2 /\ r # s2
  BY <1>2, <1>31
<1>5. Holds(s2, b) /\ Holds(s2, q) /\ b < q /\ q < s.base /\ q \in Nat
  BY <1>1, <1>2 DEF Holds, End
<1>6. b \notin DOMAIN h /\ q \notin DOMAIN h
  BY <1>3, <1>5
<1>7. \A x \in DOMAIN h : h2[x] = h[x]
  BY <1>6 DEF Elsewhere
<1>8. \A x \in DOMAIN h : Holds(s, x) <=> Holds(s2, x)
  BY <1>0, <1>1, <1>2, <1>3 DEF Holds, End
<1>81. \A r \in S2 : Holds(r, b) \/ Holds(r, q) => r = s2
  <2>1. s2 \in S2
    BY <1>2
  <2>2. ASSUME NEW r \in S2, NEW x \in Int, Holds(s2, x), Holds(r, x) PROVE r = s2
    BY <2>1, <2>2, SameSegment
  <2> QED
    BY <1>5, <2>2
<1>9. Geometry(h2, S2, f)
  <2>1. Apart(h2)
    <3> SUFFICES ASSUME NEW x \in DOMAIN h2, NEW y \in DOMAIN h2, x < y
                 PROVE  x + h2[x].size <= y
      BY DEF Apart
    <3>1. CASE x \in DOMAIN h /\ y \in DOMAIN h
      BY <1>7, <3>1 DEF Heap, Geometry, Apart
    <3>2. CASE x \in DOMAIN h /\ y \notin DOMAIN h
      <4>1. y \in {b, q} /\ x < s.base /\ x # b
        BY <1>0, <1>5, <1>6, <3>2
      <4>2. x < b
        BY <1>0, <1>1, <1>2, <1>3, <1>5, <3>2, <4>1 DEF Holds, End
      <4>3. PICK r \in S : Holds(r, x)
        BY <3>2 DEF Heap, Geometry, Home
      <4>4. r # s /\ r # s2 /\ r \in S2
        <5>1. ~Holds(s, x)
          BY <1>0, <1>1, <3>2, <4>1 DEF Holds
        <5> QED
          BY <1>4, <4>3, <5>1
      <4>5. End(r) <= b
        <5>1. End(r) <= s2.base \/ End(s2) <= r.base
          BY <1>2, <4>4 DEF Segments
        <5>2. r.base <= x /\ r.base \in Nat /\ b < End(s2) /\ End(s2) \in Nat
          BY <1>0, <1>2, <1>5, <3>2, <4>3, OneSegment DEF Heap
        <5> QED
          BY <1>0, <1>2, <3>2, <4>2, <5>1, <5>2
      <4>6. x + h[x].size <= End(r)
        <5>1. r.base \in Nat /\ r.size \in Nat
          BY <4>3 DEF Heap, Segments
        <5> QED
          BY <1>0, <3>2, <4>3, <5>1 DEF Heap, Geometry, Chained, End
      <4>61. End(r) \in Nat
        BY <4>3 DEF Heap, Segments, End
      <4> QED
        BY <1>0, <1>5, <1>7, <3>2, <4>1, <4>5, <4>6, <4>61
    <3>3. CASE x \notin DOMAIN h
      <4>1. x \in {b, q} /\ (y \in DOMAIN h => y >= s.base)
        <5>1. x \in {b, q}
          BY <3>3
        <5>2. ASSUME y \in DOMAIN h, y < s.base PROVE FALSE
          <6>1. ~Holds(s2, y)
            BY <1>3, <5>2
          <6> QED
            BY <1>0, <1>1, <1>2, <1>5, <5>1, <5>2, <6>1 DEF Holds, End
        <5> QED
          BY <1>0, <1>1, <5>1, <5>2
      <4> QED
        BY <1>0, <1>1, <1>5, <4>1 DEF Is
    <3> QED
      BY <3>1, <3>2, <3>3
  <2>2. Home(h2, S2)
    BY <1>2, <1>4, <1>5, <1>8 DEF Heap, Geometry, Home
  <2>3. Chained(h2, S2, f)
    <3> SUFFICES ASSUME NEW x \in DOMAIN h2, NEW r \in S2, Holds(r, x)
                 PROVE  IF x = f THEN x + h2[x].size = End(r)
                        ELSE \/ (x + h2[x].size < End(r) /\ x + h2[x].size \in DOMAIN h2)
                             \/ (x + h2[x].size = End(r) - 1 /\ h2[x].size = 1)
      BY DEF Chained
    <3>0. f \in DOMAIN h
      BY TopIs
    <3>1. CASE x \in {b, q}
      <4>1. r = s2
        BY <1>81, <3>1
      <4>2. x + h2[x].size \in {q, s.base} /\ x # f
        BY <1>6, <3>0, <3>1 DEF Is
      <4>3. q \in DOMAIN h2 /\ s.base \in DOMAIN h2 /\ q < End(s2) /\ s.base < End(s2)
        BY <1>1, <1>2, <1>5, <1>21 DEF Holds, End, Is
      <4>4. x + h2[x].size \in DOMAIN h2 /\ x + h2[x].size < End(r) /\ x # f
        BY <4>1, <4>2, <4>3
      <4> QED
        BY <4>4
    <3>2. CASE x \notin {b, q} /\ r = s2
      <4>1. x \in DOMAIN h /\ h2[x] = h[x] /\ Holds(s, x)
        BY <1>7, <1>8, <3>2
      <4>2. IF x = f THEN x + h[x].size = End(s)
            ELSE \/ (x + h[x].size < End(s) /\ x + h[x].size \in DOMAIN h)
                 \/ (x + h[x].size = End(s) - 1 /\ h[x].size = 1)
        BY <4>1 DEF Heap, Geometry, Chained
      <4> QED
        BY <1>2, <3>2, <4>1, <4>2
    <3>3. CASE x \notin {b, q} /\ r # s2
      BY <1>4, <1>7, <3>3 DEF Heap, Geometry, Chained
    <3> QED
      BY <3>1, <3>2, <3>3
  <2>4. Based(h2, S2)
    BY <1>2, <1>4 DEF Heap, Geometry, Based
  <2> QED
    BY <2>1, <2>2, <2>3, <2>4 DEF Geometry
<1>10. Tags(h2, t, f)
  <2>0. f \in DOMAIN h /\ t \in DOMAIN h
    BY TopIs
  <2>1. Forward(h2, t, f)
    <3> SUFFICES ASSUME NEW x \in DOMAIN h2, x # f, x + h2[x].size \in DOMAIN h2
                 PROVE  /\ h2[x + h2[x].size].pinuse <=> h2[x].cinuse
                        /\ ~h2[x].cinuse /\ x # t =>
                             h2[x + h2[x].size].prev_foot = h2[x].size /\ h2[x + h2[x].size].cinuse
      BY DEF Forward
    <3>1. CASE x \in {b, q}
      <4>1. x + h2[x].size \in {q, s.base} /\ h2[x].cinuse
        BY <1>6, <3>1 DEF Is
      <4> QED
        BY <1>1, <1>7, <4>1 DEF Is
    <3>2. CASE x \notin {b, q}
      <4>1. x \in DOMAIN h /\ h2[x] = h[x]
        BY <1>7, <3>2
      <4>2. x + h[x].size \notin {b, q}
        <5>1. CASE Holds(s, x)
          BY <1>0, <1>1, <1>5, <4>1, <5>1 DEF Holds, End
        <5>2. CASE ~Holds(s, x)
          <6>1. PICK r \in S : Holds(r, x) /\ r # s
            BY <4>1, <5>2 DEF Heap, Geometry, Home
          <6>2. r.base \in Nat /\ r.size \in Nat /\ ~Holds(r, b) /\ ~Holds(r, q)
            BY <1>4, <1>81, <6>1 DEF Heap, Segments
          <6>3. x + h[x].size = End(r) - 1 \/ x + h[x].size < End(r) \/ x = f
            BY <4>1, <6>1 DEF Heap, Geometry, Chained
          <6>4. Holds(r, x + h[x].size)
            BY <1>0, <3>2, <4>1, <6>1, <6>2, <6>3 DEF Holds, End
          <6> QED
            BY <6>2, <6>4
        <5> QED
          BY <5>1, <5>2
      <4> QED
        BY <1>7, <4>1, <4>2 DEF Heap, Tags, Forward
    <3> QED
      BY <3>1, <3>2
  <2>2. Back(h2, t, f)
    <3>1. \A x \in DOMAIN h2 : x # f /\ ~h2[x].pinuse => x \in DOMAIN h /\ h2[x] = h[x]
      BY <1>7 DEF Is
    <3> QED
      BY <1>7, <3>1 DEF Heap, Tags, Back
  <2>3. FreePinuse(h2, f)
    BY <1>7 DEF Heap, Tags, FreePinuse, Is
  <2> QED
    BY <2>1, <2>2, <2>3 DEF Tags
<1>11. TopOK(h2, t, f, S2)
  <2>1. t \in DOMAIN h /\ f \in DOMAIN h
    BY TopIs
  <2>2. \A r, p \in S2 : r.at = State /\ p.at = State => r = p
    BY <1>2, <1>4 DEF Heap, TopOK
  <2>3. \E r \in S2 : r.at = State /\ Holds(r, t)
    BY <1>2, <1>4, <1>8, <2>1 DEF Heap, TopOK
  <2> QED
    BY <1>7, <2>1, <2>2, <2>3 DEF Heap, TopOK, Is
<1>12. RecordsOK(h2, S2)
  <2> SUFFICES ASSUME NEW r \in S2
               PROVE  /\ r.at \in DOMAIN h2 /\ h2[r.at].cinuse
                      /\ r.at # State =>
                           /\ Holds(r, r.at) /\ r.at <= End(r) - TopFoot
                           /\ \A a \in DOMAIN h2 : Holds(r, a) /\ a > r.at => h2[a].size = 1
    BY DEF RecordsOK
  <2>1. CASE r # s2
    <3>1. r \in S /\ ~Holds(r, b) /\ ~Holds(r, q)
      BY <1>4, <1>81, <2>1
    <3> QED
      BY <1>7, <3>1 DEF Heap, RecordsOK
  <2>2. CASE r = s2
    <3>1. s.at \in DOMAIN h /\ s.at \in Nat
      BY <1>0 DEF Heap, RecordsOK
    <3>2. s.at # State => ~(b > s.at) /\ ~(q > s.at)
      BY <1>1, <1>5, <3>1 DEF Heap, RecordsOK, Holds
    <3> QED
      BY <1>2, <1>7, <1>8, <2>2, <3>1, <3>2 DEF Heap, RecordsOK
  <2> QED
    BY <2>1, <2>2
<1>13. SizesOK(h2, t)
  BY <1>7 DEF Heap, SizesOK, Is
<1>14. Used(h2, S2) = Used(h, S) \cup {b, q}
  <2>1. \A x : (\A r \in S2 : r.at # x) <=> (\A r \in S : r.at # x)
    BY <1>2, <1>4
  <2>2. \A r \in S : r.at # b /\ r.at # q
    BY <1>6 DEF Heap, RecordsOK
  <2>3. \A x \in DOMAIN h : x \in Used(h2, S2) <=> x \in Used(h, S)
    BY <1>7, <2>1 DEF Used
  <2>4. b \in Used(h2, S2) /\ q \in Used(h2, S2)
    <3>1. k # 1 /\ m # 1
      OBVIOUS
    <3>2. /\ b \in DOMAIN h2 /\ h2[b].cinuse /\ h2[b].size # 1
          /\ q \in DOMAIN h2 /\ h2[q].cinuse /\ h2[q].size # 1
      BY <3>1 DEF Is
    <3> QED
      BY <2>1, <2>2, <3>2 DEF Used
  <2> QED
    BY <2>3, <2>4 DEF Used
<1>15. Avail(h2, t, f) = Avail(h, t, f)
  BY <1>6, <1>7 DEF Avail, Is
<1> QED
  BY <1>6, <1>7, <1>9, <1>10, <1>11, <1>12, <1>13, <1>14, <1>15 DEF Heap, Result, SameSize

\* Segments that are one free chunk.
Empty(h, S) ==
  {s \in S : /\ s.at # State
             /\ ~h[s.base].cinuse
             /\ s.base + h[s.base].size >= End(s) - TopFoot}

\* Their one chunk is free, and none of it is used.
LEMMA EmptyIs ==
  ASSUME NEW h, NEW t, NEW f, NEW S, Heap(h, t, f, S), NEW s \in Empty(h, S)
  PROVE  /\ s.base \in Avail(h, t, f)
         /\ ~Holds(s, State) /\ ~Holds(s, t) /\ ~Holds(s, f)
         /\ \A x \in DOMAIN h : Holds(s, x) =>
              x \notin Used(h, S) /\ (x \in Avail(h, t, f) => x = s.base)
<1>0. \A x \in DOMAIN h : /\ x \in Nat /\ h[x].size \in Nat /\ h[x].size > 0
                          /\ h[x].prev_foot \in Nat
  BY HeapTypes
<1>1. /\ s \in S /\ s.at # State /\ ~h[s.base].cinuse
      /\ s.base + h[s.base].size >= End(s) - TopFoot
  BY DEF Empty
<1>2. s.base \in DOMAIN h /\ s.base # f /\ Holds(s, s.base)
  BY <1>1, BasePinuse
<1>3. PICK l \in S : l.at = State /\ Holds(l, t) /\ Holds(l, f)
  BY TopIs
<1>31. Segments(S)
  BY DEF Heap
<1>4. ~Holds(s, t) /\ ~Holds(s, f)
  <2>1. t \in Int /\ f \in Int
    BY TopIs
  <2> QED
    BY <1>1, <1>3, <1>31, <2>1, SameSegment
<1>5. ~Holds(s, State)
  <2>1. State \in DOMAIN h /\ h[State].cinuse
    BY <1>3 DEF Heap, RecordsOK
  <2>2. s.base # State
    BY <1>1, <2>1
  <2> QED
    BY <1>1, <1>31, <2>2, OneSegment DEF State
<1>6. s.base \in Avail(h, t, f)
  BY <1>1, <1>2, <1>4 DEF Avail
<1>7. ASSUME NEW x \in DOMAIN h, Holds(s, x), x # s.base
      PROVE  x \notin Used(h, S) /\ x \notin Avail(h, t, f)
  <2>1. End(s) \in Nat /\ s.base < x /\ s.at \in DOMAIN h /\ TopFoot \in Nat
    BY <1>0, <1>1, <1>31, <1>7, OneSegment DEF Heap, RecordsOK, TopFoot
  <2>2. s.base + h[s.base].size <= x
    BY <1>2, <2>1 DEF Heap, Geometry, Apart
  <2>3. s.at <= End(s) - TopFoot
    BY <1>1 DEF Heap, RecordsOK
  <2>4. x >= s.at
    BY <1>0, <1>1, <1>2, <2>1, <2>2, <2>3
  <2>5. CASE x = s.at
    BY <1>1, <2>5 DEF Heap, RecordsOK, Used, Avail
  <2>6. CASE x # s.at
    <3>1. h[x].size = 1 /\ x # t
      BY <1>0, <1>1, <1>4, <1>7, <2>1, <2>4, <2>6 DEF Heap, RecordsOK
    <3>2. h[x].cinuse
      BY <3>1 DEF Heap, SizesOK
    <3> QED
      BY <3>1, <3>2 DEF Used, Avail
  <2> QED
    BY <2>5, <2>6
<1>8. s.base \notin Used(h, S)
  BY <1>1 DEF Used
<1> QED
  BY <1>4, <1>5, <1>6, <1>7, <1>8

\* Such segments go back to the system.
Releasing(h, t, f, S, K, S2, h2) ==
  /\ K \subseteq Empty(h, S) /\ S2 = S \ K
  /\ DOMAIN h2 = {a \in DOMAIN h : \A s \in K : ~Holds(s, a)}
  /\ \A a \in DOMAIN h2 : h2[a] = h[a]

LEMMA Release ==
  ASSUME NEW h, NEW t, NEW f, NEW S, Heap(h, t, f, S), NEW K, NEW S2, NEW h2,
         Releasing(h, t, f, S, K, S2, h2)
  PROVE  /\ Result(h2, t, f, S2, Used(h, S), Avail(h, t, f) \ {s.base : s \in K})
         /\ SameSize(h, h2, DOMAIN h2)
<1> USE DEF Releasing
<1>0. \A x \in DOMAIN h : /\ x \in Nat /\ h[x].size \in Nat /\ h[x].size > 0
                          /\ h[x].prev_foot \in Nat
  BY HeapTypes
<1>1. /\ t \in DOMAIN h /\ f \in DOMAIN h /\ t # f /\ f = t + h[t].size
      /\ ~h[t].cinuse /\ ~h[f].cinuse /\ ~h[f].pinuse
  BY TopIs
<1>2. Segments(S)
  BY DEF Heap
<1>3. \A s \in K :
        /\ s \in S /\ s.at # State
        /\ s.base \in Avail(h, t, f)
        /\ ~Holds(s, State) /\ ~Holds(s, t) /\ ~Holds(s, f)
        /\ \A x \in DOMAIN h : Holds(s, x) =>
             x \notin Used(h, S) /\ (x \in Avail(h, t, f) => x = s.base)
  BY EmptyIs DEF Empty
<1>4. \A r \in S2 : r \in S
  OBVIOUS
<1>5. \A r \in S2, x \in DOMAIN h : Holds(r, x) => x \in DOMAIN h2
  <2> SUFFICES ASSUME NEW r \in S2, NEW x \in DOMAIN h, Holds(r, x), NEW s \in K, Holds(s, x)
               PROVE  FALSE
    OBVIOUS
  <2>1. s \in S /\ r \in S /\ x \in Int /\ r # s
    BY <1>0, <1>3
  <2> QED
    BY <1>2, <2>1, SameSegment
<1>6. t \in DOMAIN h2 /\ f \in DOMAIN h2
  BY <1>1, <1>3
<1>7. Typed(h2)
  BY DEF Heap, Typed
<1>8. Segments(S2)
  BY <1>2, FS_Subset DEF Segments
<1>9. Geometry(h2, S2, f)
  <2>1. Apart(h2)
    BY DEF Heap, Geometry, Apart
  <2>2. Home(h2, S2)
    BY DEF Heap, Geometry, Home
  <2>3. Chained(h2, S2, f)
    <3> SUFFICES ASSUME NEW x \in DOMAIN h2, NEW r \in S2, Holds(r, x)
                 PROVE  IF x = f THEN x + h2[x].size = End(r)
                        ELSE \/ (x + h2[x].size < End(r) /\ x + h2[x].size \in DOMAIN h2)
                             \/ (x + h2[x].size = End(r) - 1 /\ h2[x].size = 1)
      BY DEF Chained
    <3>1. IF x = f THEN x + h[x].size = End(r)
          ELSE \/ (x + h[x].size < End(r) /\ x + h[x].size \in DOMAIN h)
               \/ (x + h[x].size = End(r) - 1 /\ h[x].size = 1)
      BY DEF Heap, Geometry, Chained
    <3>2. ASSUME x + h[x].size < End(r), x + h[x].size \in DOMAIN h
          PROVE  x + h[x].size \in DOMAIN h2
      <4>1. x \in Nat /\ h[x].size \in Nat /\ r.base <= x /\ r.base \in Nat
        BY <1>0, <1>2, <1>4, OneSegment
      <4>2. Holds(r, x + h[x].size)
        BY <1>2, <3>2, <4>1, OneSegment
      <4> QED
        BY <1>5, <3>2, <4>2
    <3> QED
      BY <3>1, <3>2
  <2>4. Based(h2, S2)
    <3>1. \A r \in S2 : r.base \in DOMAIN h /\ Holds(r, r.base)
      BY <1>4, BasePinuse
    <3> QED
      BY <1>5, <3>1 DEF Based
  <2> QED
    BY <2>1, <2>2, <2>3, <2>4 DEF Geometry
<1>10. Tags(h2, t, f)
  <2>1. Forward(h2, t, f)
    BY DEF Heap, Tags, Forward
  <2>2. Back(h2, t, f)
    <3> SUFFICES ASSUME NEW b \in DOMAIN h2, b # f, ~h2[b].pinuse
                 PROVE  /\ b - h2[b].prev_foot \in DOMAIN h2 \ {t, f}
                        /\ ~h2[b - h2[b].prev_foot].cinuse
                        /\ h2[b - h2[b].prev_foot].size = h2[b].prev_foot
      BY DEF Back
    <3> DEFINE y == b - h[b].prev_foot
    <3>1. y \in DOMAIN h \ {t, f} /\ ~h[y].cinuse /\ h[y].size = h[b].prev_foot
      BY DEF Heap, Tags, Back
    <3>2. y \in Avail(h, t, f) /\ y + h[y].size = b
      BY <1>0, <3>1 DEF Avail
    <3>3. \A s \in S : Holds(s, y) => Holds(s, b)
      BY <3>2, ChunkBehind
    <3>4. y \in DOMAIN h2
      BY <1>3, <3>1, <3>3
    <3> QED
      BY <3>1, <3>4
  <2>3. FreePinuse(h2, f)
    BY DEF Heap, Tags, FreePinuse
  <2> QED
    BY <2>1, <2>2, <2>3 DEF Tags
<1>11. TopOK(h2, t, f, S2)
  <2>1. \E s \in S2 : s.at = State /\ Holds(s, t)
    BY <1>3 DEF Heap, TopOK
  <2>2. Is(h2, f, TopFoot, FALSE, FALSE, h2[f].prev_foot)
    BY <1>6 DEF Heap, TopOK, Is
  <2> QED
    BY <1>1, <1>4, <1>6, <2>1, <2>2 DEF Heap, TopOK
<1>12. RecordsOK(h2, S2)
  <2> SUFFICES ASSUME NEW r \in S2
               PROVE  /\ r.at \in DOMAIN h2 /\ h2[r.at].cinuse
                      /\ r.at # State =>
                           /\ Holds(r, r.at) /\ r.at <= End(r) - TopFoot
                           /\ \A a \in DOMAIN h2 : Holds(r, a) /\ a > r.at => h2[a].size = 1
    BY DEF RecordsOK
  <2>1. r.at \in DOMAIN h /\ h[r.at].cinuse
    BY <1>4 DEF Heap, RecordsOK
  <2>2. CASE r.at = State
    BY <1>3, <2>1, <2>2
  <2>3. CASE r.at # State
    BY <1>4, <1>5, <2>1, <2>3 DEF Heap, RecordsOK
  <2> QED
    BY <2>2, <2>3
<1>13. SizesOK(h2, t)
  BY DEF Heap, SizesOK
<1>14. Used(h2, S2) = Used(h, S)
  <2>1. ASSUME NEW x \in Used(h2, S2) PROVE x \in Used(h, S)
    <3>1. x \in DOMAIN h2 /\ x \in DOMAIN h /\ h[x].cinuse /\ h[x].size # 1 /\ \A r \in S2 : r.at # x
      BY DEF Used
    <3>2. \A s \in K : s.at # x
      BY <1>3, <3>1 DEF Heap, RecordsOK
    <3> QED
      BY <3>1, <3>2 DEF Used
  <2>2. ASSUME NEW x \in Used(h, S) PROVE x \in Used(h2, S2)
    <3>1. x \in DOMAIN h2
      BY <1>3 DEF Used
    <3> QED
      BY <1>4, <3>1 DEF Used
  <2> QED
    BY <2>1, <2>2
<1>15. Avail(h2, t, f) = Avail(h, t, f) \ {s.base : s \in K}
  <2>1. \A s \in K : Holds(s, s.base)
    BY <1>3, BasePinuse
  <2>2. ASSUME NEW x \in Avail(h2, t, f) PROVE x \in Avail(h, t, f) /\ x \notin {s.base : s \in K}
    BY <2>1 DEF Avail
  <2>3. ASSUME NEW x \in Avail(h, t, f), x \notin {s.base : s \in K} PROVE x \in Avail(h2, t, f)
    <3>1. x \in DOMAIN h /\ ~h[x].cinuse /\ x \notin {t, f}
      BY DEF Avail
    <3>2. x \in DOMAIN h2
      BY <1>3, <2>3, <3>1
    <3> QED
      BY <3>1, <3>2 DEF Avail
  <2> QED
    BY <2>2, <2>3
<1> QED
  BY <1>7, <1>8, <1>9, <1>10, <1>11, <1>12, <1>13, <1>14, <1>15 DEF Heap, Result, SameSize

\* A chunk lies within one segment.
LEMMA Within ==
  ASSUME NEW h, NEW t, NEW f, NEW S, Heap(h, t, f, S), NEW x \in DOMAIN h, NEW s \in S, Holds(s, x)
  PROVE  /\ x + h[x].size <= End(s)
         /\ x # f => Holds(s, x + h[x].size)
<1>1. /\ x \in Nat /\ h[x].size \in Nat /\ h[x].size > 0
  BY HeapTypes
<1>2. s.base \in Nat /\ s.size \in Nat /\ End(s) = s.base + s.size /\ s.base <= x
  BY <1>1, OneSegment DEF Heap
<1> QED
  BY <1>1, <1>2 DEF Heap, Geometry, Chained, Holds

\* A new segment with the top chunk; the old one gets a record, fenceposts and,
\* if top was large enough, a free chunk.
Adding(h, t, f, S, l, sp, P, b, n, s2, l2, S2, f2, h2) ==
  /\ l \in S /\ l.at = State
  /\ (sp = t /\ h[t].size < MinChunk) \/ (sp = f /\ h[t].size >= MinChunk)
  /\ \A x : x \in P <=> x \in Int /\ sp + SegmentSize <= x /\ x <= End(l) - 2
  /\ b \in Nat /\ n \in Nat /\ n > 0
  /\ s2.base = b /\ s2.size = n + TopFoot /\ s2.at = State
  /\ l2.base = l.base /\ l2.size = l.size /\ l2.at = sp
  /\ \A r : r \in S2 <=> (r \in S /\ r # l) \/ r = s2 \/ r = l2
  /\ Segments(S2) /\ f2 = b + n
  /\ Typed(h2) /\ DOMAIN h2 = (DOMAIN h \ {f}) \cup {sp} \cup P \cup {b, f2}
  /\ Elsewhere(h, h2, {t, f, sp, b, f2} \cup P)
  /\ sp # t => Is(h2, t, h[t].size, FALSE, TRUE, h2[t].prev_foot)
  /\ Is(h2, sp, SegmentSize, TRUE, sp = t, h2[sp].prev_foot)
  /\ sp # t => h2[sp].prev_foot = h[t].size
  /\ \A x \in P : Is(h2, x, 1, TRUE, TRUE, h2[x].prev_foot)
  /\ Is(h2, b, n, FALSE, TRUE, h2[b].prev_foot)
  /\ Is(h2, f2, TopFoot, FALSE, FALSE, h2[f2].prev_foot)

LEMMA AddSegment ==
  ASSUME NEW h, NEW t, NEW f, NEW S, Heap(h, t, f, S), NEW l, NEW sp, NEW P, NEW b, NEW n, NEW s2, NEW l2, NEW S2, NEW f2, NEW h2,
         Adding(h, t, f, S, l, sp, P, b, n, s2, l2, S2, f2, h2)
  PROVE  /\ Result(h2, b, f2, S2, Used(h, S), Avail(h, t, f) \cup (IF sp = t THEN {} ELSE {t}))
         /\ SameSize(h, h2, DOMAIN h \ {t, f})
         /\ b \notin DOMAIN h
<1> USE DEF Adding
<1> DEFINE Old == DOMAIN h \ {t, f}
           E == End(l)
<1>0. \A x \in DOMAIN h : /\ x \in Nat /\ h[x].size \in Nat /\ h[x].size > 0
                          /\ h[x].prev_foot \in Nat
  BY HeapTypes
<1>1. /\ t \in DOMAIN h /\ f \in DOMAIN h /\ t # f /\ f = t + h[t].size
      /\ t \in Nat /\ f \in Nat /\ h[t].size \in Nat /\ h[t].size > 0
      /\ h[t].pinuse /\ ~h[t].cinuse /\ ~h[f].cinuse /\ ~h[f].pinuse
      /\ \A x \in DOMAIN h : x # t => x + h[x].size # f
      /\ h[f].size = TopFoot
      /\ \A x \in DOMAIN h \ {t, f} : x + h[x].size = t => h[x].cinuse
  BY TopIs
<1>2. Holds(l, t) /\ Holds(l, f) /\ f + TopFoot = E
  <2>1. PICK r \in S : r.at = State /\ Holds(r, t) /\ Holds(r, f) /\ f + TopFoot = End(r)
    BY TopIs
  <2>2. r = l
    BY <2>1 DEF Heap, TopOK
  <2> QED
    BY <2>1, <2>2
<1>3. Segments(S)
  BY DEF Heap
<1>4. /\ l.base \in Nat /\ l.size \in Nat /\ E \in Nat /\ E = l.base + l.size
      /\ l.base <= t /\ f < E
      /\ l2 \in S2 /\ l2.base = l.base /\ l2.size = l.size /\ l2.at = sp /\ End(l2) = E
  <2>1. l.base \in Nat /\ l.size \in Nat /\ E = l.base + l.size /\ End(l2) = E
    BY <1>3, OneSegment DEF End
  <2>2. l.base <= t /\ f < E
    BY <1>1, <1>2, <2>1 DEF Holds
  <2> QED
    BY <2>1, <2>2
<1>5. s2 \in S2 /\ s2.base = b /\ s2.at = State /\ End(s2) = f2 + TopFoot /\ b < f2 /\ f2 \in Nat /\ TopFoot \in Nat /\ TopFoot > 0
  <2>1. TopFoot \in Nat /\ TopFoot > 0
    BY DEF TopFoot
  <2> QED
    BY <2>1 DEF End
<1>6. /\ \A r \in S2 : r # s2 /\ r # l2 => r \in S /\ r # l
      /\ \A r \in S : r # l => r \in S2 /\ r.at # State
  BY DEF Heap, TopOK
<1>7. Holds(s2, b) /\ Holds(s2, f2)
  BY <1>5 DEF Holds
<1>8. l2 # s2 /\ State \in Old /\ h[State].cinuse
  <2>1. State \in DOMAIN h /\ h[State].cinuse
    BY DEF Heap, RecordsOK
  <2> QED
    BY <1>1, <1>4, <1>5, <2>1
<1>81. \A x \in Int : Holds(l2, x) <=> Holds(l, x)
  BY <1>4 DEF Holds
<1>82. \A r \in S, x \in Int : Holds(r, x) => ~Holds(s2, x) /\ x # b /\ x # f2
  <2> SUFFICES ASSUME NEW r \in S, NEW x \in Int, Holds(r, x), Holds(s2, x)
               PROVE  FALSE
    BY <1>7
  <2>1. CASE r = l
    <3>1. Holds(l2, x)
      BY <1>81, <2>1
    <3> QED
      BY <1>4, <1>5, <1>8, <3>1, SameSegment
  <2>2. CASE r # l
    <3>1. r \in S2 /\ r # s2
      BY <1>5, <1>6, <2>2
    <3> QED
      BY <1>5, <3>1, SameSegment
  <2> QED
    BY <2>1, <2>2
<1>9. /\ sp \in Nat /\ sp + SegmentSize <= E - 2 /\ sp >= t /\ sp <= f
      /\ sp \in {t, f} /\ sp # State /\ (sp # t => sp = f /\ h[t].size >= MinChunk)
      /\ Holds(l, sp)
  <2>1. f + SegmentSize + MinChunk = E
    BY <1>1, <1>2 DEF TopFoot
  <2> QED
    BY <1>1, <1>2, <1>8, <2>1
<1>10. \A x \in P : x \in Nat /\ x > t /\ x >= sp + SegmentSize /\ x <= E - 2 /\ Holds(l, x)
  BY <1>1, <1>4, <1>9 DEF Holds
<1>11. \A x \in DOMAIN h : Holds(l, x) => x <= t \/ x = f
  <2> SUFFICES ASSUME NEW x \in DOMAIN h, Holds(l, x), x > t, x # f
               PROVE  FALSE
    BY <1>0, <1>1
  <2>1. x > f
    BY <1>0, <1>1 DEF Heap, Geometry, Apart
  <2>2. x >= E
    BY <1>0, <1>1, <1>2, <2>1 DEF Heap, Geometry, Apart
  <2> QED
    BY <1>0, <2>2, <1>4 DEF Holds
<1>12. \A x \in Old : /\ x \in DOMAIN h2 /\ x \notin P \cup {sp, b, f2, t, f} /\ h2[x] = h[x] /\ x \in Nat
                      /\ Holds(l, x) => x < t
  <2> SUFFICES ASSUME NEW x \in Old
               PROVE  /\ x \in DOMAIN h2 /\ x \notin P \cup {sp, b, f2, t, f} /\ h2[x] = h[x] /\ x \in Nat
                      /\ Holds(l, x) => x < t
    OBVIOUS
  <2>1. PICK r \in S : Holds(r, x)
    BY DEF Heap, Geometry, Home
  <2>2. x \in Nat /\ x # b /\ x # f2
    BY <1>0, <1>82, <2>1
  <2>3. x \notin P
    BY <1>0, <1>10, <1>11, <1>1
  <2>4. x # sp
    BY <1>9
  <2>5. Holds(l, x) => x < t
    BY <1>11, <1>1, <2>2
  <2> QED
    BY <2>2, <2>3, <2>4, <2>5 DEF Elsewhere
<1>13. \A r \in S2, x \in DOMAIN h2 : Holds(r, x) =>
         \/ x \in Old /\ r # s2
         \/ r = l2 /\ x \in {t, sp} \cup P
         \/ r = s2 /\ x \in {b, f2}
  <2> SUFFICES ASSUME NEW r \in S2, NEW x \in DOMAIN h2, Holds(r, x)
               PROVE  \/ x \in Old /\ r # s2
                      \/ r = l2 /\ x \in {t, sp} \cup P
                      \/ r = s2 /\ x \in {b, f2}
    OBVIOUS
  <2>1. CASE x \in Old
    <3>1. PICK p \in S : Holds(p, x)
      BY <2>1 DEF Heap, Geometry, Home
    <3>2. ~Holds(s2, x)
      BY <1>12, <1>82, <2>1, <3>1
    <3> QED
      BY <2>1, <3>2
  <2>2. CASE x \in {t, sp} \cup P
    <3>1. Holds(l2, x) /\ x \in Int
      BY <1>1, <1>2, <1>9, <1>10, <1>81, <2>2
    <3> QED
      BY <1>4, <2>2, <3>1, SameSegment
  <2>3. CASE x \in {b, f2}
    <3>1. Holds(s2, x) /\ x \in Int
      BY <1>5, <1>7, <2>3
    <3>2. r = s2
      BY <1>5, <3>1, SameSegment
    <3> QED
      BY <2>3, <3>2
  <2> QED
    BY <2>1, <2>2, <2>3
<1>14. /\ h2[sp].size = SegmentSize /\ h2[sp].cinuse /\ (h2[sp].pinuse <=> sp = t)
       /\ sp # t => h2[t].size = h[t].size /\ ~h2[t].cinuse /\ h2[t].pinuse /\ t + h[t].size = sp
       /\ h2[b].size = n /\ ~h2[b].cinuse /\ h2[b].pinuse
       /\ h2[f2].size = TopFoot /\ ~h2[f2].cinuse /\ ~h2[f2].pinuse
       /\ \A x \in P : h2[x].size = 1 /\ h2[x].cinuse /\ h2[x].pinuse
  BY <1>1, <1>9 DEF Is
<1>15. Geometry(h2, S2, f2)
  <2>1. Chained(h2, S2, f2)
    <3> SUFFICES ASSUME NEW x \in DOMAIN h2, NEW r \in S2, Holds(r, x)
                 PROVE  IF x = f2 THEN x + h2[x].size = End(r)
                        ELSE \/ (x + h2[x].size < End(r) /\ x + h2[x].size \in DOMAIN h2)
                             \/ (x + h2[x].size = End(r) - 1 /\ h2[x].size = 1)
      BY DEF Chained
    <3>1. CASE x \in Old /\ r # s2
      <4>1. x # f2 /\ x # f /\ h2[x] = h[x] /\ x \in DOMAIN h /\ x + h[x].size # f
        BY <1>1, <1>12, <3>1
      <4>2. CASE r = l2
        <5>1. Holds(l, x) /\ x < t
          BY <1>12, <1>81, <3>1, <4>2
        <5>2. x + h[x].size <= t
          BY <1>1, <4>1, <5>1 DEF Heap, Geometry, Apart
        <5>3. x + h[x].size \in DOMAIN h
          BY <1>0, <1>1, <1>4, <4>1, <5>1, <5>2 DEF Heap, Geometry, Chained
        <5>4. x + h[x].size < E
          BY <1>0, <1>1, <1>4, <4>1, <5>2
        <5>5. x + h[x].size \in DOMAIN h2
          BY <4>1, <5>3
        <5> QED
          BY <1>4, <4>1, <4>2, <5>4, <5>5
      <4>3. CASE r # l2
        <5>1. r \in S
          BY <1>6, <3>1, <4>3
        <5>2. \/ (x + h[x].size < End(r) /\ x + h[x].size \in DOMAIN h)
              \/ (x + h[x].size = End(r) - 1 /\ h[x].size = 1)
          BY <4>1, <5>1 DEF Heap, Geometry, Chained
        <5> QED
          BY <4>1, <5>2
      <4> QED
        BY <4>2, <4>3
    <3>2. CASE r = l2 /\ x \in {t, sp} \cup P
      <4>0. x # f2
        BY <1>1, <1>2, <1>9, <1>10, <1>82, <3>2
      <4>1. CASE x = t /\ sp # t
        <5>1. x + h2[x].size = sp /\ sp \in DOMAIN h2 /\ sp < E
          BY <1>4, <1>14, <1>9, <4>1
        <5> QED
          BY <1>4, <3>2, <4>0, <5>1
      <4>2. CASE x = sp
        <5>1. x + h2[x].size \in P
          BY <1>9, <1>4, <1>14, <4>2
        <5>2. x + h2[x].size < E
          BY <1>10, <1>4, <5>1
        <5> QED
          BY <1>4, <3>2, <4>0, <5>1, <5>2
      <4>3. CASE x \in P
        <5>1. x + 1 \in P \/ x + 1 = E - 1
          BY <1>4, <1>9, <4>3
        <5>2. h2[x].size = 1 /\ (x + 1 \in P => x + 1 < E /\ x + 1 \in DOMAIN h2)
          BY <1>4, <1>10, <1>14, <4>3
        <5> QED
          BY <1>4, <3>2, <4>0, <5>1, <5>2
      <4> QED
        BY <3>2, <4>1, <4>2, <4>3
    <3>3. CASE r = s2 /\ x \in {b, f2}
      <4>1. CASE x = b
        <5>1. x + h2[x].size = f2 /\ f2 \in DOMAIN h2 /\ f2 < End(s2) /\ x # f2
          BY <1>5, <1>14, <4>1
        <5> QED
          BY <3>3, <5>1
      <4>2. CASE x = f2
        BY <1>5, <1>14, <3>3, <4>2
      <4> QED
        BY <3>3, <4>1, <4>2
    <3> QED
      BY <1>13, <3>1, <3>2, <3>3
  <2>2. Home(h2, S2)
    <3> SUFFICES ASSUME NEW x \in DOMAIN h2
                 PROVE  \E r \in S2 : Holds(r, x)
      BY DEF Home
    <3>1. CASE x \in Old
      <4>1. PICK p \in S : Holds(p, x)
        BY <3>1 DEF Heap, Geometry, Home
      <4> QED
        BY <1>4, <1>6, <1>12, <1>81, <3>1, <4>1
    <3>2. CASE x \in {t, sp} \cup P
      BY <1>1, <1>2, <1>4, <1>9, <1>10, <1>81, <3>2
    <3>3. CASE x \in {b, f2}
      BY <1>5, <1>7, <3>3
    <3> QED
      BY <3>1, <3>2, <3>3
  <2>3. Based(h2, S2)
    <3> SUFFICES ASSUME NEW r \in S2 PROVE r.base \in DOMAIN h2
      BY DEF Based
    <3>1. CASE r = s2
      BY <1>5, <3>1
    <3>2. CASE r # s2
      <4>1. PICK p \in S : p.base = r.base
        BY <1>4, <1>6, <3>2
      <4>2. p.base \in DOMAIN h /\ p.base # f
        BY BasePinuse
      <4> QED
        BY <4>1, <4>2
    <3> QED
      BY <3>1, <3>2
  <2>4. \A x \in DOMAIN h2, r \in S2 : Holds(r, x) =>
          /\ x + h2[x].size <= End(r) /\ r.base <= x /\ x < End(r)
          /\ x \in Nat /\ h2[x].size \in Nat /\ End(r) \in Nat /\ r.base \in Nat
    <3> SUFFICES ASSUME NEW x \in DOMAIN h2, NEW r \in S2, Holds(r, x)
                 PROVE  /\ x + h2[x].size <= End(r) /\ r.base <= x /\ x < End(r)
                        /\ x \in Nat /\ h2[x].size \in Nat /\ End(r) \in Nat /\ r.base \in Nat
      OBVIOUS
    <3>1. x \in Nat /\ h2[x].size \in Nat
      BY DEF Typed, HeaderSet
    <3>2. End(r) \in Nat /\ r.base \in Nat /\ r.base <= x /\ x < End(r)
      BY <3>1, OneSegment
    <3>3. x + h2[x].size <= End(r)
      BY <2>1, <3>1, <3>2 DEF Chained
    <3> QED
      BY <3>1, <3>2, <3>3
  <2>5. Apart(h2)
    <3> SUFFICES ASSUME NEW x \in DOMAIN h2, NEW y \in DOMAIN h2, x < y
                 PROVE  x + h2[x].size <= y
      BY DEF Apart
    <3>1. PICK r \in S2 : Holds(r, x)
      BY <2>2 DEF Home
    <3>2. PICK p \in S2 : Holds(p, y)
      BY <2>2 DEF Home
    <3>3. CASE r # p
      <4>1. End(r) <= p.base \/ End(p) <= r.base
        BY <3>3 DEF Segments
      <4> QED
        BY <2>4, <3>1, <3>2, <4>1
    <3>4. CASE r = p
      <4>1. CASE r = s2
        <5>1. x = b /\ y = f2
          <6>1. s2 # l2
            BY <1>8
          <6>2. x \in {b, f2} /\ y \in {b, f2}
            BY <1>13, <3>1, <3>2, <3>4, <4>1, <6>1
          <6> QED
            BY <1>5, <6>2
        <5> QED
          BY <1>14, <5>1
      <4>2. CASE x \in Old /\ y \in Old
        BY <1>12, <4>2 DEF Heap, Geometry, Apart
      <4>3. CASE r = l2 /\ x \in Old /\ y \in {t, sp} \cup P
        <5>1. x < t /\ h2[x] = h[x]
          BY <1>12, <1>81, <3>1, <4>3
        <5>2. x + h[x].size <= t
          BY <1>1, <4>3, <5>1 DEF Heap, Geometry, Apart
        <5>3. t <= y /\ y \in Nat
          BY <1>1, <1>9, <1>10, <4>3
        <5> QED
          BY <1>0, <1>1, <4>3, <5>1, <5>2, <5>3
      <4>4. CASE r = l2 /\ x \in {t, sp} \cup P
        <5>1. y \in {t, sp} \cup P
          BY <1>1, <1>9, <1>10, <1>12, <1>13, <1>81, <3>2, <3>4, <4>4, <1>8
        <5>2. CASE x = t /\ sp # t
          BY <1>1, <1>9, <1>10, <1>14, <5>1, <5>2
        <5>3. CASE x = sp
          BY <1>1, <1>9, <1>10, <1>14, <5>1, <5>3
        <5>4. CASE x \in P
          BY <1>1, <1>9, <1>10, <1>14, <5>1, <5>4
        <5> QED
          BY <4>4, <5>2, <5>3, <5>4
      <4> QED
        BY <1>13, <3>1, <3>2, <3>4, <4>1, <4>2, <4>3, <4>4
    <3> QED
      BY <3>3, <3>4
  <2> QED
    BY <2>1, <2>2, <2>3, <2>5 DEF Geometry
<1>16. \A x \in Old : x + h[x].size \in DOMAIN h2 => x + h[x].size \in Old \cup {t}
  <2> SUFFICES ASSUME NEW x \in Old, x + h[x].size \in DOMAIN h2
               PROVE  x + h[x].size \in Old \cup {t}
    OBVIOUS
  <2>1. PICK r \in S : Holds(r, x)
    BY DEF Heap, Geometry, Home
  <2>2. Holds(r, x + h[x].size) /\ x + h[x].size \in Int
    BY <1>0, <2>1, Within
  <2>3. x + h[x].size \notin {b, f2}
    BY <1>82, <2>2
  <2>4. CASE r = l
    <3>1. x + h[x].size <= t
      BY <1>1, <1>12, <2>1, <2>4 DEF Heap, Geometry, Apart
    <3>2. x + h[x].size \notin P
      BY <1>1, <1>10, <2>2, <3>1
    <3> QED
      BY <1>1, <1>9, <2>2, <2>3, <3>1, <3>2
  <2>5. CASE r # l
    <3>1. ~Holds(l, x + h[x].size)
      BY <1>3, <2>2, <2>5, SameSegment
    <3> QED
      BY <1>2, <1>9, <1>10, <2>3, <3>1
  <2> QED
    BY <2>4, <2>5
<1>17. Tags(h2, b, f2)
  <2>1. Forward(h2, b, f2)
    <3> SUFFICES ASSUME NEW x \in DOMAIN h2, x # f2, x + h2[x].size \in DOMAIN h2
                 PROVE  /\ h2[x + h2[x].size].pinuse <=> h2[x].cinuse
                        /\ ~h2[x].cinuse /\ x # b =>
                             h2[x + h2[x].size].prev_foot = h2[x].size /\ h2[x + h2[x].size].cinuse
      BY DEF Forward
    <3>1. CASE x \in Old
      <4>1. h2[x] = h[x] /\ x + h[x].size \in Old \cup {t}
        BY <1>12, <1>16, <3>1
      <4>2. CASE x + h[x].size \in Old
        BY <1>12, <3>1, <4>1, <4>2 DEF Heap, Tags, Forward
      <4>3. CASE x + h[x].size = t
        BY <1>1, <1>14, <3>1, <4>1, <4>3
      <4> QED
        BY <4>1, <4>2, <4>3
    <3>2. CASE x = t /\ sp # t
      BY <1>14, <3>2
    <3>3. CASE x = sp
      <4>1. x + h2[x].size \in P
        BY <1>9, <1>4, <1>14, <3>3
      <4> QED
        BY <1>14, <3>3, <4>1
    <3>4. CASE x \in P
      <4>1. x + 1 \in P \/ x + 1 = E - 1
        BY <1>4, <1>9, <3>4
      <4>2. E - 1 \notin DOMAIN h2
        <5>1. Holds(l2, E - 1)
          BY <1>4, <1>1 DEF Holds
        <5> QED
          BY <1>1, <1>2, <1>4, <1>8, <1>9, <1>10, <1>12, <1>13, <1>81, <5>1
      <4> QED
        BY <1>14, <3>4, <4>1, <4>2
    <3>5. CASE x = b
      BY <1>5, <1>14, <3>5
    <3> QED
      BY <3>1, <3>2, <3>3, <3>4, <3>5
  <2>2. Back(h2, b, f2)
    <3> SUFFICES ASSUME NEW x \in DOMAIN h2, x # f2, ~h2[x].pinuse
                 PROVE  /\ x - h2[x].prev_foot \in DOMAIN h2 \ {b, f2}
                        /\ ~h2[x - h2[x].prev_foot].cinuse
                        /\ h2[x - h2[x].prev_foot].size = h2[x].prev_foot
      BY DEF Back
    <3>1. CASE x \in Old
      <4>1. h2[x] = h[x] /\ x - h[x].prev_foot \in Old
        BY <1>12, <3>1 DEF Heap, Tags, Back
      <4> QED
        BY <1>12, <3>1, <4>1 DEF Heap, Tags, Back
    <3>2. CASE x = sp /\ sp # t
      <4>1. x - h2[x].prev_foot = t
        BY <1>1, <1>14, <3>2
      <4>2. t \in DOMAIN h2 /\ t # b /\ t # f2
        BY <1>1, <1>2, <1>82
      <4> QED
        BY <1>14, <3>2, <4>1, <4>2
    <3>3. x \notin P /\ x # b /\ x # t /\ ~(x = sp /\ sp = t)
      BY <1>14
    <3> QED
      BY <3>1, <3>2, <3>3
  <2>3. FreePinuse(h2, f2)
    BY <1>12, <1>14 DEF Heap, Tags, FreePinuse
  <2> QED
    BY <2>1, <2>2, <2>3 DEF Tags
<1>18. TopOK(h2, b, f2, S2)
  <2>1. \A r, p \in S2 : r.at = State /\ p.at = State => r = p
    BY <1>4, <1>6, <1>9
  <2>2. f2 = b + h2[b].size
    BY <1>14
  <2>3. Is(h2, f2, TopFoot, FALSE, FALSE, h2[f2].prev_foot)
    OBVIOUS
  <2> QED
    BY <1>5, <1>7, <1>14, <2>1, <2>2, <2>3 DEF TopOK
<1>19. RecordsOK(h2, S2)
  <2> SUFFICES ASSUME NEW r \in S2
               PROVE  /\ r.at \in DOMAIN h2 /\ h2[r.at].cinuse
                      /\ r.at # State =>
                           /\ Holds(r, r.at) /\ r.at <= End(r) - TopFoot
                           /\ \A a \in DOMAIN h2 : Holds(r, a) /\ a > r.at => h2[a].size = 1
    BY DEF RecordsOK
  <2>1. CASE r = s2
    BY <1>5, <1>8, <1>12, <2>1
  <2>2. CASE r = l2
    <3>1. r.at = sp /\ sp \in DOMAIN h2 /\ h2[sp].cinuse /\ Holds(r, sp) /\ sp <= End(r) - TopFoot
      BY <1>1, <1>2, <1>4, <1>5, <1>9, <1>14, <1>81, <2>2
    <3>2. ASSUME NEW a \in DOMAIN h2, Holds(r, a), a > sp PROVE h2[a].size = 1
      <4>1. a \notin Old /\ a # t /\ a # sp
        BY <1>1, <1>9, <1>12, <1>81, <2>2, <3>2
      <4> QED
        BY <1>8, <1>13, <1>14, <2>2, <3>2, <4>1
    <3> QED
      BY <3>1, <3>2
  <2>3. CASE r # s2 /\ r # l2
    <3>1. r \in S /\ r # l /\ r.at # State
      BY <1>6, <2>3
    <3>2. r.at \in Old /\ h[r.at].cinuse /\ Holds(r, r.at) /\ r.at <= End(r) - TopFoot
      BY <1>1, <3>1 DEF Heap, RecordsOK
    <3>3. ASSUME NEW a \in DOMAIN h2, Holds(r, a), a > r.at PROVE h2[a].size = 1
      <4>1. a \in Old
        BY <1>13, <2>3, <3>3
      <4> QED
        BY <1>12, <3>1, <3>3, <4>1 DEF Heap, RecordsOK
    <3> QED
      BY <1>12, <3>2, <3>3
  <2> QED
    BY <2>1, <2>2, <2>3
<1>20. SizesOK(h2, b)
  BY <1>5, <1>9, <1>12, <1>14 DEF Heap, SizesOK, TopFoot
<1>21. Used(h2, S2) = Used(h, S)
  <2>1. \A x \in Old : (\A r \in S2 : r.at # x) <=> (\A r \in S : r.at # x)
    BY <1>4, <1>5, <1>6, <1>12
  <2>2. \A x \in DOMAIN h2 : x \notin Old => x \notin Used(h2, S2)
    BY <1>4, <1>14 DEF Used
  <2>3. \A x \in DOMAIN h : x \notin Old => x \notin Used(h, S)
    BY <1>1 DEF Used
  <2>4. \A x \in Old : x \in Used(h2, S2) <=> x \in Used(h, S)
    BY <1>12, <2>1 DEF Used
  <2> QED
    BY <2>2, <2>3, <2>4 DEF Used
<1>22. Avail(h2, b, f2) = Avail(h, t, f) \cup (IF sp = t THEN {} ELSE {t})
  <2>1. \A x \in Old : x \in Avail(h2, b, f2) <=> x \in Avail(h, t, f)
    BY <1>12 DEF Avail
  <2>2. \A x \in P \cup {sp, b, f2} : x \notin Avail(h2, b, f2)
    BY <1>14 DEF Avail
  <2>3. sp # t => t \in Avail(h2, b, f2)
    BY <1>1, <1>2, <1>14, <1>82 DEF Avail
  <2> QED
    BY <2>1, <2>2, <2>3 DEF Avail
<1>23. b \notin DOMAIN h
  BY <1>82, <1>0 DEF Heap, Geometry, Home
<1> QED
  BY <1>12, <1>15, <1>17, <1>18, <1>19, <1>20, <1>21, <1>22, <1>23 DEF Heap, Result,
     SameSize

------------------------------------------------------------------------------
\* What the operators of the model write.

\* h2 has one more header, of chunk p.
Has(h, h2, p, s, c) ==
  /\ Typed(h2) /\ DOMAIN h2 = DOMAIN h \cup {p} /\ Elsewhere(h, h2, {p})
  /\ Is(h2, p, s, c, TRUE, h2[p].prev_foot)
  /\ p \in DOMAIN h => h2[p].prev_foot = h[p].prev_foot

\* And it tells so to the chunk n behind p.
Wrote(h, h2, p, s, c, n, pi, pf) ==
  /\ Typed(h2) /\ DOMAIN h2 = DOMAIN h \cup {p} /\ Elsewhere(h, h2, {p, n})
  /\ Is(h2, p, s, c, TRUE, h2[p].prev_foot)
  /\ p \in DOMAIN h => h2[p].prev_foot = h[p].prev_foot
  /\ n \in DOMAIN h => Is(h2, n, h[n].size, h[n].cinuse, pi, pf)

\* Chunk p has a header as given, and no other is different.
Set(h, h2, p, s, c, pi, pf) ==
  /\ Typed(h2) /\ DOMAIN h2 = DOMAIN h \cup {p} /\ Elsewhere(h, h2, {p})
  /\ Is(h2, p, s, c, pi, pf)

Dropped(h, h2, p) ==
  /\ Typed(h2) /\ DOMAIN h2 = DOMAIN h \ {p} /\ Elsewhere(h, h2, {p})

LEMMA WithIs ==
  ASSUME NEW h, Typed(h), NEW p \in Nat, NEW s \in Nat \ {0}, NEW c \in BOOLEAN, NEW pi \in BOOLEAN,
         NEW v \in 0 .. Memory,
         NEW h2, h2 = With(h, p, [size |-> s, cinuse |-> c, pinuse |-> pi, prev_foot |-> v])
  PROVE  Set(h, h2, p, s, c, pi, v)
BY DEF Typed, HeaderSet, With, Elsewhere, Is, Set

LEMMA HeaderIs ==
  ASSUME NEW h, Typed(h), NEW p \in Nat, NEW s \in Nat \ {0}, NEW c \in BOOLEAN,
         NEW h2, h2 = Header(h, p, s, c)
  PROVE  Has(h, h2, p, s, c)
<1>1. PICK v : v = IF p \in DOMAIN h THEN h[p].prev_foot ELSE InUseFoot
  OBVIOUS
<1>2. h2 = With(h, p, [size |-> s, cinuse |-> c, pinuse |-> TRUE, prev_foot |-> v])
  BY <1>1 DEF Header
<1>3. v \in 0 .. Memory /\ (p \in DOMAIN h => v = h[p].prev_foot)
  BY <1>1 DEF Typed, HeaderSet, InUseFoot
<1>4. Set(h, h2, p, s, c, TRUE, v)
  BY <1>2, <1>3, WithIs
<1> QED
  BY <1>3, <1>4 DEF Set, Has, Is

LEMMA PinuseIs ==
  ASSUME NEW h, Typed(h), NEW p \in DOMAIN h, NEW c \in BOOLEAN,
         NEW h2, h2 = [h EXCEPT ![p].pinuse = c]
  PROVE  Set(h, h2, p, h[p].size, h[p].cinuse, c, h[p].prev_foot)
BY DEF Typed, Elsewhere, HeaderSet, Is, Set

LEMMA PrevFootIs ==
  ASSUME NEW h, Typed(h), NEW p \in DOMAIN h, NEW v \in 0 .. Memory,
         NEW h2, h2 = [h EXCEPT ![p].prev_foot = v]
  PROVE  Set(h, h2, p, h[p].size, h[p].cinuse, h[p].pinuse, v)
BY DEF Typed, Elsewhere, HeaderSet, Is, Set

\* Nothing is written where no chunk begins.
LEMMA NoChunk ==
  ASSUME NEW h, Typed(h), NEW p, p \notin DOMAIN h, NEW v,
         NEW h2, h2 = [h EXCEPT ![p].prev_foot = v] \/ h2 = [h EXCEPT ![p].pinuse = v]
  PROVE  Dropped(h, h2, p)
BY DEF Typed, Dropped, Elsewhere

LEMMA InUseIs ==
  ASSUME NEW h, Typed(h), NEW p \in Nat, NEW s \in Nat \ {0}, NEW n, n = p + s,
         NEW h2, h2 = InUse(h, p, s)
  PROVE  Wrote(h, h2, p, s, TRUE, n, h[n].pinuse, 0)
<1>1. PICK g : g = Header(h, p, s, TRUE)
  OBVIOUS
<1>2. Has(h, g, p, s, TRUE)
  BY <1>1, HeaderIs
<1>3. h2 = [g EXCEPT ![n].prev_foot = 0] /\ Typed(g) /\ 0 \in 0 .. Memory /\ n # p
  <2>1. h2 = [g EXCEPT ![n].prev_foot = 0]
    BY <1>1 DEF InUse, InUseFoot
  <2>2. Typed(g)
    BY <1>2 DEF Has
  <2> QED
    BY <2>1, <2>2
<1>4. CASE n \in DOMAIN g
  <2>1. Set(g, h2, n, g[n].size, g[n].cinuse, g[n].pinuse, 0)
    BY <1>3, <1>4, PrevFootIs
  <2> QED
    BY <1>2, <1>3, <1>4, <2>1 DEF Has, Set, Wrote, Is, Elsewhere
<1>5. CASE n \notin DOMAIN g
  <2>1. Dropped(g, h2, n)
    BY <1>3, <1>5, NoChunk
  <2> QED
    BY <1>2, <1>3, <1>5, <2>1 DEF Has, Dropped, Wrote, Is, Elsewhere
<1> QED
  BY <1>4, <1>5

LEMMA FreeChunkIs ==
  ASSUME NEW h, Typed(h), NEW p \in Nat, NEW s \in Nat \ {0}, s <= Memory, NEW n, n = p + s,
         NEW h2, h2 = FreeChunk(h, p, s)
  PROVE  Wrote(h, h2, p, s, FALSE, n, h[n].pinuse, s)
<1>1. PICK g : g = Header(h, p, s, FALSE)
  OBVIOUS
<1>2. Has(h, g, p, s, FALSE)
  BY <1>1, HeaderIs
<1>3. h2 = [g EXCEPT ![n].prev_foot = s] /\ Typed(g) /\ s \in 0 .. Memory /\ n # p
  <2>1. h2 = [g EXCEPT ![n].prev_foot = s]
    BY <1>1 DEF FreeChunk
  <2>2. Typed(g)
    BY <1>2 DEF Has
  <2> QED
    BY <2>1, <2>2
<1>4. CASE n \in DOMAIN g
  <2>1. Set(g, h2, n, g[n].size, g[n].cinuse, g[n].pinuse, s)
    BY <1>3, <1>4, PrevFootIs
  <2> QED
    BY <1>2, <1>3, <1>4, <2>1 DEF Has, Set, Wrote, Is, Elsewhere
<1>5. CASE n \notin DOMAIN g
  <2>1. Dropped(g, h2, n)
    BY <1>3, <1>5, NoChunk
  <2> QED
    BY <1>2, <1>3, <1>5, <2>1 DEF Has, Dropped, Wrote, Is, Elsewhere
<1> QED
  BY <1>4, <1>5

LEMMA InUseWholeIs ==
  ASSUME NEW h, Typed(h), NEW p \in Nat, NEW s \in Nat \ {0}, NEW n, n = p + s,
         NEW h2, h2 = InUseWhole(h, p, s)
  PROVE  Wrote(h, h2, p, s, TRUE, n, TRUE, 0)
<1>1. PICK g : g = InUse(h, p, s)
  OBVIOUS
<1>2. Wrote(h, g, p, s, TRUE, n, h[n].pinuse, 0)
  BY <1>1, InUseIs
<1>3. h2 = [g EXCEPT ![n].pinuse = TRUE] /\ Typed(g) /\ n # p /\ TRUE \in BOOLEAN
  BY <1>1, <1>2 DEF InUseWhole, Wrote
<1>4. CASE n \in DOMAIN g
  <2>1. Set(g, h2, n, g[n].size, g[n].cinuse, TRUE, g[n].prev_foot)
    BY <1>3, <1>4, PinuseIs
  <2> QED
    BY <1>2, <1>3, <1>4, <2>1 DEF Set, Wrote, Is, Elsewhere
<1>5. CASE n \notin DOMAIN g
  <2>1. Dropped(g, h2, n)
    BY <1>3, <1>5, NoChunk
  <2> QED
    BY <1>2, <1>3, <1>5, <2>1 DEF Dropped, Wrote, Is, Elsewhere
<1> QED
  BY <1>4, <1>5

LEMMA FreeWithPinuseIs ==
  ASSUME NEW h, Typed(h), NEW p \in Nat, NEW s \in Nat \ {0}, s <= Memory, NEW n, n = p + s,
         NEW h2, h2 = FreeWithPinuse(h, p, s)
  PROVE  Wrote(h, h2, p, s, FALSE, n, FALSE, s)
<1>1. PICK g : g = FreeChunk(h, p, s)
  OBVIOUS
<1>2. Wrote(h, g, p, s, FALSE, n, h[n].pinuse, s)
  BY <1>1, FreeChunkIs
<1>3. h2 = [g EXCEPT ![n].pinuse = FALSE] /\ Typed(g) /\ n # p /\ FALSE \in BOOLEAN
  BY <1>1, <1>2 DEF FreeWithPinuse, Wrote
<1>4. CASE n \in DOMAIN g
  <2>1. Set(g, h2, n, g[n].size, g[n].cinuse, FALSE, g[n].prev_foot)
    BY <1>3, <1>4, PinuseIs
  <2> QED
    BY <1>2, <1>3, <1>4, <2>1 DEF Set, Wrote, Is, Elsewhere
<1>5. CASE n \notin DOMAIN g
  <2>1. Dropped(g, h2, n)
    BY <1>3, <1>5, NoChunk
  <2> QED
    BY <1>2, <1>3, <1>5, <2>1 DEF Dropped, Wrote, Is, Elsewhere
<1> QED
  BY <1>4, <1>5

LEMMA DropIs ==
  ASSUME NEW h, Typed(h), NEW p, NEW h2, h2 = Drop(h, p)
  PROVE  Dropped(h, h2, p)
BY DEF Typed, Drop, Elsewhere, Dropped

\* Chunk p of size s is a top chunk with the chunk n behind it.
Topped(h, h2, p, s, n) ==
  /\ Typed(h2) /\ DOMAIN h2 = DOMAIN h \cup {p, n} /\ Elsewhere(h, h2, {p, n})
  /\ Is(h2, p, s, FALSE, TRUE, h2[p].prev_foot)
  /\ Is(h2, n, TopFoot, FALSE, FALSE, 0)

LEMMA InitTopIs ==
  ASSUME NEW h, Typed(h), NEW p \in Nat, NEW s \in Nat \ {0}, NEW n, n = p + s,
         NEW h2, h2 = InitTop(h, p, s)
  PROVE  Topped(h, h2, p, s, n)
<1>1. PICK g : g = Header(h, p, s, FALSE)
  OBVIOUS
<1>2. Has(h, g, p, s, FALSE)
  BY <1>1, HeaderIs
<1>3. /\ h2 = With(g, n, [size |-> TopFoot, cinuse |-> FALSE, pinuse |-> FALSE, prev_foot |-> 0])
      /\ Typed(g) /\ n \in Nat /\ n # p /\ 0 \in 0 .. Memory
  <2>1. h2 = With(g, n, [size |-> TopFoot, cinuse |-> FALSE, pinuse |-> FALSE, prev_foot |-> 0])
    BY <1>1 DEF InitTop, InUseFoot
  <2>2. Typed(g)
    BY <1>2 DEF Has
  <2> QED
    BY <2>1, <2>2
<1>4. TopFoot \in Nat \ {0} /\ FALSE \in BOOLEAN
  BY DEF TopFoot
<1>5. Set(g, h2, n, TopFoot, FALSE, FALSE, 0)
  BY <1>3, <1>4, WithIs
<1> QED
  BY <1>2, <1>3, <1>5 DEF Has, Set, Topped, Is, Elsewhere

\* Chunk p, which ends at n, has been split at q, and the rest is free.
Divided(h, h2, p, s, nb, q, n) ==
  /\ Typed(h2) /\ DOMAIN h2 = DOMAIN h \cup {q} /\ Elsewhere(h, h2, {p, q, n})
  /\ Is(h2, p, nb, TRUE, TRUE, h[p].prev_foot)
  /\ Is(h2, q, s - nb, FALSE, TRUE, h2[q].prev_foot)
  /\ Is(h2, n, h[n].size, h[n].cinuse, h[n].pinuse, s - nb)

LEMMA SplitIs ==
  ASSUME NEW h, Typed(h), NEW p \in Nat, NEW s \in Nat, s <= Memory,
         NEW nb \in Nat, nb > 0, nb < s, NEW n, n = p + s, NEW q, q = p + nb,
         p \in DOMAIN h, n \in DOMAIN h,
         NEW h2, h2 = Split(h, p, s, nb)
  PROVE  Divided(h, h2, p, s, nb, q, n)
<1>1. PICK g : g = FreeChunk(h, q, s - nb)
  OBVIOUS
<1>2. /\ q \in Nat /\ s - nb \in Nat \ {0} /\ s - nb <= Memory /\ n = q + (s - nb)
      /\ p # q /\ p # n /\ q # n /\ nb \in Nat \ {0}
  OBVIOUS
<1>3. Wrote(h, g, q, s - nb, FALSE, n, h[n].pinuse, s - nb)
  BY <1>1, <1>2, FreeChunkIs
<1>4. h2 = InUse(g, p, nb) /\ Typed(g)
  BY <1>1, <1>3 DEF Split, Wrote
<1>5. Wrote(g, h2, p, nb, TRUE, q, g[q].pinuse, 0)
  BY <1>2, <1>4, InUseIs
<1> QED
  BY <1>2, <1>3, <1>5 DEF Wrote, Divided, Is, Elsewhere

------------------------------------------------------------------------------
\* What the operations do to a heap.

\* No chunk reaches beyond the memory.
LEMMA SizeBound ==
  ASSUME NEW h, NEW t, NEW f, NEW S, Heap(h, t, f, S), NEW x \in DOMAIN h
  PROVE  x + h[x].size <= Memory /\ h[x].size <= Memory /\ x < Memory
<1>1. x \in Nat /\ h[x].size \in Nat /\ h[x].size > 0
  BY HeapTypes
<1>2. PICK s \in S : Holds(s, x)
  BY DEF Heap, Geometry, Home
<1>3. x + h[x].size <= End(s)
  BY <1>2, Within
<1>4. End(s) <= Memory /\ End(s) \in Nat
  BY OneSegment DEF Heap, Segments
<1> QED
  BY <1>1, <1>3, <1>4

\* A free chunk is taken as it is.
LEMMA TakeWhole ==
  ASSUME NEW h, NEW t, NEW f, NEW S, Heap(h, t, f, S),
         NEW a \in Avail(h, t, f), NEW n, n = a + h[a].size,
         NEW h2, Wrote(h, h2, a, h[a].size, TRUE, n, TRUE, 0)
  PROVE  /\ Result(h2, t, f, S, Used(h, S) \cup {a}, Avail(h, t, f) \ {a})
         /\ SameSize(h, h2, DOMAIN h)
<1>1. a \in DOMAIN h /\ n \in DOMAIN h
  BY ChunkBehind
<1>2. Taking(h, t, f, S, a, n, h2)
  BY <1>1 DEF Wrote, Is, Taking
<1> QED
  BY <1>2, Take

\* A free chunk is split, and its beginning taken.
LEMMA TakePart ==
  ASSUME NEW h, NEW t, NEW f, NEW S, Heap(h, t, f, S),
         NEW a \in Avail(h, t, f), NEW n, n = a + h[a].size,
         NEW k \in Nat, k >= MinChunk, h[a].size - k >= MinChunk, NEW q, q = a + k,
         NEW h3, Divided(h, h3, a, h[a].size, k, q, n)
  PROVE  /\ Result(h3, t, f, S, Used(h, S) \cup {a}, (Avail(h, t, f) \ {a}) \cup {q})
         /\ SameSize(h, h3, DOMAIN h \ {a})
         /\ q \notin DOMAIN h
<1>0. Typed(h)
  BY DEF Heap
<1>1. /\ a \in DOMAIN h /\ n \in DOMAIN h /\ a \in Nat /\ n \in Nat /\ n # a /\ a # t /\ a # f
      /\ h[a].size \in Nat /\ h[a].size >= MinChunk /\ ~h[a].cinuse
  BY <1>0, ChunkBehind DEF Avail, Typed
<1>2. h[n].cinuse
  BY <1>1 DEF Heap, Tags, Forward
<1>3. PICK h1 : h1 = InUseWhole(h, a, h[a].size)
  OBVIOUS
<1>4. Wrote(h, h1, a, h[a].size, TRUE, n, TRUE, 0)
  <2>1. h[a].size \in Nat \ {0}
    BY <1>1
  <2> QED
    BY <1>0, <1>1, <1>3, <2>1, InUseWholeIs
<1>5. Result(h1, t, f, S, Used(h, S) \cup {a}, Avail(h, t, f) \ {a}) /\ SameSize(h, h1, DOMAIN h)
  BY <1>4, TakeWhole
<1>51. /\ DOMAIN h1 = DOMAIN h /\ Elsewhere(h, h1, {a, n}) /\ h1[n].size = h[n].size
       /\ h1[a].size = h[a].size /\ h1[a].pinuse /\ h1[a].prev_foot = h[a].prev_foot
       /\ (h1[n].cinuse <=> h[n].cinuse) /\ h1[n].prev_foot = 0
  BY <1>1, <1>4 DEF Wrote, Is
<1>6. /\ Typed(h3) /\ DOMAIN h3 = DOMAIN h \cup {q} /\ Elsewhere(h, h3, {a, q, n})
      /\ Is(h3, a, k, TRUE, TRUE, h[a].prev_foot)
      /\ Is(h3, q, h[a].size - k, FALSE, TRUE, h3[q].prev_foot)
      /\ Is(h3, n, h[n].size, h[n].cinuse, h[n].pinuse, h[a].size - k)
  BY DEF Divided
<1>7. PICK g : g = With(h3, q, [size |-> h[a].size - k, cinuse |-> TRUE, pinuse |-> TRUE, prev_foot |-> 0])
  OBVIOUS
<1>8. Set(h3, g, q, h[a].size - k, TRUE, TRUE, 0)
  <2>1. q \in Nat /\ h[a].size - k \in Nat \ {0} /\ TRUE \in BOOLEAN /\ 0 \in 0 .. Memory
    BY <1>1
  <2> QED
    BY <1>6, <1>7, <2>1, WithIs
<1>9. PICK h2 : h2 = With(g, n, [size |-> h[n].size, cinuse |-> TRUE, pinuse |-> TRUE, prev_foot |-> 0])
  OBVIOUS
<1>10. Set(g, h2, n, h[n].size, TRUE, TRUE, 0)
  <2>1. n \in Nat /\ h[n].size \in Nat \ {0} /\ TRUE \in BOOLEAN /\ 0 \in 0 .. Memory
    BY <1>1, HeapTypes
  <2>2. Typed(g)
    BY <1>8 DEF Set
  <2> QED
    BY <1>9, <2>1, <2>2, WithIs
<1>11. Cutting(h1, t, f, S, a, k, n, q, h2)
  <2>1. a # q /\ n # q /\ n # a
    BY <1>1
  <2>2. a \in Used(h1, S) /\ h1[a].size - k >= MinChunk /\ n = a + h1[a].size
    BY <1>5, <1>51 DEF Result
  <2> QED
    BY <1>1, <1>2, <1>51, <1>6, <1>8, <1>10, <2>1, <2>2 DEF Set, Is, Elsewhere, Cutting
<1>12. /\ Result(h2, t, f, S, Used(h1, S) \cup {q}, Avail(h1, t, f))
       /\ SameSize(h1, h2, DOMAIN h1 \ {a})
       /\ q \notin DOMAIN h1
  <2>1. Heap(h1, t, f, S)
    BY <1>5 DEF Result
  <2> QED
    BY <1>11, <2>1, Cut
<1>13. Vacating(h2, t, f, S, q, n, h3)
  <2>1. a # q /\ n # q /\ n # a
    BY <1>1
  <2>2. ~h[n].pinuse
    BY <1>1 DEF Heap, Tags, Forward
  <2>3. q \in Used(h2, S)
    BY <1>12 DEF Result
  <2> QED
    BY <1>1, <1>2, <1>51, <1>6, <1>8, <1>10, <2>1, <2>2, <2>3 DEF Set, Is, Elsewhere,
       Vacating
<1>14. /\ Result(h3, t, f, S, Used(h2, S) \ {q}, Avail(h2, t, f) \cup {q})
       /\ SameSize(h2, h3, DOMAIN h2)
  <2>1. Heap(h2, t, f, S)
    BY <1>12 DEF Result
  <2> QED
    BY <1>13, <2>1, Vacate
<1>15. q \notin Used(h, S) \cup {a}
  BY <1>1, <1>12, <1>51 DEF Used
<1>16. Result(h3, t, f, S, Used(h, S) \cup {a}, (Avail(h, t, f) \ {a}) \cup {q})
  BY <1>5, <1>12, <1>14, <1>15 DEF Result
<1>17. SameSize(h, h3, DOMAIN h \ {a})
  BY <1>5, <1>51, <1>12, <1>14, <1>11 DEF SameSize, Cutting
<1> QED
  BY <1>12, <1>16, <1>17, <1>51

------------------------------------------------------------------------------
\* The inductive invariant.

Foot == top + topsize

\* Each free chunk A is in a bin or the designated victim.
Roles(A, h, B, d, dsize) ==
  /\ A = B \cup ({d} \ {None})
  /\ d \notin B
  /\ dsize = IF d = None THEN 0 ELSE h[d].size

\* Each chunk U that is used is one block of the program, which it fits well, or
\* one that a realloc has split off.
Blocks(U, h, X, G) ==
  /\ U = X \cup {b.at : b \in G}
  /\ \A b \in G : /\ b \in [at : Nat, size : Requests \cup Resizes]
                  /\ b.at \notin X
                  /\ h[b.at].size >= b.size /\ h[b.at].size < b.size + MinChunk
  /\ \A b, c \in G : b.at = c.at => b = c

IInv ==
  /\ Heap(chunks, top, Foot, seg)
  /\ topsize \in Nat \ {0}
  /\ Roles(Avail(chunks, top, Foot), chunks, binned, dv, dvsize)
  /\ Blocks(Used(chunks, seg), chunks, extra, given)
  /\ trim_check \in {TrimThreshold, None}
  /\ release_checks \in Nat \ {0}

\* The program is given a chunk.
LEMMA Given ==
  ASSUME NEW U, NEW h, NEW X, NEW G, Blocks(U, h, X, G),
         NEW p \in Nat, p \notin U, NEW nb \in Requests \cup Resizes,
         NEW h2, SameSize(h, h2, U), h2[p].size >= nb, h2[p].size < nb + MinChunk,
         NEW G2, G2 = G \cup {[at |-> p, size |-> nb]}
  PROVE  Blocks(U \cup {p}, h2, X, G2)
<1>1. PICK c : c = [at |-> p, size |-> nb]
  OBVIOUS
<1>2. c \in [at : Nat, size : Requests \cup Resizes] /\ c.at = p /\ c.size = nb
  BY <1>1
<1>3. \A b : b \in G2 <=> b \in G \/ b = c
  BY <1>1
<1>4. p \notin X /\ \A b \in G : b.at # p /\ b.at \in U
  BY DEF Blocks
<1>5. U \cup {p} = X \cup {b.at : b \in G2}
  BY <1>2, <1>3 DEF Blocks
<1>6. \A b \in G2 : /\ b \in [at : Nat, size : Requests \cup Resizes]
                    /\ b.at \notin X
                    /\ h2[b.at].size >= b.size /\ h2[b.at].size < b.size + MinChunk
  BY <1>2, <1>3, <1>4 DEF Blocks, SameSize
<1>7. \A b, e \in G2 : b.at = e.at => b = e
  BY <1>2, <1>3, <1>4 DEF Blocks
<1> QED
  BY <1>5, <1>6, <1>7 DEF Blocks

\* What GivenBack does.
GivesBack(a, X, G, X2, G2) ==
  \/ a \in X /\ X2 = X \ {a} /\ G2 = G
  \/ \E b \in G : b.at = a /\ G2 = G \ {b} /\ X2 = X

\* A chunk that is given back was used, and the other blocks stay.
LEMMA TakenBack ==
  ASSUME NEW U, NEW h, NEW X, NEW G, Blocks(U, h, X, G),
         NEW a, NEW X2, NEW G2, GivesBack(a, X, G, X2, G2)
  PROVE  /\ a \in U
         /\ \A h2 : SameSize(h, h2, U \ {a}) => Blocks(U \ {a}, h2, X2, G2)
<1>1. CASE a \in X /\ X2 = X \ {a} /\ G2 = G
  BY <1>1 DEF Blocks, SameSize
<1>2. ASSUME NEW b \in G, b.at = a, G2 = G \ {b}, X2 = X
      PROVE  /\ a \in U
             /\ \A h2 : SameSize(h, h2, U \ {a}) => Blocks(U \ {a}, h2, X2, G2)
  <2>1. a \in U /\ a \notin X
    BY <1>2 DEF Blocks
  <2>2. \A c \in G2 : c.at # a /\ c \in G /\ c.at \in U
    BY <1>2 DEF Blocks
  <2>3. U \ {a} = X2 \cup {c.at : c \in G2}
    BY <1>2, <2>1, <2>2 DEF Blocks
  <2> QED
    BY <1>2, <2>1, <2>2, <2>3 DEF Blocks, SameSize
<1> QED
  BY <1>1, <1>2 DEF GivesBack

\* A block is given another size.
LEMMA Regiven ==
  ASSUME NEW U, NEW h, NEW X, NEW G, Blocks(U, h, X, G),
         NEW b \in G, NEW nb \in Resizes,
         NEW h2, SameSize(h, h2, U \ {b.at}), h2[b.at].size >= nb, h2[b.at].size < nb + MinChunk,
         NEW G2, G2 = (G \ {b}) \cup {[b EXCEPT !.size = nb]}
  PROVE  /\ Blocks(U, h2, X, G2)
         /\ \A q : q \notin U => Blocks(U \cup {q}, h2, X \cup {q}, G2)
<1>1. PICK c : c = [b EXCEPT !.size = nb]
  OBVIOUS
<1>2. b \in [at : Nat, size : Requests \cup Resizes]
  BY DEF Blocks
<1>3. c \in [at : Nat, size : Requests \cup Resizes] /\ c.at = b.at /\ c.size = nb
  BY <1>1, <1>2
<1>4. \A e : e \in G2 <=> (e \in G /\ e # b) \/ e = c
  BY <1>1
<1>5. \A e \in G : (e # b => e.at # b.at) /\ e.at \in U /\ e.at \notin X
  BY DEF Blocks
<1>6. U = X \cup {e.at : e \in G2}
  BY <1>3, <1>4 DEF Blocks
<1>7. \A e \in G2 : /\ e \in [at : Nat, size : Requests \cup Resizes]
                    /\ e.at \notin X
                    /\ h2[e.at].size >= e.size /\ h2[e.at].size < e.size + MinChunk
                    /\ e.at \in U
  BY <1>3, <1>4, <1>5 DEF Blocks, SameSize
<1>8. \A d, e \in G2 : d.at = e.at => d = e
  BY <1>3, <1>4, <1>5 DEF Blocks
<1>9. ASSUME NEW q, q \notin U PROVE Blocks(U \cup {q}, h2, X \cup {q}, G2)
  BY <1>6, <1>7, <1>8, <1>9 DEF Blocks
<1> QED
  BY <1>6, <1>7, <1>8, <1>9 DEF Blocks

------------------------------------------------------------------------------
\* The operations.

\* What the invariant says of each chunk.
LEMMA Now ==
  ASSUME IInv
  PROVE  /\ Typed(chunks) /\ top \in Nat /\ topsize \in Nat /\ topsize = chunks[top].size
         /\ top \in DOMAIN chunks /\ Foot = top + topsize /\ Foot \in DOMAIN chunks
         /\ \A p \in Avail(chunks, top, Foot) :
              /\ p \in DOMAIN chunks /\ p \in Nat /\ SizeOf(p) \in Nat /\ SizeOf(p) > 0
              /\ SizeOf(p) >= MinChunk /\ SizeOf(p) <= Memory
              /\ p + SizeOf(p) \in DOMAIN chunks /\ p \notin Used(chunks, seg)
              /\ p # top /\ p # Foot /\ ~chunks[p].cinuse
         /\ \A p \in Used(chunks, seg) :
              /\ p \in DOMAIN chunks /\ p \in Nat /\ SizeOf(p) \in Nat /\ SizeOf(p) > 0
              /\ SizeOf(p) >= MinChunk /\ SizeOf(p) <= Memory
              /\ p + SizeOf(p) \in DOMAIN chunks /\ p \notin Avail(chunks, top, Foot)
              /\ p # top /\ p # Foot /\ chunks[p].cinuse
<1>1. Heap(chunks, top, Foot, seg) /\ topsize \in Nat
  BY DEF IInv
<1>2. /\ Typed(chunks) /\ top \in Nat /\ top \in DOMAIN chunks /\ Foot \in DOMAIN chunks
      /\ Foot = top + chunks[top].size /\ chunks[top].size \in Nat
  BY <1>1, TopIs DEF Heap
<1>3. topsize = chunks[top].size
  BY <1>1, <1>2 DEF Foot
<1>4. ASSUME NEW p \in Used(chunks, seg) \cup Avail(chunks, top, Foot)
      PROVE  /\ p \in DOMAIN chunks /\ p \in Nat /\ SizeOf(p) \in Nat /\ SizeOf(p) > 0
             /\ SizeOf(p) >= MinChunk /\ SizeOf(p) <= Memory
             /\ p + SizeOf(p) \in DOMAIN chunks
             /\ p # top /\ p # Foot
  BY <1>1, <1>4, ChunkBehind, SizeBound DEF SizeOf
<1> QED
  BY <1>1, <1>2, <1>3, <1>4 DEF Foot, Used, Avail

\* A chunk that the bins serve a request from is free and large enough.
LEMMA CandidatesAre ==
  ASSUME IInv, NEW nb \in Requests, NEW p \in Candidates(nb)
  PROVE  p \in binned /\ p \in Avail(chunks, top, Foot) /\ SizeOf(p) >= nb
<1>1. p \in binned
  BY DEF Candidates, Smallest, TreeFits, SmallFits, Tree
<1>2. p \in Avail(chunks, top, Foot)
  BY <1>1 DEF IInv, Roles
<1>3. SizeOf(p) \in Nat /\ nb \in Nat
  BY <1>2, Now
<1>4. SizeOf(p) >= nb
  BY <1>3 DEF Candidates, Smallest, TreeFits, SmallFits, Tree, Small
<1> QED
  BY <1>1, <1>2, <1>4

\* mspace_malloc_implementation
LEMMA MallocBinnedKeeps ==
  ASSUME IInv, NEW nb \in Requests, MallocBinned(nb)
  PROVE  IInv'
<1>1. PICK p \in Candidates(nb) :
        LET rest == SizeOf(p) - nb IN
        /\ \/ /\ rest < MinChunk
              /\ chunks' = InUseWhole(chunks, p, SizeOf(p))
              /\ binned' = binned \ {p}
              /\ UNCHANGED <<dv, dvsize>>
           \/ /\ rest >= MinChunk
              /\ chunks' = Split(chunks, p, SizeOf(p), nb)
              /\ IF Small(nb)
                 THEN /\ binned' = (binned \ {p}) \cup Replaced
                      /\ dv' = p + nb /\ dvsize' = rest
                 ELSE /\ binned' = (binned \ {p}) \cup {p + nb}
                      /\ UNCHANGED <<dv, dvsize>>
        /\ Give(p, nb)
        /\ UNCHANGED <<top, topsize, sysVars, extra>>
  BY DEF MallocBinned
<1>2. /\ p \in binned /\ p \in Avail(chunks, top, Foot) /\ SizeOf(p) >= nb
      /\ p \in DOMAIN chunks /\ p \in Nat /\ SizeOf(p) \in Nat \ {0} /\ SizeOf(p) <= Memory
      /\ p + SizeOf(p) \in DOMAIN chunks /\ p \notin Used(chunks, seg)
      /\ nb \in Nat /\ nb >= MinChunk /\ Typed(chunks) /\ Heap(chunks, top, Foot, seg)
  BY CandidatesAre, Now DEF IInv
<1>3. /\ top' = top /\ topsize' = topsize /\ seg' = seg /\ trim_check' = trim_check
      /\ release_checks' = release_checks /\ extra' = extra /\ Foot' = Foot
  BY <1>1 DEF sysVars, Foot
<1>4. given' = given \cup {[at |-> p, size |-> nb]}
  BY <1>1 DEF Give
<1>5. CASE /\ SizeOf(p) - nb < MinChunk
           /\ chunks' = InUseWhole(chunks, p, SizeOf(p))
           /\ binned' = binned \ {p}
           /\ UNCHANGED <<dv, dvsize>>
  <2>1. Wrote(chunks, chunks', p, SizeOf(p), TRUE, p + SizeOf(p), TRUE, 0)
    BY <1>2, <1>5, InUseWholeIs
  <2>2. /\ Result(chunks', top, Foot, seg, Used(chunks, seg) \cup {p}, Avail(chunks, top, Foot) \ {p})
        /\ SameSize(chunks, chunks', DOMAIN chunks)
    BY <1>2, <2>1, TakeWhole DEF SizeOf
  <2>3. chunks'[p].size = SizeOf(p)
    BY <2>1 DEF Wrote, Is
  <2>4. Blocks(Used(chunks, seg) \cup {p}, chunks', extra, given')
    <3>1. SameSize(chunks, chunks', Used(chunks, seg))
      BY <2>2 DEF SameSize, Used
    <3>2. chunks'[p].size >= nb /\ chunks'[p].size < nb + MinChunk
      BY <1>2, <1>5, <2>3
    <3> QED
      BY <1>2, <1>4, <3>1, <3>2, Given DEF IInv
  <2>5. Roles(Avail(chunks, top, Foot) \ {p}, chunks', binned', dv', dvsize')
    BY <1>2, <1>5, <2>2, Now DEF IInv, Roles, SameSize
  <2> QED
    BY <1>3, <2>2, <2>4, <2>5 DEF IInv, Result
<1>6. CASE /\ SizeOf(p) - nb >= MinChunk
           /\ chunks' = Split(chunks, p, SizeOf(p), nb)
           /\ IF Small(nb)
              THEN /\ binned' = (binned \ {p}) \cup Replaced
                   /\ dv' = p + nb /\ dvsize' = SizeOf(p) - nb
              ELSE /\ binned' = (binned \ {p}) \cup {p + nb}
                   /\ UNCHANGED <<dv, dvsize>>
  <2>1. Divided(chunks, chunks', p, SizeOf(p), nb, p + nb, p + SizeOf(p))
    <3>1. nb > 0 /\ nb < SizeOf(p)
      BY <1>2, <1>6
    <3> QED
      BY <1>2, <1>6, <3>1, SplitIs
  <2>2. /\ Result(chunks', top, Foot, seg, Used(chunks, seg) \cup {p},
                  (Avail(chunks, top, Foot) \ {p}) \cup {p + nb})
        /\ SameSize(chunks, chunks', DOMAIN chunks \ {p})
        /\ p + nb \notin DOMAIN chunks
    BY <1>2, <1>6, <2>1, TakePart DEF SizeOf
  <2>3. chunks'[p].size = nb /\ chunks'[p + nb].size = SizeOf(p) - nb
    BY <2>1 DEF Divided, Is
  <2>4. Blocks(Used(chunks, seg) \cup {p}, chunks', extra, given')
    <3>1. SameSize(chunks, chunks', Used(chunks, seg))
      BY <1>2, <2>2 DEF SameSize, Used
    <3>2. chunks'[p].size >= nb /\ chunks'[p].size < nb + MinChunk
      BY <1>2, <1>6, <2>3
    <3> QED
      BY <1>2, <1>4, <3>1, <3>2, Given DEF IInv
  <2>5. Roles((Avail(chunks, top, Foot) \ {p}) \cup {p + nb}, chunks', binned', dv', dvsize')
    <3>1. \A x \in Avail(chunks, top, Foot) : x \in DOMAIN chunks /\ x # p + nb
      BY <2>2 DEF Avail
    <3>2. p + nb # None
      BY <1>2
    <3>3. CASE Small(nb)
      BY <1>2, <1>6, <2>2, <2>3, <3>1, <3>2, <3>3 DEF IInv, Roles, SameSize, Replaced
    <3>4. CASE ~Small(nb)
      BY <1>2, <1>6, <2>2, <2>3, <3>1, <3>2, <3>4 DEF IInv, Roles, SameSize
    <3> QED
      BY <3>3, <3>4
  <2> QED
    BY <1>3, <2>2, <2>4, <2>5 DEF IInv, Result
<1> QED
  BY <1>1, <1>5, <1>6

LEMMA MallocDvKeeps ==
  ASSUME IInv, NEW nb \in Requests, MallocDv(nb)
  PROVE  IInv'
<1>1. /\ nb <= dvsize
      /\ \/ /\ dvsize - nb >= MinChunk
            /\ chunks' = Split(chunks, dv, dvsize, nb)
            /\ dv' = dv + nb /\ dvsize' = dvsize - nb
         \/ /\ dvsize - nb < MinChunk
            /\ chunks' = InUseWhole(chunks, dv, dvsize)
            /\ dv' = None /\ dvsize' = 0
      /\ given' = given \cup {[at |-> dv, size |-> nb]}
      /\ binned' = binned /\ top' = top /\ topsize' = topsize /\ seg' = seg
      /\ trim_check' = trim_check /\ release_checks' = release_checks /\ extra' = extra
      /\ Foot' = Foot
  BY DEF MallocDv, Give, sysVars, Foot
<1>2. nb \in Nat /\ nb >= MinChunk
  OBVIOUS
<1>3. dv # None /\ dvsize = SizeOf(dv) /\ dv \in Avail(chunks, top, Foot)
  BY <1>1, <1>2 DEF IInv, Roles, SizeOf
<1>4. /\ dv \in DOMAIN chunks /\ dv \in Nat /\ dvsize \in Nat \ {0} /\ dvsize <= Memory
      /\ dv + dvsize \in DOMAIN chunks /\ dv \notin Used(chunks, seg)
      /\ Typed(chunks) /\ Heap(chunks, top, Foot, seg)
  BY <1>3, Now DEF IInv
<1>5. CASE /\ dvsize - nb < MinChunk
           /\ chunks' = InUseWhole(chunks, dv, dvsize)
           /\ dv' = None /\ dvsize' = 0
  <2>1. Wrote(chunks, chunks', dv, dvsize, TRUE, dv + dvsize, TRUE, 0)
    BY <1>4, <1>5, InUseWholeIs
  <2>2. /\ Result(chunks', top, Foot, seg, Used(chunks, seg) \cup {dv}, Avail(chunks, top, Foot) \ {dv})
        /\ SameSize(chunks, chunks', DOMAIN chunks)
    BY <1>3, <1>4, <2>1, TakeWhole DEF SizeOf
  <2>3. chunks'[dv].size = dvsize
    BY <2>1 DEF Wrote, Is
  <2>4. Blocks(Used(chunks, seg) \cup {dv}, chunks', extra, given')
    <3>1. SameSize(chunks, chunks', Used(chunks, seg))
      BY <2>2 DEF SameSize, Used
    <3>2. chunks'[dv].size >= nb /\ chunks'[dv].size < nb + MinChunk
      BY <1>1, <1>2, <1>4, <1>5, <2>3
    <3> QED
      BY <1>1, <1>2, <1>4, <3>1, <3>2, Given DEF IInv
  <2>5. Roles(Avail(chunks, top, Foot) \ {dv}, chunks', binned', dv', dvsize')
    BY <1>1, <1>3, <1>5, <2>2, Now DEF IInv, Roles, SameSize
  <2> QED
    BY <1>1, <2>2, <2>4, <2>5 DEF IInv, Result
<1>6. CASE /\ dvsize - nb >= MinChunk
           /\ chunks' = Split(chunks, dv, dvsize, nb)
           /\ dv' = dv + nb /\ dvsize' = dvsize - nb
  <2>1. Divided(chunks, chunks', dv, dvsize, nb, dv + nb, dv + dvsize)
    <3>1. nb > 0 /\ nb < dvsize
      BY <1>2, <1>4, <1>6
    <3> QED
      BY <1>2, <1>4, <1>6, <3>1, SplitIs
  <2>2. /\ Result(chunks', top, Foot, seg, Used(chunks, seg) \cup {dv},
                  (Avail(chunks, top, Foot) \ {dv}) \cup {dv + nb})
        /\ SameSize(chunks, chunks', DOMAIN chunks \ {dv})
        /\ dv + nb \notin DOMAIN chunks
    BY <1>2, <1>3, <1>4, <1>6, <2>1, TakePart DEF SizeOf
  <2>3. chunks'[dv].size = nb /\ chunks'[dv + nb].size = dvsize - nb
    BY <2>1 DEF Divided, Is
  <2>4. Blocks(Used(chunks, seg) \cup {dv}, chunks', extra, given')
    <3>1. SameSize(chunks, chunks', Used(chunks, seg))
      BY <1>4, <2>2 DEF SameSize, Used
    <3>2. chunks'[dv].size >= nb /\ chunks'[dv].size < nb + MinChunk
      BY <1>2, <2>3
    <3> QED
      BY <1>1, <1>2, <1>4, <3>1, <3>2, Given DEF IInv
  <2>5. Roles((Avail(chunks, top, Foot) \ {dv}) \cup {dv + nb}, chunks', binned', dv', dvsize')
    <3>1. \A x \in Avail(chunks, top, Foot) : x \in DOMAIN chunks /\ x # dv + nb
      BY <2>2 DEF Avail
    <3>2. dv + nb # None
      BY <1>2, <1>4
    <3> QED
      BY <1>1, <1>2, <1>3, <1>4, <1>6, <2>2, <2>3, <3>1, <3>2 DEF IInv, Roles, SameSize
  <2> QED
    BY <1>1, <2>2, <2>4, <2>5 DEF IInv, Result
<1> QED
  BY <1>1, <1>5, <1>6

\* SplitTop, of a heap that may have been made first.
LEMMA SplitTopKeeps ==
  ASSUME IInv, NEW nb \in Requests, NEW h, NEW t, NEW f, NEW s, NEW S, NEW A,
         Result(h, t, f, S, Used(chunks, seg), A), h[t].size = s, nb < s,
         SameSize(chunks, h, Used(chunks, seg)),
         Roles(A, h, binned', dv', dvsize'),
         chunks' = InUse(Header(h, t + nb, s - nb, FALSE), t, nb),
         top' = t + nb, topsize' = s - nb, given' = given \cup {[at |-> t, size |-> nb]},
         seg' = S, extra' = extra,
         trim_check' \in {TrimThreshold, None}, release_checks' = release_checks
  PROVE  IInv'
<1> DEFINE q == t + nb
<1>1. /\ nb \in Nat /\ nb >= MinChunk /\ Heap(h, t, f, S)
      /\ Used(h, S) = Used(chunks, seg) /\ Avail(h, t, f) = A
  BY DEF Result
<1>2. /\ t \in Nat /\ s \in Nat /\ t \in DOMAIN h /\ ~h[t].cinuse /\ f = t + s
  BY <1>1, TopIs
<1>3. Typed(h) /\ q \in Nat /\ q > t /\ s - nb \in Nat \ {0} /\ nb \in Nat \ {0}
  BY <1>1, <1>2 DEF Heap
<1>4. PICK g : g = Header(h, q, s - nb, FALSE)
  OBVIOUS
<1>5. Has(h, g, q, s - nb, FALSE)
  BY <1>3, <1>4, HeaderIs
<1>6. Wrote(g, chunks', t, nb, TRUE, q, g[q].pinuse, 0)
  <2>1. chunks' = InUse(g, t, nb)
    BY <1>4
  <2>2. Typed(g)
    BY <1>5 DEF Has
  <2>3. q = t + nb
    OBVIOUS
  <2> QED
    BY <1>2, <1>3, <2>1, <2>2, <2>3, InUseIs
<1>7. CuttingTop(h, t, f, S, nb, q, chunks')
  BY <1>1, <1>2, <1>3, <1>5, <1>6 DEF CuttingTop, Has, Wrote, Elsewhere, Is
<1>8. /\ Result(chunks', q, f, S, Used(chunks, seg) \cup {t}, A)
      /\ SameSize(h, chunks', DOMAIN h \ {t})
  BY <1>1, <1>7, CutTop
<1>9. chunks'[t].size = nb
  BY <1>6 DEF Wrote, Is
<1>10. t \notin Used(chunks, seg) /\ t \notin A
  BY <1>1, <1>2 DEF Used, Avail
<1>11. Blocks(Used(chunks, seg) \cup {t}, chunks', extra, given')
  <2>1. SameSize(chunks, chunks', Used(chunks, seg))
    BY <1>1, <1>8, <1>10 DEF SameSize, Used
  <2>2. chunks'[t].size >= nb /\ chunks'[t].size < nb + MinChunk
    <3>1. nb >= nb /\ nb < nb + MinChunk
      BY <1>1
    <3> QED
      BY <1>9, <3>1
  <2> QED
    BY <1>2, <1>10, <2>1, <2>2, Given DEF IInv
<1>12. Roles(A, chunks', binned', dv', dvsize')
  <2>1. \A x \in A : x \in DOMAIN h \ {t}
    BY <1>1, <1>10 DEF Avail
  <2> QED
    BY <1>8, <2>1 DEF Roles, SameSize
<1>13. Foot' = f
  BY <1>1, <1>2 DEF Foot
<1>14. topsize' \in Nat \ {0} /\ top' = q
  BY <1>3
<1> HIDE DEF q
<1> QED
  BY <1>8, <1>11, <1>12, <1>13, <1>14 DEF IInv, Result

LEMMA MallocTopKeeps ==
  ASSUME IInv, NEW nb \in Requests, MallocTop(nb)
  PROVE  IInv'
<1>1. /\ nb < topsize
      /\ chunks' = InUse(Header(chunks, top + nb, topsize - nb, FALSE), top, nb)
      /\ top' = top + nb /\ topsize' = topsize - nb
      /\ given' = given \cup {[at |-> top, size |-> nb]}
      /\ binned' = binned /\ dv' = dv /\ dvsize' = dvsize /\ seg' = seg
      /\ trim_check' = trim_check /\ release_checks' = release_checks /\ extra' = extra
  BY DEF MallocTop, SplitTop, Give, sysVars
<1>2. Result(chunks, top, Foot, seg, Used(chunks, seg), Avail(chunks, top, Foot))
  BY DEF IInv, Result
<1>3. SameSize(chunks, chunks, Used(chunks, seg)) /\ chunks[top].size = topsize
  BY Now DEF SameSize
<1>4. Roles(Avail(chunks, top, Foot), chunks, binned', dv', dvsize')
  BY <1>1 DEF IInv, Roles
<1>5. trim_check' \in {TrimThreshold, None}
  BY <1>1 DEF IInv
<1> QED
  BY <1>1, <1>2, <1>3, <1>4, <1>5, SplitTopKeeps

------------------------------------------------------------------------------
\* Memory from the system.

\* Memory from the system has room for the request, the foot and top.
LEMMA SysSizeIs ==
  ASSUME NEW nb \in Requests
  PROVE  SysSize(nb) \in Nat /\ SysSize(nb) >= nb + TopFoot + 1
<1> DEFINE x == nb + TopFoot + 1 + Granularity - 1
<1>1. nb \in Nat /\ TopFoot \in Nat /\ Granularity \in Nat /\ Granularity > 0
  BY DEF TopFoot
<1>2. x \in Nat
  BY <1>1
<1>3. \A y, g \in Nat : g > 0 => (y \div g) * g \in Nat /\ (y \div g) * g > y - g
  OBVIOUS
<1>4. (x \div Granularity) * Granularity \in Nat /\ (x \div Granularity) * Granularity > x - Granularity
  BY <1>1, <1>2, <1>3
<1>5. x - Granularity = nb + TopFoot
  BY <1>1
<1>6. SysSize(nb) = (x \div Granularity) * Granularity
  BY DEF SysSize
<1> HIDE DEF x
<1> QED
  BY <1>1, <1>4, <1>5, <1>6

\* A region that nothing is mapped in.
Fresh(S, b, n) ==
  /\ b \in Nat /\ n \in Nat /\ n > 0 /\ b + n <= Memory
  /\ \A s \in S : b + n <= s.base \/ End(s) <= b

\* The system maps what was not mapped.
LEMMA RegionIs ==
  ASSUME NEW nb \in Requests, NEW b \in Regions(nb)
  PROVE  Fresh(seg, b, SysSize(nb))
BY SysSizeIs DEF Fresh, Regions, Granules, Address, TopFoot

\* A segment grows by a region at its end, or before it.
LEMMA Grown ==
  ASSUME NEW S, Segments(S), NEW s \in S, NEW b, NEW n, Fresh(S, b, n),
         NEW s2 \in [base : Nat, size : Nat \ {0}, at : Nat], s2.size = s.size + n,
         \/ End(s) = b /\ s2.base = s.base
         \/ s.base = b + n /\ s2.base = b
  PROVE  Segments((S \ {s}) \cup {s2})
<1> DEFINE S2 == (S \ {s}) \cup {s2}
<1>1. \A r \in S : /\ r \in [base : Nat, size : Nat \ {0}, at : Nat]
                   /\ End(r) <= Memory /\ End(r) = r.base + r.size
  BY DEF Segments, End
<1>2. End(s2) = s2.base + s2.size /\ b \in Nat /\ n \in Nat /\ b + n <= Memory
  BY DEF End, Fresh
<1>3. End(s2) <= Memory
  BY <1>1, <1>2
<1>4. ASSUME NEW r \in S \ {s}
      PROVE  End(s2) <= r.base \/ End(r) <= s2.base
  <2>1. End(s) <= r.base \/ End(r) <= s.base
    BY DEF Segments
  <2>2. b + n <= r.base \/ End(r) <= b
    BY DEF Fresh
  <2> QED
    BY <1>1, <1>2, <2>1, <2>2
<1>5. IsFiniteSet(S2)
  BY FS_AddElement, FS_RemoveElement DEF Segments
<1>6. ASSUME NEW x \in S2, NEW y \in S2, x # y
      PROVE  End(x) <= y.base \/ End(y) <= x.base
  BY <1>4, <1>6 DEF Segments
<1> QED
  BY <1>1, <1>3, <1>5, <1>6 DEF Segments

\* A region becomes a segment, and another segment has its record elsewhere.
LEMMA Added ==
  ASSUME NEW S, Segments(S), NEW s \in S, NEW b, NEW n, Fresh(S, b, n),
         NEW s2 \in [base : Nat, size : Nat \ {0}, at : Nat], s2.size = s.size, s2.base = s.base,
         NEW r2 \in [base : Nat, size : Nat \ {0}, at : Nat], r2.size = n, r2.base = b
  PROVE  Segments((S \ {s}) \cup {r2, s2})
<1> DEFINE S2 == (S \ {s}) \cup {r2, s2}
<1>1. \A r \in S : /\ r \in [base : Nat, size : Nat \ {0}, at : Nat]
                   /\ End(r) <= Memory /\ End(r) = r.base + r.size
  BY DEF Segments, End
<1>2. /\ End(s2) = End(s) /\ s2.base = s.base /\ End(r2) = b + n /\ r2.base = b
      /\ b \in Nat /\ n \in Nat /\ b + n <= Memory
  BY DEF End, Fresh
<1>3. End(s2) <= Memory /\ End(r2) <= Memory
  BY <1>1, <1>2
<1>4. ASSUME NEW r \in S
      PROVE  End(r2) <= r.base \/ End(r) <= r2.base
  BY <1>1, <1>2 DEF Fresh
<1>5. IsFiniteSet(S2)
  <2>1. IsFiniteSet(((S \ {s}) \cup {r2}) \cup {s2})
    BY FS_AddElement, FS_RemoveElement DEF Segments
  <2> QED
    BY <2>1, Zenon
<1>6. ASSUME NEW r \in S \ {s}
      PROVE  End(s2) <= r.base \/ End(r) <= s2.base
  BY <1>1, <1>2 DEF Segments
<1>7. End(s2) <= r2.base \/ End(r2) <= s2.base
  BY <1>1, <1>2, <1>4
<1>8. ASSUME NEW x \in S2, NEW y \in S2, x # y
      PROVE  End(x) <= y.base \/ End(y) <= x.base
  BY <1>4, <1>6, <1>7, <1>8 DEF Segments
<1> QED
  BY <1>1, <1>3, <1>5, <1>8 DEF Segments

\* sys_alloc
LEMMA SysAppendKeeps ==
  ASSUME IInv, NEW nb \in Requests, SysAppend(nb)
  PROVE  IInv'
<1> DEFINE N == SysSize(nb)
<1>1. PICK b \in Regions(nb), sp \in seg :
        /\ AppendsTo(sp, b)
        /\ seg' = (seg \ {sp}) \cup {[sp EXCEPT !.size = @ + N]}
        /\ SplitTop(InitTop(Drop(chunks, Foot), top, topsize + N), top, topsize + N, nb)
  BY DEF SysAppend, Foot
<1>2. /\ trim_check' = TrimThreshold /\ binned' = binned /\ dv' = dv /\ dvsize' = dvsize
      /\ release_checks' = release_checks /\ extra' = extra
  BY DEF SysAppend
<1>3. Heap(chunks, top, Foot, seg) /\ Typed(chunks) /\ Segments(seg)
  BY DEF IInv, Heap
<1>4. /\ top \in Nat /\ topsize \in Nat /\ topsize > 0 /\ topsize = chunks[top].size
      /\ Foot \in DOMAIN chunks /\ Foot \in Nat /\ Foot # top /\ top \in DOMAIN chunks
      /\ Foot = top + topsize /\ ~chunks[Foot].cinuse
  BY <1>3, Now, TopIs
<1>5. N \in Nat /\ N >= nb + TopFoot + 1 /\ nb \in Nat /\ TopFoot \in Nat /\ N > 0 /\ TopFoot > 0
  BY SysSizeIs DEF TopFoot
<1>6. Fresh(seg, b, N)
  BY RegionIs
<1>7. sp.at = State
  <2>1. PICK s \in seg : s.at = State /\ Holds(s, top)
    BY <1>3, TopIs
  <2>2. s = sp
    BY <1>1, <1>3, <1>4, <2>1, SameSegment DEF AppendsTo
  <2> QED
    BY <2>1, <2>2
<1>8. PICK s2 : s2 = [sp EXCEPT !.size = @ + N]
  OBVIOUS
<1>9. /\ s2.base = sp.base /\ s2.size = sp.size + N /\ s2.at = sp.at
      /\ s2 \in [base : Nat, size : Nat \ {0}, at : Nat]
  <2>1. sp \in [base : Nat, size : Nat \ {0}, at : Nat]
    BY <1>3 DEF Segments
  <2> QED
    BY <1>5, <1>8, <2>1
<1>10. Segments((seg \ {sp}) \cup {s2})
  BY <1>1, <1>3, <1>6, <1>9, Grown DEF AppendsTo
<1>11. PICK g1 : g1 = Drop(chunks, Foot)
  OBVIOUS
<1>12. PICK g2 : g2 = InitTop(g1, top, topsize + N)
  OBVIOUS
<1>13. Dropped(chunks, g1, Foot)
  BY <1>3, <1>11, DropIs
<1>14. Topped(g1, g2, top, topsize + N, Foot + N)
  <2>1. Typed(g1)
    BY <1>13 DEF Dropped
  <2>2. Foot + N = top + (topsize + N) /\ topsize + N \in Nat \ {0}
    BY <1>4, <1>5
  <2> QED
    BY <1>4, <1>12, <2>1, <2>2, InitTopIs
<1>15. MovingFoot(chunks, top, Foot, seg, sp, N, s2, (seg \ {sp}) \cup {s2}, Foot + N, g2)
  <2>1. Foot + N # top /\ Foot + N \notin DOMAIN chunks \ {Foot} /\ N \in Int
        /\ chunks[top].size + N > 0
    <3>1. \A x \in DOMAIN chunks : x \in Nat /\ chunks[x].size \in Nat /\ chunks[x].size > 0
      BY <1>3, HeapTypes
    <3>2. ASSUME Foot + N \in DOMAIN chunks
          PROVE  FALSE
      <4>1. PICK s \in seg : Holds(s, Foot + N)
        BY <1>3, <3>2 DEF Heap, Geometry, Home
      <4>2. PICK r \in seg : r.at = State /\ Holds(r, top) /\ Foot + TopFoot = End(r)
        BY <1>3, TopIs
      <4>3. r = sp
        BY <1>1, <1>3, <1>4, <4>2, SameSegment DEF AppendsTo
      <4>4. b = Foot + TopFoot
        BY <1>1, <4>2, <4>3 DEF AppendsTo
      <4>5. b + N <= s.base \/ End(s) <= b
        BY <1>6 DEF Fresh
      <4>6. s.base <= Foot + N /\ Foot + N < End(s) /\ s.base \in Nat /\ End(s) \in Nat
        BY <1>3, <1>4, <1>5, <4>1, OneSegment
      <4>7. ~(b + N <= s.base)
        BY <1>4, <1>5, <4>4, <4>6
      <4>8. N > TopFoot
        BY <1>5
      <4>9. Foot + N > b
        BY <1>4, <1>5, <4>4, <4>8
      <4> QED
        BY <1>4, <1>5, <4>4, <4>5, <4>6, <4>7, <4>9
    <3> QED
      BY <1>4, <1>5, <3>2
  <2>2. /\ Typed(g2) /\ DOMAIN g2 = (DOMAIN chunks \ {Foot}) \cup {Foot + N}
        /\ Elsewhere(chunks, g2, {top, Foot, Foot + N})
        /\ Is(g2, top, chunks[top].size + N, FALSE, TRUE, g2[top].prev_foot)
        /\ Is(g2, Foot + N, TopFoot, FALSE, FALSE, g2[Foot + N].prev_foot)
    BY <1>4, <1>13, <1>14, <2>1 DEF Topped, Dropped, Elsewhere, Is
  <2> QED
    BY <1>7, <1>9, <1>10, <2>1, <2>2 DEF MovingFoot
<1>16. PICK S2 : S2 = (seg \ {sp}) \cup {s2}
  OBVIOUS
<1>17. /\ Result(g2, top, Foot + N, S2, Used(chunks, seg), Avail(chunks, top, Foot))
       /\ SameSize(chunks, g2, DOMAIN chunks \ {top, Foot})
  BY <1>3, <1>15, <1>16, MoveFoot
<1>18. g2[top].size = topsize + N /\ nb < topsize + N
  BY <1>4, <1>5, <1>14 DEF Topped, Is
<1>19. SameSize(chunks, g2, Used(chunks, seg) \cup Avail(chunks, top, Foot))
  BY <1>17, Now DEF SameSize
<1>20. Roles(Avail(chunks, top, Foot), g2, binned', dv', dvsize')
  BY <1>2, <1>19 DEF IInv, Roles, SameSize
<1>21. seg' = S2 /\ SplitTop(g2, top, topsize + N, nb)
  BY <1>1, <1>8, <1>11, <1>12, <1>16
<1>22. /\ chunks' = InUse(Header(g2, top + nb, (topsize + N) - nb, FALSE), top, nb)
       /\ top' = top + nb /\ topsize' = (topsize + N) - nb
       /\ given' = given \cup {[at |-> top, size |-> nb]}
  BY <1>21 DEF SplitTop, Give
<1>23. SameSize(chunks, g2, Used(chunks, seg))
  BY <1>19 DEF SameSize
<1> HIDE DEF N
<1> QED
  BY <1>2, <1>17, <1>18, <1>20, <1>21, <1>22, <1>23, SplitTopKeeps

\* h2 has header r at p.
Puts(h, h2, p, r) ==
  Typed(h2) /\ DOMAIN h2 = DOMAIN h \cup {p} /\ Elsewhere(h, h2, {p}) /\ h2[p] = r

LEMMA PutsIs ==
  ASSUME NEW h, Typed(h), NEW p \in Nat, NEW r \in HeaderSet, NEW h2, h2 = With(h, p, r)
  PROVE  Puts(h, h2, p, r)
BY DEF Puts, With, Typed, Elsewhere

\* The memory of m + k words before segment s.
Before(S, s, b, k, m, q, s2, S2) ==
  /\ s \in S /\ Fresh(S, b, k + m) /\ s.base = b + (k + m) /\ q = b + k
  /\ k \in Nat /\ m \in Nat /\ k >= MinChunk /\ m >= MinChunk
  /\ s2.base = b /\ s2.size = s.size + (k + m) /\ s2.at = s.at
  /\ S2 = (S \ {s}) \cup {s2} /\ Segments(S2)

TwoMore(h, g, b, r, q, m) ==
  /\ Typed(g) /\ DOMAIN g = DOMAIN h \cup {b, q} /\ Elsewhere(h, g, {b, q})
  /\ g[b] = r /\ Is(g, q, m, TRUE, TRUE, 0)

\* What precedes a segment is two chunks at first, both in use.
LEMMA PrependTwo ==
  ASSUME NEW h, NEW t, NEW f, NEW S, Heap(h, t, f, S),
         NEW s, NEW b, NEW k, NEW m, NEW q, NEW s2, NEW S2, Before(S, s, b, k, m, q, s2, S2),
         NEW r \in HeaderSet, r.size = k, r.cinuse, r.pinuse
  PROVE  /\ \E g : /\ TwoMore(h, g, b, r, q, m)
                   /\ Result(g, t, f, S2, Used(h, S) \cup {b, q}, Avail(h, t, f))
                   /\ SameSize(h, g, DOMAIN h)
         /\ b \notin DOMAIN h /\ q \notin DOMAIN h /\ b # q
<1>1. /\ b \in Nat /\ q \in Nat /\ b # q /\ Typed(h) /\ 0 \in 0 .. Memory /\ m \in Nat \ {0}
      /\ TRUE \in BOOLEAN
  BY DEF Before, Fresh, Heap
<1>2. PICK g1 : g1 = With(h, b, r)
  OBVIOUS
<1>3. PICK g : g = With(g1, q, [size |-> m, cinuse |-> TRUE, pinuse |-> TRUE, prev_foot |-> 0])
  OBVIOUS
<1>4. Puts(h, g1, b, r)
  BY <1>1, <1>2, PutsIs
<1>5. Set(g1, g, q, m, TRUE, TRUE, 0)
  <2>1. Typed(g1)
    BY <1>4 DEF Puts
  <2> QED
    BY <1>1, <1>3, <2>1, WithIs
<1>6. TwoMore(h, g, b, r, q, m)
  BY <1>1, <1>4, <1>5 DEF TwoMore, Puts, Set, Elsewhere
<1>7. Prepending(h, t, f, S, s, b, k, m, q, s2, S2, g)
  <2>1. /\ s \in S /\ b \in Nat /\ k \in Nat /\ m \in Nat /\ k >= MinChunk /\ m >= MinChunk
        /\ b + k + m = s.base /\ q = b + k
        /\ s2.base = b /\ s2.size = s.size + (k + m) /\ s2.at = s.at
        /\ S2 = (S \ {s}) \cup {s2} /\ Segments(S2)
    BY <1>1 DEF Before
  <2>2. /\ Typed(g) /\ DOMAIN g = DOMAIN h \cup {b, q} /\ Elsewhere(h, g, {b, q})
        /\ Is(g, b, k, TRUE, TRUE, g[b].prev_foot)
        /\ Is(g, q, m, TRUE, TRUE, g[q].prev_foot)
    BY <1>6 DEF TwoMore, Is
  <2> QED
    BY <2>1, <2>2 DEF Prepending
<1>8. /\ Result(g, t, f, S2, Used(h, S) \cup {b, q}, Avail(h, t, f))
      /\ b \notin DOMAIN h /\ q \notin DOMAIN h
      /\ SameSize(h, g, DOMAIN h)
  BY <1>7, Prepend
<1> QED
  BY <1>1, <1>6, <1>8

\* The segment begins with a chunk in use.
PrependingUsed(h, b, k, m, q, n, h2) ==
  /\ h[n].cinuse
  /\ \E g : Wrote(h, g, q, m, FALSE, n, FALSE, m) /\ Wrote(g, h2, b, k, TRUE, q, g[q].pinuse, 0)

\* The second becomes free: the first chunk of the segment is in use.
LEMMA PrependUsed ==
  ASSUME NEW h, NEW t, NEW f, NEW S, Heap(h, t, f, S),
         NEW s, NEW b, NEW k, NEW m, NEW q, NEW s2, NEW S2, Before(S, s, b, k, m, q, s2, S2),
         NEW n, n = s.base, NEW h2, PrependingUsed(h, b, k, m, q, n, h2)
  PROVE  /\ Result(h2, t, f, S2, Used(h, S) \cup {b}, Avail(h, t, f) \cup {q})
         /\ SameSize(h, h2, DOMAIN h) /\ h2[b].size = k /\ h2[q].size = m
         /\ b \notin DOMAIN h /\ q \notin DOMAIN h
<1>0. /\ h[n].cinuse
      /\ \E g : Wrote(h, g, q, m, FALSE, n, FALSE, m) /\ Wrote(g, h2, b, k, TRUE, q, g[q].pinuse, 0)
  BY DEF PrependingUsed
<1>01. PICK g1 : Wrote(h, g1, q, m, FALSE, n, FALSE, m) /\ Wrote(g1, h2, b, k, TRUE, q, g1[q].pinuse, 0)
  BY <1>0
<1>1. s \in S /\ n \in DOMAIN h /\ h[n].pinuse /\ n = b + (k + m) /\ q = b + k /\ q \in Nat /\ b \in Nat
      /\ k > 0 /\ m > 0 /\ k \in Nat /\ m \in Nat
  BY BasePinuse DEF Before, Fresh
<1>2. n # b /\ n # q /\ b # q /\ n = q + m
  BY <1>1
<1>3. /\ Typed(h2) /\ DOMAIN h2 = DOMAIN h \cup {b, q} /\ Elsewhere(h, h2, {b, q, n})
      /\ Is(h2, b, k, TRUE, TRUE, h2[b].prev_foot)
      /\ Is(h2, q, m, FALSE, TRUE, 0)
      /\ Is(h2, n, h[n].size, TRUE, FALSE, m)
  BY <1>0, <1>01, <1>1, <1>2 DEF Wrote, Is, Elsewhere
<1>4. h2[b] \in HeaderSet /\ h2[b].size = k /\ h2[b].cinuse /\ h2[b].pinuse
  BY <1>3 DEF Typed, Is
<1>5. PICK g : /\ TwoMore(h, g, b, h2[b], q, m)
               /\ Result(g, t, f, S2, Used(h, S) \cup {b, q}, Avail(h, t, f))
               /\ SameSize(h, g, DOMAIN h)
  BY <1>4, PrependTwo
<1>6. b \notin DOMAIN h /\ q \notin DOMAIN h
  BY <1>4, PrependTwo
<1>7. Vacating(g, t, f, S2, q, n, h2)
  <2>1. g[n] = h[n] /\ n \in DOMAIN g
    BY <1>1, <1>2, <1>5 DEF TwoMore, Elsewhere
  <2>2. q \in Used(g, S2) /\ g[q].pinuse /\ n = q + g[q].size /\ g[n].cinuse
    BY <1>0, <1>2, <1>5, <2>1 DEF Result, TwoMore, Is
  <2>3. Typed(h2) /\ DOMAIN h2 = DOMAIN g /\ Elsewhere(g, h2, {q, n})
    BY <1>3, <1>5 DEF TwoMore, Elsewhere
  <2>4. /\ Is(h2, q, g[q].size, FALSE, TRUE, h2[q].prev_foot)
        /\ Is(h2, n, g[n].size, TRUE, FALSE, g[q].size)
    BY <1>3, <1>5, <2>1 DEF TwoMore, Is
  <2> QED
    BY <2>2, <2>3, <2>4 DEF Vacating
<1>8. /\ Result(h2, t, f, S2, Used(g, S2) \ {q}, Avail(g, t, f) \cup {q})
      /\ SameSize(g, h2, DOMAIN g)
  <2>1. Heap(g, t, f, S2)
    BY <1>5 DEF Result
  <2> QED
    BY <1>7, <2>1, Vacate
<1>9. Result(h2, t, f, S2, Used(h, S) \cup {b}, Avail(h, t, f) \cup {q})
  <2>1. q \notin Used(h, S)
    BY <1>6 DEF Used
  <2> QED
    BY <1>2, <1>5, <1>8, <2>1 DEF Result
<1> QED
  BY <1>3, <1>5, <1>6, <1>8, <1>9 DEF SameSize, TwoMore, Is

\* It begins with a free one, which ends at e.
PrependingFree(h, b, k, m, q, n, e, h2) ==
  /\ Typed(h2) /\ DOMAIN h2 = (DOMAIN h \cup {b, q}) \ {n} /\ Elsewhere(h, h2, {b, q, n, e})
  /\ Is(h2, b, k, TRUE, TRUE, h2[b].prev_foot)
  /\ Is(h2, q, m + h[n].size, FALSE, TRUE, h2[q].prev_foot)
  /\ Is(h2, e, h[e].size, TRUE, FALSE, m + h[n].size)

\* It joins the first chunk of the segment, which is free.
LEMMA PrependFree ==
  ASSUME NEW h, NEW t, NEW f, NEW S, Heap(h, t, f, S),
         NEW s, NEW b, NEW k, NEW m, NEW q, NEW s2, NEW S2, Before(S, s, b, k, m, q, s2, S2),
         NEW n, n = s.base, n \in Avail(h, t, f), NEW e, e = n + h[n].size,
         NEW h2, PrependingFree(h, b, k, m, q, n, e, h2)
  PROVE  /\ Result(h2, t, f, S2, Used(h, S) \cup {b}, (Avail(h, t, f) \ {n}) \cup {q})
         /\ SameSize(h, h2, DOMAIN h \ {n})
         /\ b \notin DOMAIN h /\ q \notin DOMAIN h
<1>1. s \in S /\ n \in DOMAIN h /\ n = b + (k + m) /\ q = b + k /\ q \in Nat /\ b \in Nat
      /\ k > 0 /\ m > 0 /\ k \in Nat /\ m \in Nat /\ h[n].pinuse
  BY BasePinuse DEF Before, Fresh
<1>2. /\ h[n].size \in Nat /\ h[n].size > 0 /\ e \in DOMAIN h /\ e \in Nat /\ h[e].size \in Nat \ {0}
      /\ Typed(h)
  BY ChunkBehind, HeapTypes DEF Heap
<1>3. n # b /\ n # q /\ b # q /\ n = q + m /\ e # n /\ e # q /\ e # b
  BY <1>1, <1>2
<1>4. h2[b] \in HeaderSet /\ h2[b].size = k /\ h2[b].cinuse /\ h2[b].pinuse
  BY DEF Typed, Is, PrependingFree
<1>5. PICK g : /\ TwoMore(h, g, b, h2[b], q, m)
               /\ Result(g, t, f, S2, Used(h, S) \cup {b, q}, Avail(h, t, f))
               /\ SameSize(h, g, DOMAIN h)
  BY <1>4, PrependTwo
<1>6. b \notin DOMAIN h /\ q \notin DOMAIN h
  BY <1>4, PrependTwo
<1> USE DEF PrependingFree
<1>7. g[n] = h[n] /\ n \in DOMAIN g /\ g[e] = h[e] /\ e \in DOMAIN g
  BY <1>1, <1>2, <1>3, <1>5 DEF TwoMore, Elsewhere
<1>8. PICK g1 : g1 = Drop(g, n)
  OBVIOUS
<1>9. PICK g2 : g2 = With(g1, q, [size |-> m + h[n].size, cinuse |-> TRUE, pinuse |-> TRUE, prev_foot |-> 0])
  OBVIOUS
<1>10. PICK g3 : g3 = With(g2, e, [size |-> h[e].size, cinuse |-> TRUE, pinuse |-> TRUE, prev_foot |-> 0])
  OBVIOUS
<1>11. Dropped(g, g1, n)
  BY <1>5, <1>8, DropIs DEF TwoMore
<1>12. Set(g1, g2, q, m + h[n].size, TRUE, TRUE, 0)
  <2>1. Typed(g1) /\ m + h[n].size \in Nat \ {0} /\ TRUE \in BOOLEAN /\ 0 \in 0 .. Memory
    BY <1>1, <1>2, <1>11 DEF Dropped
  <2> QED
    BY <1>1, <1>9, <2>1, WithIs
<1>13. Set(g2, g3, e, h[e].size, TRUE, TRUE, 0)
  <2>1. Typed(g2) /\ TRUE \in BOOLEAN /\ 0 \in 0 .. Memory
    BY <1>12 DEF Set
  <2> QED
    BY <1>2, <1>10, <2>1, WithIs
<1>14. h[e].cinuse
  BY DEF Is, Heap, Tags, Forward, Avail
<1>15. Absorbing(g, t, f, S2, q, n, e, g3)
  <2>1. q \in Used(g, S2) /\ n = q + g[q].size /\ n \in Avail(g, t, f) /\ e = n + g[n].size
    BY <1>3, <1>5, <1>7 DEF Result, TwoMore, Is
  <2>2. Typed(g3) /\ DOMAIN g3 = DOMAIN g \ {n} /\ Elsewhere(g, g3, {q, n, e})
    BY <1>3, <1>5, <1>7, <1>11, <1>12, <1>13 DEF Set, Dropped, Elsewhere, TwoMore
  <2>3. Is(g3, q, g[q].size + g[n].size, TRUE, g[q].pinuse, g[q].prev_foot)
    BY <1>3, <1>5, <1>7, <1>12, <1>13 DEF Set, Elsewhere, TwoMore, Is
  <2>4. Is(g3, e, g[e].size, g[e].cinuse, TRUE, g3[e].prev_foot)
    BY <1>7, <1>13, <1>14 DEF Set, Is
  <2> QED
    BY <2>1, <2>2, <2>3, <2>4, Zenon DEF Absorbing
<1>16. /\ Result(g3, t, f, S2, Used(g, S2), Avail(g, t, f) \ {n})
       /\ SameSize(g, g3, DOMAIN g \ {n, q})
  <2>1. Heap(g, t, f, S2)
    BY <1>5 DEF Result
  <2> QED
    BY <1>15, <2>1, Absorb
<1>17. Vacating(g3, t, f, S2, q, e, h2)
  <2>1. q \in Used(g3, S2)
    BY <1>5, <1>16 DEF Result
  <2>2. /\ g3[q].size = m + h[n].size /\ g3[q].pinuse /\ q \in DOMAIN g3
    BY <1>3, <1>12, <1>13 DEF Set, Elsewhere, Is
  <2>3. g3[e].cinuse /\ g3[e].size = h[e].size
    BY <1>13 DEF Set, Is
  <2>4. e = q + g3[q].size
    BY <1>1, <1>2, <2>2
  <2>5. Typed(h2) /\ DOMAIN h2 = DOMAIN g3 /\ Elsewhere(g3, h2, {q, e})
    BY <1>2, <1>3, <1>5, <1>11, <1>12, <1>13 DEF Set, Dropped, Elsewhere, TwoMore
  <2>6. Is(h2, q, g3[q].size, FALSE, TRUE, h2[q].prev_foot)
    BY <2>2
  <2>7. Is(h2, e, g3[e].size, TRUE, FALSE, g3[q].size)
    BY <2>2, <2>3
  <2> QED
    BY <2>1, <2>2, <2>3, <2>4, <2>5, <2>6, <2>7, Zenon DEF Vacating
<1>18. /\ Result(h2, t, f, S2, Used(g3, S2) \ {q}, Avail(g3, t, f) \cup {q})
       /\ SameSize(g3, h2, DOMAIN g3)
  <2>1. Heap(g3, t, f, S2)
    BY <1>16 DEF Result
  <2> QED
    BY <1>17, <2>1, Vacate
<1>19. Result(h2, t, f, S2, Used(h, S) \cup {b}, (Avail(h, t, f) \ {n}) \cup {q})
  <2>1. q \notin Used(h, S)
    BY <1>6 DEF Used
  <2> QED
    BY <1>3, <1>5, <1>16, <1>18, <2>1 DEF Result
<1>20. SameSize(h, h2, DOMAIN h \ {n})
  BY <1>6, <1>3 DEF SameSize, Elsewhere, Is
<1> QED
  BY <1>6, <1>19, <1>20

\* It is top.
PrependingTop(h, b, k, m, q, t, h2) ==
  /\ Typed(h2) /\ DOMAIN h2 = (DOMAIN h \cup {b, q}) \ {t} /\ Elsewhere(h, h2, {b, q, t})
  /\ Is(h2, b, k, TRUE, TRUE, h2[b].prev_foot)
  /\ Is(h2, q, m + h[t].size, FALSE, TRUE, h2[q].prev_foot)

\* It joins top.
LEMMA PrependTop ==
  ASSUME NEW h, NEW t, NEW f, NEW S, Heap(h, t, f, S),
         NEW s, NEW b, NEW k, NEW m, NEW q, NEW s2, NEW S2, Before(S, s, b, k, m, q, s2, S2),
         t = s.base,
         NEW h2, PrependingTop(h, b, k, m, q, t, h2)
  PROVE  /\ Result(h2, q, f, S2, Used(h, S) \cup {b}, Avail(h, t, f))
         /\ SameSize(h, h2, DOMAIN h \ {t})
         /\ b \notin DOMAIN h /\ q \notin DOMAIN h
<1>1. s \in S /\ t \in DOMAIN h /\ t = b + (k + m) /\ q = b + k /\ q \in Nat /\ b \in Nat
      /\ k > 0 /\ m > 0 /\ k \in Nat /\ m \in Nat
  BY BasePinuse DEF Before, Fresh
<1>2. t # b /\ t # q /\ b # q /\ t = q + m
  BY <1>1
<1>4. h2[b] \in HeaderSet /\ h2[b].size = k /\ h2[b].cinuse /\ h2[b].pinuse
  BY DEF Typed, Is, PrependingTop
<1>5. PICK g : /\ TwoMore(h, g, b, h2[b], q, m)
               /\ Result(g, t, f, S2, Used(h, S) \cup {b, q}, Avail(h, t, f))
               /\ SameSize(h, g, DOMAIN h)
  BY <1>4, PrependTwo
<1>6. b \notin DOMAIN h /\ q \notin DOMAIN h
  BY <1>4, PrependTwo
<1> USE DEF PrependingTop
<1>7. g[t] = h[t]
  BY <1>1, <1>2, <1>5 DEF TwoMore, Elsewhere
<1>8. JoiningTop(g, t, f, S2, q, h2)
  <2>1. q \in Used(g, S2) /\ g[q].pinuse /\ q + g[q].size = t
    BY <1>2, <1>5 DEF Result, TwoMore, Is
  <2>2. Typed(h2) /\ DOMAIN h2 = DOMAIN g \ {t} /\ Elsewhere(g, h2, {q, t})
    BY <1>2, <1>5 DEF TwoMore, Elsewhere
  <2>3. Is(h2, q, g[q].size + g[t].size, FALSE, TRUE, h2[q].prev_foot)
    BY <1>5, <1>7 DEF TwoMore, Is
  <2> QED
    BY <2>1, <2>2, <2>3 DEF JoiningTop
<1>9. /\ Result(h2, q, f, S2, Used(g, S2) \ {q}, Avail(g, t, f))
      /\ SameSize(g, h2, DOMAIN g \ {q, t})
  <2>1. Heap(g, t, f, S2)
    BY <1>5 DEF Result
  <2> QED
    BY <1>8, <2>1, JoinTop
<1>10. Result(h2, q, f, S2, Used(h, S) \cup {b}, Avail(h, t, f))
  <2>1. q \notin Used(h, S)
    BY <1>6 DEF Used
  <2> QED
    BY <1>2, <1>5, <1>9, <2>1 DEF Result
<1>11. SameSize(h, h2, DOMAIN h \ {t})
  BY <1>6 DEF SameSize, Elsewhere
<1> QED
  BY <1>6, <1>10, <1>11

\* A heap that has a chunk more in use, which the program is given.
LEMMA GiveKeeps ==
  ASSUME IInv, NEW nb \in Requests, NEW p \in Nat, p \notin Used(chunks, seg), NEW A,
         Result(chunks', top', Foot', seg', Used(chunks, seg) \cup {p}, A),
         topsize' \in Nat \ {0},
         SameSize(chunks, chunks', Used(chunks, seg)), chunks'[p].size = nb,
         Roles(A, chunks', binned', dv', dvsize'),
         given' = given \cup {[at |-> p, size |-> nb]}, extra' = extra,
         trim_check' \in {TrimThreshold, None}, release_checks' = release_checks
  PROVE  IInv'
<1>1. nb >= nb /\ nb < nb + MinChunk
  OBVIOUS
<1>2. chunks'[p].size >= nb /\ chunks'[p].size < nb + MinChunk
  BY <1>1
<1>3. Blocks(Used(chunks, seg) \cup {p}, chunks', extra', given')
  BY <1>2, Given DEF IInv
<1> QED
  BY <1>3 DEF IInv, Result

\* prepend_alloc
LEMMA SysPrependKeeps ==
  ASSUME IInv, NEW nb \in Requests, SysPrepend(nb)
  PROVE  IInv'
<1> DEFINE m == SysSize(nb) - nb
<1>1. PICK b \in Regions(nb), sp \in seg :
       /\ PrependsTo(sp, b, SysSize(nb))
       /\ seg' = (seg \ {sp}) \cup {[sp EXCEPT !.base = b, !.size = @ + SysSize(nb)]}
       /\ LET oldfirst == sp.base
              q     == b + nb
              qsize == m
              joint == qsize + SizeOf(oldfirst)
              h     == Drop(chunks, oldfirst)
          IN \/ /\ oldfirst = top
                /\ chunks' = InUse(Header(h, q, joint, FALSE), b, nb)
                /\ top' = q /\ topsize' = joint
                /\ UNCHANGED <<binned, dv, dvsize>>
             \/ /\ oldfirst = dv
                /\ chunks' = InUse(FreeChunk(h, q, joint), b, nb)
                /\ dv' = q /\ dvsize' = joint
                /\ UNCHANGED <<binned, top, topsize>>
             \/ /\ oldfirst \notin {top, dv} /\ ~chunks[oldfirst].cinuse
                /\ chunks' = InUse(FreeWithPinuse(h, q, joint), b, nb)
                /\ binned' = (binned \ {oldfirst}) \cup {q}
                /\ UNCHANGED <<dv, dvsize, top, topsize>>
             \/ /\ chunks[oldfirst].cinuse
                /\ chunks' = InUse(FreeWithPinuse(chunks, q, qsize), b, nb)
                /\ binned' = binned \cup {q}
                /\ UNCHANGED <<dv, dvsize, top, topsize>>
       /\ Give(b, nb)
       /\ UNCHANGED <<trim_check, release_checks, extra>>
  BY DEF SysPrepend
<1> DEFINE n == sp.base
           q == b + nb
           joint == m + SizeOf(n)
<1>2. PICK s2 : s2 = [sp EXCEPT !.base = b, !.size = @ + SysSize(nb)]
  OBVIOUS
<1>3. PICK S2 : S2 = (seg \ {sp}) \cup {s2}
  OBVIOUS
<1>4. /\ seg' = S2 /\ trim_check' = trim_check /\ release_checks' = release_checks
      /\ extra' = extra /\ given' = given \cup {[at |-> b, size |-> nb]}
  BY <1>1, <1>2, <1>3 DEF Give
<1>5. Heap(chunks, top, Foot, seg) /\ Typed(chunks) /\ Segments(seg)
  BY DEF IInv, Heap
<1>6. /\ nb \in Nat /\ nb >= MinChunk /\ m \in Nat /\ m >= MinChunk /\ SysSize(nb) = nb + m
      /\ SysSize(nb) \in Nat /\ SysSize(nb) > 0
  BY SysSizeIs DEF TopFoot
<1>7. Fresh(seg, b, nb + m) /\ b \in Nat /\ b + (nb + m) <= Memory
  BY <1>6, RegionIs DEF Fresh
<1>8. /\ s2.base = b /\ s2.size = sp.size + (nb + m) /\ s2.at = sp.at
      /\ s2 \in [base : Nat, size : Nat \ {0}, at : Nat]
  <2>1. sp \in [base : Nat, size : Nat \ {0}, at : Nat]
    BY <1>5 DEF Segments
  <2>2. s2.base = b /\ s2.size = sp.size + SysSize(nb) /\ s2.at = sp.at
    BY <1>2, <2>1
  <2>3. sp.size + SysSize(nb) \in Nat \ {0} /\ SysSize(nb) = nb + m
    BY <1>6, <2>1
  <2>4. s2 \in [base : Nat, size : Nat \ {0}, at : Nat]
    BY <1>2, <1>7, <2>1, <2>3
  <2> QED
    BY <2>2, <2>3, <2>4
<1>9. n = b + (nb + m) /\ n \in Nat /\ q \in Nat /\ n = q + m
  BY <1>1, <1>6, <1>7 DEF PrependsTo
<1>10. Segments(S2)
  BY <1>3, <1>5, <1>7, <1>8, <1>9, Grown
<1>11. Before(seg, sp, b, nb, m, q, s2, S2)
  BY <1>3, <1>6, <1>7, <1>8, <1>9, <1>10 DEF Before
<1>12. /\ n \in DOMAIN chunks /\ n # Foot /\ chunks[n].pinuse
       /\ n # q /\ n # b /\ b # q /\ SizeOf(n) \in Nat /\ SizeOf(n) > 0 /\ n + SizeOf(n) <= Memory
  BY <1>5, <1>6, <1>7, <1>9, BasePinuse, SizeBound, HeapTypes DEF SizeOf
<1>13. /\ m <= Memory /\ m \in Nat \ {0} /\ joint \in Nat \ {0} /\ joint <= Memory /\ n # None /\ q # None
       /\ nb \in Nat \ {0} /\ TopFoot \in Nat
  BY <1>6, <1>7, <1>9, <1>12 DEF TopFoot
<1>14. b \notin DOMAIN chunks /\ q \notin DOMAIN chunks
  <2>1. PICK r : r = [size |-> nb, cinuse |-> TRUE, pinuse |-> TRUE, prev_foot |-> 0]
    OBVIOUS
  <2>2. r \in HeaderSet /\ r.size = nb /\ r.cinuse /\ r.pinuse
    BY <1>13, <2>1 DEF HeaderSet
  <2> QED
    BY <1>5, <1>11, <2>2, PrependTwo
<1>15. b \notin Used(chunks, seg) /\ trim_check' \in {TrimThreshold, None}
  BY <1>4, <1>14 DEF Used, IInv
<1>16. PICK h : h = Drop(chunks, n)
  OBVIOUS
<1>17. Dropped(chunks, h, n)
  BY <1>5, <1>16, DropIs
<1>18. /\ top \in Nat /\ topsize \in Nat /\ topsize > 0 /\ topsize = SizeOf(top) /\ Foot = top + topsize
       /\ top \notin Used(chunks, seg) \cup Avail(chunks, top, Foot)
  BY <1>5, Now, TopIs DEF Used, Avail, SizeOf
<1> HIDE DEF m, q, n, joint
<1>20. CASE /\ n = top
            /\ chunks' = InUse(Header(h, q, joint, FALSE), b, nb)
            /\ top' = q /\ topsize' = joint
            /\ binned' = binned /\ dv' = dv /\ dvsize' = dvsize
  <2>1. PICK g : g = Header(h, q, joint, FALSE)
    OBVIOUS
  <2>2. Has(h, g, q, joint, FALSE)
    <3>1. Typed(h)
      BY <1>17 DEF Dropped
    <3> QED
      BY <1>9, <1>13, <2>1, <3>1, HeaderIs
  <2>3. Wrote(g, chunks', b, nb, TRUE, q, g[q].pinuse, 0)
    <3>1. Typed(g) /\ chunks' = InUse(g, b, nb) /\ q = b + nb
      BY <1>20, <2>1, <2>2 DEF Has, q
    <3> QED
      BY <1>7, <1>13, <3>1, InUseIs
  <2>4. PrependingTop(chunks, b, nb, m, q, top, chunks')
    <3>1. joint = m + chunks[top].size /\ n = top
      BY <1>20 DEF joint, SizeOf
    <3>2. Typed(chunks') /\ DOMAIN chunks' = (DOMAIN chunks \cup {b, q}) \ {n}
      BY <1>12, <1>17, <2>2, <2>3 DEF Dropped, Has, Wrote
    <3>3. Elsewhere(chunks, chunks', {b, q, n})
      BY <1>12, <1>17, <2>2, <2>3 DEF Dropped, Has, Wrote, Elsewhere
    <3>4. Is(chunks', b, nb, TRUE, TRUE, chunks'[b].prev_foot)
      BY <2>3 DEF Wrote, Is
    <3>5. Is(chunks', q, joint, FALSE, TRUE, chunks'[q].prev_foot)
      BY <2>2, <2>3 DEF Has, Wrote, Is
    <3> QED
      BY <3>1, <3>2, <3>3, <3>4, <3>5 DEF PrependingTop
  <2>5. /\ Result(chunks', q, Foot, S2, Used(chunks, seg) \cup {b}, Avail(chunks, top, Foot))
        /\ SameSize(chunks, chunks', DOMAIN chunks \ {top})
    BY <1>5, <1>11, <1>20, <2>4, PrependTop DEF n
  <2>6. SameSize(chunks, chunks', Used(chunks, seg) \cup Avail(chunks, top, Foot))
    BY <2>5, <1>18 DEF SameSize, Used, Avail
  <2>7. Roles(Avail(chunks, top, Foot), chunks', binned', dv', dvsize')
    BY <1>20, <2>6 DEF IInv, Roles, SameSize
  <2>8. Foot' = Foot
    <3>1. joint = m + topsize /\ m \in Nat
      BY <1>6, <1>18, <1>20 DEF joint
    <3> QED
      BY <1>9, <1>18, <1>20, <3>1 DEF Foot
  <2>9. chunks'[b].size = nb
    BY <2>4 DEF PrependingTop, Is
  <2>10. SameSize(chunks, chunks', Used(chunks, seg))
    BY <2>6 DEF SameSize
  <2>11. topsize' \in Nat \ {0}
    BY <1>13, <1>20
  <2>12. Result(chunks', top', Foot', seg', Used(chunks, seg) \cup {b}, Avail(chunks, top, Foot))
    BY <1>4, <1>20, <2>5, <2>8
  <2> QED
    BY <1>4, <1>7, <1>15, <2>7, <2>9, <2>10, <2>11, <2>12, GiveKeeps
<1>21. ASSUME ~chunks[n].cinuse, n # top
       PROVE  n \in Avail(chunks, top, Foot) /\ n + SizeOf(n) \in DOMAIN chunks /\ chunks[n + SizeOf(n)].cinuse
              /\ n + SizeOf(n) \in Nat
              /\ ~chunks[n + SizeOf(n)].pinuse
  <2>1. n \in Avail(chunks, top, Foot)
    BY <1>12, <1>21 DEF Avail
  <2>2. n + SizeOf(n) \in DOMAIN chunks
    BY <2>1, Now
  <2> QED
    BY <1>5, <1>12, <1>21, <2>1, <2>2 DEF Heap, Tags, Forward, SizeOf, Avail, Typed
<1>22. ASSUME NEW g, Wrote(h, g, q, joint, FALSE, n + SizeOf(n), FALSE, joint),
              chunks' = InUse(g, b, nb), n \in Avail(chunks, top, Foot),
              top' = top, topsize' = topsize,
              Roles((Avail(chunks, top, Foot) \ {n}) \cup {q},
                    [x \in DOMAIN chunks \cup {q} |-> IF x = q THEN [size |-> joint] ELSE chunks[x]],
                    binned', dv', dvsize')
       PROVE  IInv'
  <2>1. n + SizeOf(n) \in DOMAIN chunks /\ n + SizeOf(n) \in Nat /\ chunks[n + SizeOf(n)].cinuse
    BY <1>18, <1>21, <1>22 DEF Avail
  <2>2. PICK e : e = n + SizeOf(n)
    OBVIOUS
  <2>3. e # n /\ e # b /\ e # q
    BY <1>9, <1>12, <1>14, <2>1, <2>2
  <2>4. Wrote(g, chunks', b, nb, TRUE, q, g[q].pinuse, 0)
    <3>1. Typed(g) /\ q = b + nb
      BY <1>22 DEF Wrote, q
    <3> QED
      BY <1>7, <1>13, <1>22, <3>1, InUseIs
  <2>5. Wrote(h, g, q, joint, FALSE, e, FALSE, joint)
    BY <1>22, <2>2
  <2>6. PrependingFree(chunks, b, nb, m, q, n, e, chunks')
    <3>1. joint = m + chunks[n].size
      BY DEF joint, SizeOf
    <3>2. e \in DOMAIN h /\ h[e] = chunks[e] /\ DOMAIN h = DOMAIN chunks \ {n}
      BY <1>17, <2>1, <2>2, <2>3 DEF Dropped, Elsewhere
    <3>3. Elsewhere(chunks, chunks', {b, q, n, e})
      BY <1>12, <1>14, <1>17, <2>3, <2>4, <2>5 DEF Dropped, Wrote, Elsewhere
    <3>4. Typed(chunks') /\ DOMAIN chunks' = (DOMAIN chunks \cup {b, q}) \ {n}
      BY <1>12, <1>14, <2>3, <2>4, <2>5, <3>2 DEF Wrote
    <3>5. Is(chunks', b, nb, TRUE, TRUE, chunks'[b].prev_foot)
      BY <2>4 DEF Wrote, Is
    <3>6. Is(chunks', q, joint, FALSE, TRUE, chunks'[q].prev_foot)
      BY <1>12, <2>4, <2>5 DEF Wrote, Is
    <3>7. Is(g, e, chunks[e].size, TRUE, FALSE, joint)
      BY <2>1, <2>2, <2>5, <3>2 DEF Wrote, Is
    <3>8. Is(chunks', e, chunks[e].size, TRUE, FALSE, joint)
      BY <2>3, <2>4, <3>7 DEF Wrote, Is, Elsewhere
    <3> QED
      BY <3>1, <3>3, <3>4, <3>5, <3>6, <3>8 DEF PrependingFree
  <2>7. /\ Result(chunks', top, Foot, S2, Used(chunks, seg) \cup {b}, (Avail(chunks, top, Foot) \ {n}) \cup {q})
        /\ SameSize(chunks, chunks', DOMAIN chunks \ {n})
    <3>1. n = sp.base /\ e = n + chunks[n].size
      BY <2>2 DEF n, SizeOf
    <3> QED
      BY <1>5, <1>11, <1>22, <2>6, <3>1, PrependFree
  <2>8. chunks'[b].size = nb /\ chunks'[q].size = joint
    BY <2>6 DEF PrependingFree, Is, joint, SizeOf
  <2>9. SameSize(chunks, chunks', Used(chunks, seg))
    BY <1>22, <2>7 DEF SameSize, Used, Avail
  <2>10. Roles((Avail(chunks, top, Foot) \ {n}) \cup {q}, chunks', binned', dv', dvsize')
    <3>1. \A x \in Avail(chunks, top, Foot) \ {n} : x \in DOMAIN chunks /\ chunks'[x].size = chunks[x].size
      BY <2>7 DEF SameSize, Avail
    <3> QED
      BY <1>14, <1>22, <2>8, <3>1 DEF Roles
  <2>11. Foot' = Foot /\ topsize' \in Nat \ {0}
    BY <1>18, <1>22 DEF Foot
  <2>12. Result(chunks', top', Foot', seg', Used(chunks, seg) \cup {b}, (Avail(chunks, top, Foot) \ {n}) \cup {q})
    BY <1>4, <1>22, <2>7, <2>11
  <2> QED
    BY <1>4, <1>7, <1>15, <2>8, <2>9, <2>10, <2>11, <2>12, GiveKeeps
<1>23. CASE /\ n = dv
            /\ chunks' = InUse(FreeChunk(h, q, joint), b, nb)
            /\ dv' = q /\ dvsize' = joint
            /\ binned' = binned /\ top' = top /\ topsize' = topsize
  <2>1. n \in Avail(chunks, top, Foot) /\ ~chunks[n].cinuse /\ n # top
    BY <1>13, <1>23 DEF IInv, Roles, Avail
  <2>2. PICK g : g = FreeChunk(h, q, joint)
    OBVIOUS
  <2>3. PICK e : e = n + SizeOf(n)
    OBVIOUS
  <2>4. e = q + joint
    BY <1>6, <1>9, <1>12, <2>3 DEF joint
  <2>5. Wrote(h, g, q, joint, FALSE, e, h[e].pinuse, joint)
    <3>1. Typed(h)
      BY <1>17 DEF Dropped
    <3> QED
      BY <1>9, <1>13, <2>2, <2>4, <3>1, FreeChunkIs
  <2>6. ~h[e].pinuse
    <3>1. e # n /\ e \in DOMAIN chunks /\ ~chunks[e].pinuse
      BY <1>9, <1>12, <1>21, <2>1, <2>3
    <3> QED
      BY <1>17, <3>1 DEF Dropped, Elsewhere
  <2>7. Wrote(h, g, q, joint, FALSE, n + SizeOf(n), FALSE, joint)
    BY <2>3, <2>5, <2>6 DEF Wrote, Is
  <2>8. PICK z : z = [x \in DOMAIN chunks \cup {q} |-> IF x = q THEN [size |-> joint] ELSE chunks[x]]
    OBVIOUS
  <2>9. z[q].size = joint
    BY <2>8
  <2>10. Roles((Avail(chunks, top, Foot) \ {n}) \cup {q}, z, binned', dv', dvsize')
    BY <1>13, <1>14, <1>23, <2>1, <2>9 DEF IInv, Roles, Avail
  <2> QED
    BY <1>22, <1>23, <2>1, <2>2, <2>7, <2>8, <2>10
<1>24. CASE /\ n \notin {top, dv} /\ ~chunks[n].cinuse
            /\ chunks' = InUse(FreeWithPinuse(h, q, joint), b, nb)
            /\ binned' = (binned \ {n}) \cup {q}
            /\ dv' = dv /\ dvsize' = dvsize /\ top' = top /\ topsize' = topsize
  <2>1. n \in Avail(chunks, top, Foot)
    BY <1>21, <1>24
  <2>2. PICK g : g = FreeWithPinuse(h, q, joint)
    OBVIOUS
  <2>3. PICK e : e = n + SizeOf(n)
    OBVIOUS
  <2>4. e = q + joint
    BY <1>6, <1>9, <1>12, <2>3 DEF joint
  <2>5. Wrote(h, g, q, joint, FALSE, n + SizeOf(n), FALSE, joint)
    <3>1. Typed(h)
      BY <1>17 DEF Dropped
    <3> QED
      BY <1>9, <1>13, <2>2, <2>3, <2>4, <3>1, FreeWithPinuseIs
  <2>8. PICK z : z = [x \in DOMAIN chunks \cup {q} |-> IF x = q THEN [size |-> joint] ELSE chunks[x]]
    OBVIOUS
  <2>9. \A x \in DOMAIN chunks : z[x] = chunks[x]
    BY <1>14, <2>8
  <2>10. Roles((Avail(chunks, top, Foot) \ {n}) \cup {q}, z, binned', dv', dvsize')
    BY <1>13, <1>14, <1>24, <2>1, <2>9 DEF IInv, Roles, Avail
  <2> QED
    BY <1>22, <1>24, <2>1, <2>2, <2>5, <2>8, <2>10
<1>25. CASE /\ chunks[n].cinuse
            /\ chunks' = InUse(FreeWithPinuse(chunks, q, m), b, nb)
            /\ binned' = binned \cup {q}
            /\ dv' = dv /\ dvsize' = dvsize /\ top' = top /\ topsize' = topsize
  <2>1. PICK g : g = FreeWithPinuse(chunks, q, m)
    OBVIOUS
  <2>2. Wrote(chunks, g, q, m, FALSE, n, FALSE, m)
    BY <1>5, <1>9, <1>13, <2>1, FreeWithPinuseIs
  <2>3. Wrote(g, chunks', b, nb, TRUE, q, g[q].pinuse, 0)
    <3>1. Typed(g) /\ chunks' = InUse(g, b, nb) /\ q = b + nb
      BY <1>25, <2>1, <2>2 DEF Wrote, q
    <3> QED
      BY <1>7, <1>13, <3>1, InUseIs
  <2>4. /\ Result(chunks', top, Foot, S2, Used(chunks, seg) \cup {b}, Avail(chunks, top, Foot) \cup {q})
        /\ SameSize(chunks, chunks', DOMAIN chunks) /\ chunks'[b].size = nb
    <3>1. n = sp.base /\ chunks[n].cinuse
      BY <1>25 DEF n
    <3>2. PrependingUsed(chunks, b, nb, m, q, n, chunks')
      BY <2>2, <2>3, <3>1 DEF PrependingUsed
    <3> QED
      BY <1>5, <1>11, <3>1, <3>2, PrependUsed
  <2>5. Roles(Avail(chunks, top, Foot) \cup {q}, chunks', binned', dv', dvsize')
    BY <1>13, <1>14, <1>25, <2>4 DEF IInv, Roles, SameSize, Avail
  <2>6. SameSize(chunks, chunks', Used(chunks, seg))
    BY <2>4 DEF SameSize, Used
  <2>7. Foot' = Foot /\ topsize' \in Nat \ {0}
    BY <1>18, <1>25 DEF Foot
  <2>8. Result(chunks', top', Foot', seg', Used(chunks, seg) \cup {b}, Avail(chunks, top, Foot) \cup {q})
    BY <1>4, <1>25, <2>4, <2>7
  <2> QED
    BY <1>4, <1>7, <1>15, <2>4, <2>5, <2>6, <2>7, <2>8, GiveKeeps
<1> QED
  BY <1>1, <1>16, <1>20, <1>23, <1>24, <1>25 DEF n, q, joint, m

\* Fenceposts P have been written.
Posted(h, h2, P) ==
  /\ Typed(h2) /\ DOMAIN h2 = DOMAIN h \cup P /\ Elsewhere(h, h2, P)
  /\ \A x \in P : Is(h2, x, 1, TRUE, TRUE, h2[x].prev_foot)

LEMMA FencedIs ==
  ASSUME NEW h, Typed(h), NEW first \in Nat, NEW end \in Nat,
         NEW h2, h2 = Fenced(h, first, end)
  PROVE  Posted(h, h2, first .. end - 2)
<1> DEFINE P == first .. end - 2
<1>1. PICK r : r = [size |-> 1, cinuse |-> TRUE, pinuse |-> TRUE, prev_foot |-> InUseFoot]
  OBVIOUS
<1>2. r \in HeaderSet /\ r.size = 1 /\ r.cinuse = TRUE /\ r.pinuse = TRUE
  BY <1>1 DEF HeaderSet, InUseFoot
<1>3. h2 = [a \in DOMAIN h \cup P |-> IF a \in P THEN r ELSE h[a]]
  BY <1>1 DEF Fenced
<1>4. \A x \in P : x \in Nat
  OBVIOUS
<1> HIDE DEF P
<1>5. Typed(h2) /\ DOMAIN h2 = DOMAIN h \cup P
  BY <1>2, <1>3, <1>4 DEF Typed
<1>6. Elsewhere(h, h2, P)
  BY <1>3 DEF Elsewhere
<1>7. \A x \in P : h2[x] = r /\ x \in DOMAIN h2
  BY <1>3
<1>8. \A x \in P : Is(h2, x, 1, TRUE, TRUE, h2[x].prev_foot)
  BY <1>2, <1>7 DEF Is
<1> QED
  BY <1>5, <1>6, <1>8 DEF Posted, P

\* add_segment
LEMMA SysAddSegmentKeeps ==
  ASSUME IInv, NEW nb \in Requests, SysAddSegment(nb)
  PROVE  IInv'
<1>1. Heap(chunks, top, Foot, seg) /\ Typed(chunks) /\ Segments(seg)
  BY DEF IInv, Heap
<1>2. PICK l \in seg : l.at = State /\ Holds(l, top) /\ Holds(l, Foot) /\ Foot + TopFoot = End(l)
  BY <1>1, TopIs
<1>3. /\ top \in Nat /\ topsize \in Nat /\ topsize > 0 /\ topsize = chunks[top].size
      /\ Foot \in DOMAIN chunks /\ Foot \in Nat /\ Foot # top /\ top \in DOMAIN chunks
      /\ Foot = top + topsize /\ ~chunks[top].cinuse
  BY <1>1, Now, TopIs
<1>4. (CHOOSE s \in seg : Holds(s, top)) = l
  <2>1. \A s \in seg : Holds(s, top) => s = l
    BY <1>1, <1>2, <1>3, SameSegment
  <2> QED
    BY <1>2, <2>1
<1>5. Latest = l
  <2>1. \A s \in seg : s.at = State => s = l
    BY <1>1, <1>2 DEF Heap, TopOK
  <2> QED
    BY <1>2, <2>1 DEF Latest
<1>6. PICK N : N = SysSize(nb)
  OBVIOUS
<1>7. PICK sp : sp = RecordAt(End(l))
  OBVIOUS
<1>8. PICK n : n = N - TopFoot
  OBVIOUS
<1>9. PICK g0 : g0 = Drop(chunks, Foot)
  OBVIOUS
<1>10. PICK g1 : g1 = Fenced(g0, sp + SegmentSize, End(l))
  OBVIOUS
<1>11. PICK g2 : g2 = InUse(g1, sp, SegmentSize)
  OBVIOUS
<1>12. PICK g3 : g3 = IF sp = top THEN g2 ELSE FreeWithPinuse(g2, top, sp - top)
  OBVIOUS
<1>13. PICK b \in Regions(nb) :
         /\ SplitTop(InitTop(g3, b, n), b, n, nb)
         /\ binned' = IF sp = top THEN binned ELSE binned \cup {top}
         /\ seg' = (seg \ {l}) \cup {[base |-> b, size |-> N, at |-> State], [l EXCEPT !.at = sp]}
         /\ trim_check' = TrimThreshold
         /\ UNCHANGED <<dv, dvsize, release_checks, extra>>
  BY <1>4, <1>5, <1>6, <1>7, <1>8, <1>9, <1>10, <1>11, <1>12 DEF SysAddSegment, Foot
<1>14. PICK g4 : g4 = InitTop(g3, b, n)
  OBVIOUS
<1>15. PICK s2 : s2 = [base |-> b, size |-> N, at |-> State]
  OBVIOUS
<1>16. PICK l2 : l2 = [l EXCEPT !.at = sp]
  OBVIOUS
<1>17. PICK S2 : S2 = (seg \ {l}) \cup {s2, l2}
  OBVIOUS
<1>18. /\ seg' = S2 /\ trim_check' \in {TrimThreshold, None} /\ dv' = dv /\ dvsize' = dvsize
       /\ release_checks' = release_checks /\ extra' = extra
  BY <1>13, <1>15, <1>16, <1>17
<1>19. /\ chunks' = InUse(Header(g4, b + nb, n - nb, FALSE), b, nb)
       /\ top' = b + nb /\ topsize' = n - nb /\ given' = given \cup {[at |-> b, size |-> nb]}
  BY <1>13, <1>14 DEF SplitTop, Give
<1>20. /\ nb \in Nat /\ N \in Nat /\ N > 0 /\ n \in Nat /\ n > nb /\ n > 0 /\ N = n + TopFoot
       /\ TopFoot \in Nat /\ TopFoot = SegmentSize + MinChunk
       /\ SegmentSize \in Nat /\ SegmentSize > 0 /\ MinChunk \in Nat /\ MinChunk >= 3
  BY <1>6, <1>8, SysSizeIs DEF TopFoot
<1>21. Fresh(seg, b, N) /\ b \in Nat
  BY <1>6, RegionIs DEF Fresh
<1>22. (sp = top /\ topsize < MinChunk) \/ (sp = Foot /\ topsize >= MinChunk)
  <2>1. End(l) - TopFoot = Foot
    BY <1>2, <1>3, <1>20
  <2>2. sp = IF Foot < top + MinChunk THEN top ELSE Foot
    BY <1>7, <2>1 DEF RecordAt
  <2> QED
    BY <1>3, <1>20, <2>2
<1>23. sp \in Nat /\ sp + SegmentSize \in Nat /\ End(l) \in Nat /\ sp >= top /\ sp <= Foot
  BY <1>2, <1>3, <1>20, <1>22
<1>24. PICK P : P = sp + SegmentSize .. End(l) - 2
  OBVIOUS
<1>25. \A x : x \in P <=> x \in Int /\ sp + SegmentSize <= x /\ x <= End(l) - 2
  BY <1>20, <1>23, <1>24
<1>26. /\ s2.base = b /\ s2.size = N /\ s2.at = State
       /\ s2 \in [base : Nat, size : Nat \ {0}, at : Nat]
  BY <1>15, <1>20, <1>21 DEF State
<1>27. /\ l2.base = l.base /\ l2.size = l.size /\ l2.at = sp
       /\ l2 \in [base : Nat, size : Nat \ {0}, at : Nat]
  <2>1. l \in [base : Nat, size : Nat \ {0}, at : Nat]
    BY <1>1 DEF Segments
  <2> QED
    BY <1>16, <1>23, <2>1
<1>28. Segments(S2)
  BY <1>1, <1>17, <1>21, <1>26, <1>27, Added
<1>29. \A x \in Nat : top <= x /\ x < End(l) => x # b /\ x # b + n
  <2>1. l.base <= top /\ l.base \in Nat
    BY <1>1, <1>2, <1>3, OneSegment
  <2>2. b + N <= l.base \/ End(l) <= b
    BY <1>21 DEF Fresh
  <2> QED
    BY <1>3, <1>20, <1>21, <1>23, <2>1, <2>2
<1>30. /\ top # b /\ top # b + n /\ sp # b /\ sp # b + n /\ Foot # b /\ Foot # b + n /\ b # b + n
       /\ sp \notin P /\ top \notin P /\ \A x \in P : x # b /\ x # b + n /\ x \in Nat
  BY <1>2, <1>3, <1>20, <1>21, <1>23, <1>25, <1>29
<1>31. Dropped(chunks, g0, Foot)
  BY <1>1, <1>9, DropIs
<1>32. Posted(g0, g1, P)
  BY <1>10, <1>23, <1>24, <1>31, FencedIs DEF Dropped
<1>33. Wrote(g1, g2, sp, SegmentSize, TRUE, sp + SegmentSize, g1[sp + SegmentSize].pinuse, 0)
  <2>1. Typed(g1) /\ SegmentSize \in Nat \ {0}
    BY <1>20, <1>32 DEF Posted
  <2> QED
    BY <1>11, <1>23, <2>1, InUseIs
<1>34. sp + SegmentSize \in P
  BY <1>2, <1>3, <1>20, <1>22, <1>25
<1>35. /\ Typed(g2) /\ DOMAIN g2 = (DOMAIN chunks \ {Foot}) \cup P \cup {sp}
       /\ Elsewhere(chunks, g2, {Foot, sp} \cup P)
       /\ Is(g2, sp, SegmentSize, TRUE, TRUE, g2[sp].prev_foot)
       /\ \A x \in P : Is(g2, x, 1, TRUE, TRUE, g2[x].prev_foot)
  <2>1. Typed(g2) /\ DOMAIN g2 = (DOMAIN chunks \ {Foot}) \cup P \cup {sp}
    BY <1>31, <1>32, <1>33 DEF Dropped, Posted, Wrote
  <2>2. Elsewhere(chunks, g2, {Foot, sp} \cup P)
    BY <1>31, <1>32, <1>33, <1>34 DEF Dropped, Posted, Wrote, Elsewhere
  <2>3. Is(g2, sp, SegmentSize, TRUE, TRUE, g2[sp].prev_foot)
    BY <1>33 DEF Wrote, Is
  <2>4. ASSUME NEW x \in P
        PROVE  Is(g2, x, 1, TRUE, TRUE, g2[x].prev_foot)
    <3>1. Is(g1, x, 1, TRUE, TRUE, g1[x].prev_foot) /\ x # sp
      BY <1>30, <1>32 DEF Posted
    <3>2. CASE x = sp + SegmentSize
      BY <1>33, <3>1, <3>2 DEF Wrote, Is
    <3>3. CASE x # sp + SegmentSize
      BY <1>33, <3>1, <3>3 DEF Wrote, Elsewhere, Is
    <3> QED
      BY <3>2, <3>3
  <2> QED
    BY <2>1, <2>2, <2>3, <2>4
<1>36. /\ Typed(g3) /\ DOMAIN g3 = (DOMAIN chunks \ {Foot}) \cup P \cup {sp}
       /\ Elsewhere(chunks, g3, {top, Foot, sp} \cup P)
       /\ sp # top => Is(g3, top, topsize, FALSE, TRUE, g3[top].prev_foot)
       /\ Is(g3, sp, SegmentSize, TRUE, sp = top, g3[sp].prev_foot)
       /\ sp # top => g3[sp].prev_foot = topsize
       /\ \A x \in P : Is(g3, x, 1, TRUE, TRUE, g3[x].prev_foot)
  <2>1. CASE sp = top
    BY <1>12, <1>35, <2>1 DEF Elsewhere, Is
  <2>2. CASE sp # top
    <3>1. sp - top = topsize /\ sp = top + topsize /\ sp = Foot
      BY <1>3, <1>22, <2>2
    <3>2. topsize <= Memory
      BY <1>1, <1>3, SizeBound
    <3>3. g3 = FreeWithPinuse(g2, top, topsize)
      BY <1>12, <2>2, <3>1
    <3>4. Wrote(g2, g3, top, topsize, FALSE, sp, FALSE, topsize)
      <4>1. Typed(g2) /\ top \in Nat /\ topsize \in Nat \ {0}
        BY <1>3, <1>35
      <4> QED
        BY <3>1, <3>2, <3>3, <4>1, FreeWithPinuseIs
    <3>5. top \in DOMAIN g2
      BY <1>3, <1>35
    <3>6. Typed(g3) /\ DOMAIN g3 = (DOMAIN chunks \ {Foot}) \cup P \cup {sp}
      BY <1>35, <3>4, <3>5 DEF Wrote
    <3>7. Elsewhere(chunks, g3, {top, Foot, sp} \cup P)
      BY <1>35, <3>4, <3>5 DEF Wrote, Elsewhere
    <3>8. Is(g3, top, topsize, FALSE, TRUE, g3[top].prev_foot)
      BY <3>4 DEF Wrote, Is
    <3>9. Is(g3, sp, SegmentSize, TRUE, sp = top, g3[sp].prev_foot) /\ g3[sp].prev_foot = topsize
      BY <1>35, <2>2, <3>4 DEF Wrote, Is
    <3>10. \A x \in P : Is(g3, x, 1, TRUE, TRUE, g3[x].prev_foot)
      BY <1>30, <1>35, <3>4 DEF Wrote, Is, Elsewhere
    <3> QED
      BY <3>6, <3>7, <3>8, <3>9, <3>10
  <2> QED
    BY <2>1, <2>2
<1>37. Topped(g3, g4, b, n, b + n)
  BY <1>14, <1>20, <1>21, <1>36, InitTopIs
<1>38. Adding(chunks, top, Foot, seg, l, sp, P, b, n, s2, l2, S2, b + n, g4)
  <2>1. Typed(g4) /\ DOMAIN g4 = (DOMAIN chunks \ {Foot}) \cup {sp} \cup P \cup {b, b + n}
    BY <1>36, <1>37 DEF Topped
  <2>2. Elsewhere(chunks, g4, {top, Foot, sp, b, b + n} \cup P)
    BY <1>36, <1>37 DEF Topped, Elsewhere
  <2>3. \A x \in {top, sp} \cup P : x # b /\ x # b + n
    BY <1>30
  <2>4. \A x \in {sp} \cup P : x \in DOMAIN g3 /\ g4[x] = g3[x]
    BY <1>36, <1>37, <2>3 DEF Topped, Elsewhere
  <2>5. sp # top => Is(g4, top, topsize, FALSE, TRUE, g4[top].prev_foot)
    BY <1>36, <1>37, <2>3 DEF Topped, Elsewhere, Is
  <2>6. Is(g4, sp, SegmentSize, TRUE, sp = top, g4[sp].prev_foot)
    BY <1>36, <2>1, <2>4 DEF Is
  <2>7. sp # top => g4[sp].prev_foot = topsize
    BY <1>36, <2>4
  <2>8. \A x \in P : Is(g4, x, 1, TRUE, TRUE, g4[x].prev_foot)
    BY <1>36, <2>1, <2>4 DEF Is
  <2>9. Is(g4, b, n, FALSE, TRUE, g4[b].prev_foot) /\ Is(g4, b + n, TopFoot, FALSE, FALSE, g4[b + n].prev_foot)
    BY <1>37 DEF Topped, Is
  <2>10. \A r : r \in S2 <=> (r \in seg /\ r # l) \/ r = s2 \/ r = l2
    BY <1>17
  <2> QED
    BY <1>2, <1>3, <1>20, <1>21, <1>22, <1>25, <1>26, <1>27, <1>28,
       <2>1, <2>2, <2>5, <2>6, <2>7, <2>8, <2>9, <2>10 DEF Adding
<1>39. PICK A : A = Avail(chunks, top, Foot) \cup (IF sp = top THEN {} ELSE {top})
  OBVIOUS
<1>40. /\ Result(g4, b, b + n, S2, Used(chunks, seg), A)
       /\ SameSize(chunks, g4, DOMAIN chunks \ {top, Foot})
       /\ b \notin DOMAIN chunks
  BY <1>1, <1>38, <1>39, AddSegment
<1>41. g4[b].size = n
  BY <1>37 DEF Topped, Is
<1>42. SameSize(chunks, g4, Used(chunks, seg) \cup Avail(chunks, top, Foot))
  BY <1>40, Now DEF SameSize
<1>43. Roles(A, g4, binned', dv', dvsize')
  <2>1. top # dv /\ top \notin binned
    BY Now DEF IInv, Roles
  <2>2. binned' = binned \cup (IF sp = top THEN {} ELSE {top})
    BY <1>13
  <2> QED
    BY <1>18, <1>39, <1>42, <2>1, <2>2 DEF IInv, Roles, SameSize
<1>44. SameSize(chunks, g4, Used(chunks, seg))
  BY <1>42 DEF SameSize
<1> QED
  BY <1>18, <1>19, <1>20, <1>40, <1>41, <1>43, <1>44, SplitTopKeeps

------------------------------------------------------------------------------
\* internal_realloc.

\* Chunk p has size s and is in use, and so says the chunk q behind it.
Marked(h, h2, p, s, q) ==
  /\ Typed(h2) /\ DOMAIN h2 = DOMAIN h /\ Elsewhere(h, h2, {p, q})
  /\ Is(h2, p, s, TRUE, h[p].pinuse, h[p].prev_foot)
  /\ Is(h2, q, h[q].size, h[q].cinuse, TRUE, 0)

LEMMA SetInuseIs ==
  ASSUME NEW h, Typed(h), NEW p \in DOMAIN h, NEW s \in Nat \ {0}, NEW q, q = p + s, q \in DOMAIN h,
         NEW h2, h2 = SetInuse(h, p, s)
  PROVE  Marked(h, h2, p, s, q)
<1>1. p \in Nat /\ p # q /\ h[p] \in HeaderSet /\ h[q] \in HeaderSet
  BY DEF Typed
<1>2. PICK r : r = [h[p] EXCEPT !.size = s, !.cinuse = TRUE]
  OBVIOUS
<1>3. /\ r \in HeaderSet /\ r.size = s /\ r.cinuse /\ r.pinuse = h[p].pinuse
      /\ r.prev_foot = h[p].prev_foot
  BY <1>1, <1>2 DEF HeaderSet
<1>4. PICK u : u = [h[q] EXCEPT !.pinuse = TRUE, !.prev_foot = 0]
  OBVIOUS
<1>5. /\ u \in HeaderSet /\ u.size = h[q].size /\ u.cinuse = h[q].cinuse /\ u.pinuse
      /\ u.prev_foot = 0
  <2>1. 0 \in 0 .. Memory
    OBVIOUS
  <2>2. u \in HeaderSet
    BY <1>1, <1>4, <2>1 DEF HeaderSet
  <2> QED
    BY <1>1, <1>4, <2>2 DEF HeaderSet
<1>6. h2 = [h EXCEPT ![p].size = s, ![p].cinuse = TRUE, ![q].pinuse = TRUE, ![q].prev_foot = 0]
  BY DEF SetInuse, InUseFoot
<1>7. DOMAIN h2 = DOMAIN h
  BY <1>6
<1>8. \A x \in DOMAIN h \ {p, q} : h2[x] = h[x]
  BY <1>6
<1>9. h2[p] = r
  BY <1>1, <1>2, <1>6
<1>10. h2[q] = u
  BY <1>1, <1>4, <1>6
<1>11. Typed(h2)
  BY <1>3, <1>5, <1>7, <1>8, <1>9, <1>10 DEF Typed
<1> QED
  BY <1>3, <1>5, <1>7, <1>8, <1>9, <1>10, <1>11 DEF Marked, Elsewhere, Is

\* internal_realloc in place
LEMMA ReallocShrinkKeeps ==
  ASSUME IInv, NEW b \in given, NEW nb \in Resizes, ReallocShrink(b, nb)
  PROVE  IInv'
<1>1. Heap(chunks, top, Foot, seg) /\ Typed(chunks) /\ Blocks(Used(chunks, seg), chunks, extra, given)
  BY DEF IInv, Heap
<1>2. PICK a : a = b.at
  OBVIOUS
<1>3. PICK rest : rest = chunks[a].size - nb
  OBVIOUS
<1>4. PICK q : q = a + nb
  OBVIOUS
<1>5. /\ rest >= 0
      /\ IF rest >= MinChunk
         THEN chunks' = SetInuse(InUseWhole(chunks, q, rest), a, nb)
         ELSE chunks' = chunks
      /\ extra' = extra \cup SplitOff(q, rest)
      /\ given' = (given \ {b}) \cup {[b EXCEPT !.size = nb]}
      /\ UNCHANGED <<freeVars, sysVars>>
  BY <1>2, <1>3, <1>4 DEF ReallocShrink, SizeOf, Resize
<1>6. /\ binned' = binned /\ dv' = dv /\ dvsize' = dvsize /\ top' = top /\ topsize' = topsize
      /\ seg' = seg /\ trim_check' = trim_check /\ release_checks' = release_checks /\ Foot' = Foot
  BY <1>5 DEF freeVars, sysVars, Foot
<1>7. /\ a \in Used(chunks, seg) /\ a \in DOMAIN chunks /\ a \in Nat
      /\ chunks[a].size \in Nat /\ chunks[a].size >= MinChunk /\ a + chunks[a].size \in DOMAIN chunks
      /\ chunks[a].cinuse
  BY <1>1, <1>2, Now DEF Blocks, SizeOf
<1>8. nb \in Nat /\ nb >= MinChunk /\ nb > 0
  OBVIOUS
<1>9. CASE rest < MinChunk
  <2>1. chunks' = chunks /\ extra' = extra
    BY <1>3, <1>5, <1>7, <1>8, <1>9 DEF SplitOff
  <2>2. SameSize(chunks, chunks, Used(chunks, seg) \ {b.at})
    BY DEF SameSize
  <2>3. chunks[b.at].size >= nb /\ chunks[b.at].size < nb + MinChunk
    BY <1>2, <1>3, <1>5, <1>7, <1>8, <1>9
  <2>4. Blocks(Used(chunks, seg), chunks, extra, given')
    BY <1>1, <1>5, <2>2, <2>3, Regiven
  <2> QED
    BY <1>1, <1>6, <2>1, <2>4 DEF IInv
<1>10. CASE rest >= MinChunk
  <2>1. PICK n : n = a + chunks[a].size
    OBVIOUS
  <2>2. n = q + rest /\ q \in Nat /\ rest \in Nat \ {0} /\ q # a /\ n # a /\ q # n
    BY <1>3, <1>4, <1>7, <1>8, <1>10, <2>1
  <2>3. PICK g : g = InUseWhole(chunks, q, rest)
    OBVIOUS
  <2>4. Wrote(chunks, g, q, rest, TRUE, n, TRUE, 0)
    BY <1>1, <2>2, <2>3, InUseWholeIs
  <2>5. Marked(g, chunks', a, nb, q)
    <3>1. Typed(g) /\ a \in DOMAIN g /\ q \in DOMAIN g
      BY <1>7, <2>4 DEF Wrote
    <3>2. chunks' = SetInuse(g, a, nb) /\ nb \in Nat \ {0}
      BY <1>5, <1>8, <1>10, <2>3
    <3> QED
      BY <1>4, <3>1, <3>2, SetInuseIs
  <2>6. Cutting(chunks, top, Foot, seg, a, nb, n, q, chunks')
    <3>1. rest = chunks[a].size - nb /\ chunks[a].size - nb >= MinChunk
      BY <1>3, <1>10
    <3>2. g[a] = chunks[a] /\ n \in DOMAIN chunks
      BY <1>7, <2>1, <2>2, <2>4 DEF Wrote, Elsewhere
    <3>3. Typed(chunks') /\ DOMAIN chunks' = DOMAIN chunks \cup {q} /\ Elsewhere(chunks, chunks', {a, q, n})
      BY <2>4, <2>5 DEF Wrote, Marked, Elsewhere
    <3>4. Is(chunks', a, nb, TRUE, chunks[a].pinuse, chunks[a].prev_foot)
      BY <2>5, <3>2 DEF Marked, Is
    <3>5. Is(chunks', q, rest, TRUE, TRUE, chunks'[q].prev_foot)
      BY <2>2, <2>4, <2>5 DEF Wrote, Marked, Is
    <3>6. Is(chunks', n, chunks[n].size, chunks[n].cinuse, TRUE, chunks'[n].prev_foot)
      BY <2>2, <2>4, <2>5, <3>2 DEF Wrote, Marked, Is, Elsewhere
    <3> QED
      BY <1>4, <1>7, <1>8, <2>1, <3>1, <3>3, <3>4, <3>5, <3>6 DEF Cutting
  <2>7. /\ Result(chunks', top, Foot, seg, Used(chunks, seg) \cup {q}, Avail(chunks, top, Foot))
        /\ SameSize(chunks, chunks', DOMAIN chunks \ {a})
        /\ q \notin DOMAIN chunks
    BY <1>1, <2>6, Cut
  <2>8. chunks'[a].size = nb
    BY <2>5 DEF Marked, Is
  <2>9. Blocks(Used(chunks, seg) \cup {q}, chunks', extra', given')
    <3>1. SameSize(chunks, chunks', Used(chunks, seg) \ {b.at})
      BY <1>2, <2>7 DEF SameSize, Used
    <3>2. chunks'[b.at].size >= nb /\ chunks'[b.at].size < nb + MinChunk
      BY <1>2, <1>8, <2>8
    <3>3. extra' = extra \cup {q} /\ q \notin Used(chunks, seg)
      BY <1>5, <1>10, <2>7 DEF SplitOff, Used
    <3>4. given' = (given \ {b}) \cup {[b EXCEPT !.size = nb]}
      BY <1>5
    <3> QED
      BY <1>1, <3>1, <3>2, <3>3, <3>4, Regiven
  <2>10. Roles(Avail(chunks, top, Foot), chunks', binned', dv', dvsize')
    <3>1. \A x \in Avail(chunks, top, Foot) : x \in DOMAIN chunks \ {a}
      BY <1>7 DEF Avail
    <3> QED
      BY <1>6, <2>7, <3>1 DEF IInv, Roles, SameSize
  <2> QED
    BY <1>6, <2>7, <2>9, <2>10 DEF IInv, Result
<1> QED
  BY <1>3, <1>7, <1>8, <1>9, <1>10

LEMMA ReallocIntoTopKeeps ==
  ASSUME IInv, NEW b \in given, NEW nb \in Resizes, ReallocIntoTop(b, nb)
  PROVE  IInv'
<1>1. Heap(chunks, top, Foot, seg) /\ Typed(chunks) /\ Blocks(Used(chunks, seg), chunks, extra, given)
  BY DEF IInv, Heap
<1>2. PICK a : a = b.at
  OBVIOUS
<1>3. PICK q : q = a + nb
  OBVIOUS
<1>4. PICK z : z = (chunks[a].size + topsize) - nb
  OBVIOUS
<1>5. /\ a + chunks[a].size = top
      /\ chunks[a].size < nb /\ chunks[a].size + topsize > nb
      /\ chunks' = SetInuse(Header(Drop(chunks, top), q, z, FALSE), a, nb)
      /\ top' = q /\ topsize' = z
      /\ given' = (given \ {b}) \cup {[b EXCEPT !.size = nb]}
      /\ binned' = binned /\ dv' = dv /\ dvsize' = dvsize /\ extra' = extra
      /\ seg' = seg /\ trim_check' = trim_check /\ release_checks' = release_checks
  BY <1>2, <1>3, <1>4 DEF ReallocIntoTop, SizeOf, After, Resize, sysVars
<1>6. /\ a \in Used(chunks, seg) /\ a \in DOMAIN chunks /\ a \in Nat /\ a # top
      /\ chunks[a].size \in Nat /\ chunks[a].size >= MinChunk /\ chunks[a].cinuse
  BY <1>1, <1>2, Now DEF Blocks, SizeOf
<1>7. nb \in Nat /\ nb >= MinChunk /\ nb > 0 /\ nb \in Nat \ {0}
  OBVIOUS
<1>8. topsize \in Nat /\ topsize > 0 /\ topsize = chunks[top].size /\ top \in Nat /\ Foot = top + topsize
  BY <1>1, Now, TopIs
<1>9. /\ z \in Nat \ {0} /\ z > 0 /\ q \in Nat /\ q # a /\ q # top
      /\ z = chunks[a].size + chunks[top].size - nb /\ Foot' = Foot
  BY <1>3, <1>4, <1>5, <1>6, <1>7, <1>8 DEF Foot
<1>10. PICK g1 : g1 = Drop(chunks, top)
  OBVIOUS
<1>11. PICK g2 : g2 = Header(g1, q, z, FALSE)
  OBVIOUS
<1>12. Dropped(chunks, g1, top)
  BY <1>1, <1>10, DropIs
<1>13. Has(g1, g2, q, z, FALSE)
  <2>1. Typed(g1)
    BY <1>12 DEF Dropped
  <2> QED
    BY <1>9, <1>11, <2>1, HeaderIs
<1>14. Marked(g2, chunks', a, nb, q)
  <2>1. Typed(g2) /\ a \in DOMAIN g2 /\ q \in DOMAIN g2
    BY <1>6, <1>12, <1>13 DEF Dropped, Has
  <2>2. chunks' = SetInuse(g2, a, nb)
    BY <1>5, <1>10, <1>11
  <2> QED
    BY <1>3, <1>7, <2>1, <2>2, SetInuseIs
<1>15. ShiftingTop(chunks, top, Foot, seg, a, nb, q, chunks')
  <2>1. g2[a] = chunks[a]
    BY <1>6, <1>9, <1>12, <1>13 DEF Dropped, Has, Elsewhere
  <2>2. /\ Typed(chunks') /\ DOMAIN chunks' = (DOMAIN chunks \ {top}) \cup {q}
        /\ Elsewhere(chunks, chunks', {a, top, q})
    BY <1>12, <1>13, <1>14 DEF Dropped, Has, Marked, Elsewhere
  <2>3. Is(chunks', a, nb, TRUE, chunks[a].pinuse, chunks[a].prev_foot)
    BY <1>14, <2>1 DEF Marked, Is
  <2>4. Is(chunks', q, z, FALSE, TRUE, chunks'[q].prev_foot)
    BY <1>13, <1>14 DEF Has, Marked, Is
  <2>5. nb < chunks[a].size + chunks[top].size /\ nb > chunks[a].size
    BY <1>5, <1>6, <1>7, <1>8
  <2>6. Is(chunks', q, chunks[a].size + chunks[top].size - nb, FALSE, TRUE, chunks'[q].prev_foot)
    BY <1>9, <2>4
  <2> QED
    BY <1>3, <1>5, <1>6, <1>7, <2>2, <2>3, <2>5, <2>6 DEF ShiftingTop
<1>16. /\ Result(chunks', q, Foot, seg, Used(chunks, seg), Avail(chunks, top, Foot))
       /\ SameSize(chunks, chunks', DOMAIN chunks \ {a, top})
  BY <1>1, <1>15, ShiftTop
<1>17. chunks'[a].size = nb
  BY <1>14 DEF Marked, Is
<1>18. Blocks(Used(chunks, seg), chunks', extra, given')
  <2>1. SameSize(chunks, chunks', Used(chunks, seg) \ {b.at})
    BY <1>2, <1>16, Now DEF SameSize
  <2>2. chunks'[b.at].size >= nb /\ chunks'[b.at].size < nb + MinChunk
    BY <1>2, <1>7, <1>17
  <2>3. given' = (given \ {b}) \cup {[b EXCEPT !.size = nb]}
    BY <1>5
  <2> QED
    BY <1>1, <2>1, <2>2, <2>3, Regiven
<1>19. Roles(Avail(chunks, top, Foot), chunks', binned', dv', dvsize')
  <2>1. \A x \in Avail(chunks, top, Foot) : x \in DOMAIN chunks \ {a, top}
    BY <1>6 DEF Avail
  <2> QED
    BY <1>5, <1>16, <2>1 DEF IInv, Roles, SameSize
<1> QED
  BY <1>5, <1>9, <1>16, <1>18, <1>19 DEF IInv, Result

------------------------------------------------------------------------------
\* mspace_free.

\* The chunk has joined the one before it, if that was free.
Rejoined(h, h1, a, p, size) ==
  /\ Typed(h1) /\ DOMAIN h1 = (DOMAIN h \ {a}) \cup {p} /\ Elsewhere(h, h1, {a, p})
  /\ Is(h1, p, size, TRUE, TRUE, h1[p].prev_foot)

\* What is freed begins where the free chunk before it does, if there is one.
LEMMA FirstIs ==
  ASSUME IInv, NEW a \in Used(chunks, seg)
  PROVE  /\ First(a) \in DOMAIN chunks /\ First(a) \in Nat /\ First(a) <= a
         /\ Joined(a) \in Nat /\ Joined(a) >= MinChunk /\ Joined(a) <= Memory
         /\ First(a) + Joined(a) = After(a)
         /\ After(a) \in DOMAIN chunks /\ After(a) \in Nat /\ After(a) > a /\ After(a) # Foot
         /\ chunks[First(a)].pinuse
         /\ First(a) = a \/ First(a) \in Avail(chunks, top, Foot)
         /\ First(a) # top /\ First(a) # Foot
<1>1. Heap(chunks, top, Foot, seg)
  BY DEF IInv
<1>2. /\ a \in DOMAIN chunks /\ a \in Nat /\ SizeOf(a) \in Nat /\ SizeOf(a) > 0 /\ SizeOf(a) >= MinChunk
      /\ a + SizeOf(a) \in DOMAIN chunks /\ a # top /\ a # Foot
  BY Now
<1>3. After(a) = a + SizeOf(a) /\ After(a) # Foot /\ After(a) <= Memory
  BY <1>1, <1>2, TopIs, SizeBound DEF After, SizeOf
<1>4. CASE chunks[a].pinuse
  BY <1>2, <1>3, <1>4 DEF First, Joined
<1>5. CASE ~chunks[a].pinuse
  <2>1. First(a) = a - chunks[a].prev_foot /\ chunks[a].prev_foot \in Nat
    BY <1>1, <1>2, <1>5, HeapTypes DEF First
  <2>2. /\ First(a) \in DOMAIN chunks /\ First(a) # top /\ First(a) # Foot
        /\ ~chunks[First(a)].cinuse /\ chunks[First(a)].size = chunks[a].prev_foot
    BY <1>1, <1>2, <1>5, <2>1 DEF Heap, Tags, Back
  <2>3. First(a) \in Avail(chunks, top, Foot)
    BY <2>2 DEF Avail
  <2>4. First(a) \in Nat /\ chunks[First(a)].pinuse
    BY <1>1, <2>2, HeapTypes DEF Heap, Tags, FreePinuse
  <2>5. Joined(a) = SizeOf(a) + chunks[a].prev_foot
    BY <1>2, <1>3, <2>1 DEF Joined
  <2> QED
    BY <1>2, <1>3, <2>1, <2>2, <2>3, <2>4, <2>5
<1> QED
  BY <1>4, <1>5

\* Then its own header is gone.
LEMMA HeadersIs ==
  ASSUME IInv, NEW a \in Used(chunks, seg)
  PROVE  /\ Typed(Headers(a)) /\ DOMAIN Headers(a) = (DOMAIN chunks \ {a}) \cup {First(a)}
         /\ \A x \in DOMAIN Headers(a) : Headers(a)[x] = chunks[x]
<1>1. Typed(chunks) /\ First(a) \in DOMAIN chunks /\ a \in DOMAIN chunks
  BY FirstIs, Now
<1>2. CASE First(a) = a
  BY <1>1, <1>2 DEF Headers
<1>3. CASE First(a) # a
  <2>1. Headers(a) = Drop(chunks, a)
    BY <1>3 DEF Headers
  <2>2. Dropped(chunks, Headers(a), a)
    BY <1>1, <2>1, DropIs
  <2> QED
    BY <1>1, <1>3, <2>2 DEF Dropped, Elsewhere
<1> QED
  BY <1>2, <1>3

\* It is as if the two had been one chunk in use.
LEMMA Rejoin ==
  ASSUME IInv, NEW a \in Used(chunks, seg)
  PROVE  \E h1 : /\ Rejoined(chunks, h1, a, First(a), Joined(a))
                 /\ Result(h1, top, Foot, seg, (Used(chunks, seg) \ {a}) \cup {First(a)},
                           Avail(chunks, top, Foot) \ {First(a)})
<1>1. Heap(chunks, top, Foot, seg) /\ Typed(chunks)
  BY DEF IInv, Heap
<1>2. PICK p : p = First(a)
  OBVIOUS
<1>3. PICK size : size = Joined(a)
  OBVIOUS
<1>4. /\ p \in DOMAIN chunks /\ p \in Nat /\ size \in Nat \ {0} /\ a \in DOMAIN chunks
      /\ p = a \/ p \in Avail(chunks, top, Foot)
  BY <1>2, <1>3, FirstIs, Now
<1>5. p + size = a + chunks[a].size
  BY <1>2, <1>3, FirstIs DEF After, SizeOf
<1>6. CASE p = a
  <2>1. size = chunks[a].size /\ chunks[a].cinuse /\ chunks[a].pinuse
    <3>1. chunks[a].size \in Nat /\ a \in Nat /\ chunks[a].cinuse
      BY Now DEF SizeOf
    <3>2. chunks[a].pinuse
      BY <1>2, <1>6, FirstIs
    <3>3. size = chunks[a].size
      BY <1>4, <1>5, <1>6, <3>1
    <3> QED
      BY <3>1, <3>2, <3>3
  <2>2. Rejoined(chunks, chunks, a, p, size)
    BY <1>1, <1>4, <1>6, <2>1 DEF Rejoined, Elsewhere, Is
  <2>3. Result(chunks, top, Foot, seg, (Used(chunks, seg) \ {a}) \cup {p}, Avail(chunks, top, Foot) \ {p})
    BY <1>1, <1>6, Now DEF Result
  <2> QED
    BY <1>2, <1>3, <2>2, <2>3
<1>7. CASE p # a
  <2>1. p \in Avail(chunks, top, Foot)
    BY <1>4, <1>7
  <2>2. a = p + chunks[p].size
    <3>1. ~chunks[a].pinuse /\ p = a - chunks[a].prev_foot
      BY <1>2, <1>7 DEF First
    <3>2. a # Foot /\ a \in Nat /\ chunks[a].prev_foot \in Nat
      BY <1>1, <1>4, Now, HeapTypes
    <3>3. chunks[p].size = chunks[a].prev_foot
      BY <1>1, <1>4, <3>1, <3>2 DEF Heap, Tags, Back
    <3> QED
      BY <3>1, <3>2, <3>3
  <2>3. PICK g1 : g1 = Drop(chunks, a)
    OBVIOUS
  <2>4. PICK h1 : h1 = With(g1, p, [size |-> size, cinuse |-> TRUE, pinuse |-> TRUE, prev_foot |-> 0])
    OBVIOUS
  <2>5. Dropped(chunks, g1, a)
    BY <1>1, <2>3, DropIs
  <2>6. Set(g1, h1, p, size, TRUE, TRUE, 0)
    <3>1. Typed(g1) /\ TRUE \in BOOLEAN /\ 0 \in 0 .. Memory
      BY <2>5 DEF Dropped
    <3> QED
      BY <1>4, <2>4, <3>1, WithIs
  <2>7. Rejoined(chunks, h1, a, p, size)
    BY <2>5, <2>6 DEF Rejoined, Dropped, Set, Elsewhere, Is
  <2>8. size = chunks[p].size + chunks[a].size
    <3>1. chunks[p].size \in Nat /\ chunks[a].size \in Nat /\ a \in Nat
      BY <1>1, <1>4, HeapTypes
    <3> QED
      BY <1>4, <1>5, <2>2, <3>1
  <2>9. JoiningBack(chunks, top, Foot, seg, p, a, h1)
    <3>1. DOMAIN h1 = DOMAIN chunks \ {a} /\ Elsewhere(chunks, h1, {p, a}) /\ Typed(h1)
      BY <1>4, <1>7, <2>7 DEF Rejoined, Elsewhere
    <3>2. Is(h1, p, chunks[p].size + chunks[a].size, TRUE, TRUE, h1[p].prev_foot)
      BY <2>7, <2>8 DEF Rejoined
    <3> QED
      BY <2>1, <2>2, <3>1, <3>2 DEF JoiningBack
  <2>10. Result(h1, top, Foot, seg, (Used(chunks, seg) \ {a}) \cup {p}, Avail(chunks, top, Foot) \ {p})
    BY <1>1, <2>9, AbsorbBack
  <2> QED
    BY <1>2, <1>3, <2>7, <2>10
<1> QED
  BY <1>6, <1>7

\* A chunk before one in use becomes free.
LEMMA FreeAlone ==
  ASSUME IInv, NEW a \in Used(chunks, seg), NEW p, p = First(a), chunks[After(a)].cinuse,
         NEW h2, Wrote(Headers(a), h2, p, Joined(a), FALSE, After(a), FALSE, Joined(a))
  PROVE  /\ Result(h2, top, Foot, seg, Used(chunks, seg) \ {a}, Avail(chunks, top, Foot) \cup {p})
         /\ SameSize(chunks, h2, DOMAIN chunks \ {a, p})
         /\ h2[p].size = Joined(a)
<1>1. PICK size : size = Joined(a)
  OBVIOUS
<1>2. PICK n : n = After(a)
  OBVIOUS
<1>3. PICK hd : hd = Headers(a)
  OBVIOUS
<1>4. /\ p \in DOMAIN chunks /\ p \in Nat /\ size \in Nat /\ n = p + size /\ n \in DOMAIN chunks /\ n # a /\ n # p
      /\ p <= a /\ a \in Nat /\ size > 0
      /\ p = a \/ p \in Avail(chunks, top, Foot)
  BY <1>1, <1>2, FirstIs, Now
<1>5. /\ Typed(hd) /\ DOMAIN hd = (DOMAIN chunks \ {a}) \cup {p}
      /\ \A x \in DOMAIN hd : hd[x] = chunks[x]
  BY <1>3, HeadersIs
<1>6. Wrote(hd, h2, p, size, FALSE, n, FALSE, size) /\ chunks[n].cinuse
  BY <1>1, <1>2, <1>3
<1>7. PICK h1 : /\ Rejoined(chunks, h1, a, p, size)
                /\ Result(h1, top, Foot, seg, (Used(chunks, seg) \ {a}) \cup {p},
                          Avail(chunks, top, Foot) \ {p})
  BY <1>1, Rejoin
<1>8. Vacating(h1, top, Foot, seg, p, n, h2)
  <2>1. h1[n] = chunks[n] /\ n \in DOMAIN h1 /\ h1[p].size = size /\ h1[p].pinuse
    BY <1>4, <1>7 DEF Rejoined, Elsewhere, Is
  <2>2. p \in Used(h1, seg)
    BY <1>7 DEF Result
  <2>3. Typed(h2) /\ DOMAIN h2 = DOMAIN h1 /\ Elsewhere(h1, h2, {p, n})
    BY <1>4, <1>5, <1>6, <1>7 DEF Rejoined, Wrote, Elsewhere
  <2>4. Is(h2, p, size, FALSE, TRUE, h2[p].prev_foot)
    BY <1>6 DEF Wrote, Is
  <2>5. Is(h2, n, chunks[n].size, TRUE, FALSE, size)
    BY <1>4, <1>5, <1>6 DEF Wrote, Is
  <2> QED
    BY <1>4, <1>6, <2>1, <2>2, <2>3, <2>4, <2>5 DEF Vacating
<1>9. Result(h2, top, Foot, seg, Used(h1, seg) \ {p}, Avail(h1, top, Foot) \cup {p})
  <2>1. Heap(h1, top, Foot, seg)
    BY <1>7 DEF Result
  <2> QED
    BY <1>8, <2>1, Vacate
<1>10. Result(h2, top, Foot, seg, Used(chunks, seg) \ {a}, Avail(chunks, top, Foot) \cup {p})
  <2>1. p = a \/ p \notin Used(chunks, seg)
    BY <1>4 DEF Used, Avail
  <2> QED
    BY <1>7, <1>9, <2>1 DEF Result
<1>11. SameSize(chunks, h2, DOMAIN chunks \ {a, p})
  BY <1>5, <1>6 DEF SameSize, Wrote, Is, Elsewhere
<1> QED
  BY <1>1, <1>6, <1>10, <1>11 DEF Wrote, Is

\* It joins the free one behind it.
JoiningBoth(a, p, n, size, h2) ==
  /\ p = First(a) /\ n = After(a) /\ n \in Avail(chunks, top, Foot)
  /\ size = Joined(a) + SizeOf(n)
  /\ h2 = FreeChunk(Drop(Headers(a), n), p, size)

LEMMA FreeJoined ==
  ASSUME IInv, NEW a \in Used(chunks, seg), NEW p, NEW n, NEW size, NEW h2,
         JoiningBoth(a, p, n, size, h2)
  PROVE  /\ Result(h2, top, Foot, seg, Used(chunks, seg) \ {a},
                   (Avail(chunks, top, Foot) \ {n}) \cup {p})
         /\ SameSize(chunks, h2, DOMAIN chunks \ {a, p, n})
         /\ Is(h2, p, size, FALSE, TRUE, h2[p].prev_foot)
<1>0. /\ p = First(a) /\ n = After(a) /\ n \in Avail(chunks, top, Foot)
      /\ size = Joined(a) + SizeOf(n)
      /\ h2 = FreeChunk(Drop(Headers(a), n), p, size)
  BY DEF JoiningBoth
<1>1. PICK joined : joined = Joined(a)
  OBVIOUS
<1>2. PICK e : e = n + chunks[n].size
  OBVIOUS
<1>3. PICK hd : hd = Headers(a)
  OBVIOUS
<1>4. /\ p \in DOMAIN chunks /\ p \in Nat /\ joined \in Nat /\ n = p + joined /\ n \in DOMAIN chunks /\ n # a /\ n # p
      /\ p <= a /\ a \in Nat /\ joined > 0 /\ n > a /\ n \in Nat
      /\ p = a \/ p \in Avail(chunks, top, Foot)
  BY <1>0, <1>1, FirstIs, Now
<1>5. /\ Typed(hd) /\ DOMAIN hd = (DOMAIN chunks \ {a}) \cup {p}
      /\ \A x \in DOMAIN hd : hd[x] = chunks[x]
  BY <1>0, <1>3, HeadersIs
<1>6. Heap(chunks, top, Foot, seg) /\ Typed(chunks)
  BY DEF IInv, Heap
<1>7. /\ size = joined + chunks[n].size /\ chunks[n].size \in Nat /\ chunks[n].size > 0
      /\ e \in DOMAIN chunks /\ e \in Nat /\ chunks[e].size \in Nat \ {0}
      /\ e <= Memory
  BY <1>0, <1>1, <1>2, <1>4, <1>6, Now, HeapTypes, SizeBound DEF SizeOf
<1>8. /\ size \in Nat \ {0} /\ size <= Memory /\ e = p + size /\ e # a /\ e # p /\ e # n
  BY <1>2, <1>4, <1>7
<1>9. chunks[e].cinuse /\ ~chunks[e].pinuse
  BY <1>0, <1>2, <1>6, <1>7 DEF Heap, Tags, Forward, Avail
<1>10. PICK h1 : /\ Rejoined(chunks, h1, a, p, joined)
                 /\ Result(h1, top, Foot, seg, (Used(chunks, seg) \ {a}) \cup {p},
                           Avail(chunks, top, Foot) \ {p})
  BY <1>0, <1>1, Rejoin
<1>11. /\ Typed(h1) /\ DOMAIN h1 = (DOMAIN chunks \ {a}) \cup {p} /\ p \in DOMAIN h1
       /\ h1[n] = chunks[n] /\ n \in DOMAIN h1 /\ h1[p].size = joined
       /\ h1[p].pinuse /\ h1[p].prev_foot \in 0 .. Memory
       /\ h1[e] = chunks[e] /\ e \in DOMAIN h1 /\ Heap(h1, top, Foot, seg)
  BY <1>4, <1>7, <1>8, <1>10 DEF Rejoined, Elsewhere, Is, Typed, HeaderSet, Result
<1>12. PICK d1 : d1 = Drop(hd, n)
  OBVIOUS
<1>13. Dropped(hd, d1, n)
  BY <1>5, <1>12, DropIs
<1>14. Wrote(d1, h2, p, size, FALSE, e, d1[e].pinuse, size)
  <2>1. Typed(d1) /\ h2 = FreeChunk(d1, p, size)
    BY <1>0, <1>3, <1>12, <1>13 DEF Dropped
  <2> QED
    BY <1>4, <1>8, <2>1, FreeChunkIs
<1>15. /\ Typed(h2) /\ DOMAIN h2 = DOMAIN h1 \ {n} /\ Elsewhere(chunks, h2, {a, p, n, e})
       /\ Is(h2, p, size, FALSE, TRUE, h2[p].prev_foot)
       /\ Is(h2, e, chunks[e].size, TRUE, FALSE, size)
  <2>1. e \in DOMAIN d1 /\ d1[e] = chunks[e]
    BY <1>5, <1>7, <1>8, <1>13 DEF Dropped, Elsewhere
  <2>2. Typed(h2) /\ DOMAIN h2 = DOMAIN h1 \ {n}
    BY <1>4, <1>5, <1>11, <1>13, <1>14 DEF Dropped, Wrote
  <2>3. Elsewhere(chunks, h2, {a, p, n, e})
    BY <1>5, <1>13, <1>14 DEF Dropped, Wrote, Elsewhere
  <2>4. Is(h2, p, size, FALSE, TRUE, h2[p].prev_foot)
    BY <1>14 DEF Wrote, Is
  <2>5. Is(h2, e, chunks[e].size, TRUE, FALSE, size)
    BY <1>9, <1>14, <2>1 DEF Wrote, Is
  <2> QED
    BY <2>2, <2>3, <2>4, <2>5
<1>16. PICK g1 : g1 = Drop(h1, n)
  OBVIOUS
<1>17. PICK g2 : g2 = With(g1, p, [size |-> size, cinuse |-> TRUE, pinuse |-> TRUE,
                                   prev_foot |-> h1[p].prev_foot])
  OBVIOUS
<1>18. PICK g3 : g3 = With(g2, e, [size |-> chunks[e].size, cinuse |-> TRUE, pinuse |-> TRUE, prev_foot |-> 0])
  OBVIOUS
<1>19. Dropped(h1, g1, n)
  BY <1>11, <1>16, DropIs
<1>20. Set(g1, g2, p, size, TRUE, TRUE, h1[p].prev_foot)
  <2>1. Typed(g1) /\ TRUE \in BOOLEAN
    BY <1>19 DEF Dropped
  <2> QED
    BY <1>4, <1>8, <1>11, <1>17, <2>1, WithIs
<1>21. Set(g2, g3, e, chunks[e].size, TRUE, TRUE, 0)
  <2>1. Typed(g2) /\ TRUE \in BOOLEAN /\ 0 \in 0 .. Memory
    BY <1>20 DEF Set
  <2> QED
    BY <1>7, <1>18, <2>1, WithIs, Zenon
<1>22. Absorbing(h1, top, Foot, seg, p, n, e, g3)
  <2>1. p \in Used(h1, seg) /\ n \in Avail(h1, top, Foot)
    BY <1>0, <1>4, <1>10 DEF Result
  <2>2. n = p + h1[p].size /\ e = n + h1[n].size
    BY <1>2, <1>4, <1>11
  <2>3. Typed(g3) /\ DOMAIN g3 = DOMAIN h1 \ {n} /\ Elsewhere(h1, g3, {p, n, e})
    BY <1>4, <1>8, <1>11, <1>19, <1>20, <1>21 DEF Set, Dropped, Elsewhere
  <2>4. Is(g3, p, h1[p].size + h1[n].size, TRUE, h1[p].pinuse, h1[p].prev_foot)
    BY <1>7, <1>8, <1>11, <1>20, <1>21 DEF Set, Elsewhere, Is
  <2>5. Is(g3, e, h1[e].size, h1[e].cinuse, TRUE, g3[e].prev_foot)
    BY <1>9, <1>11, <1>21 DEF Set, Is
  <2> QED
    BY <2>1, <2>2, <2>3, <2>4, <2>5, Zenon DEF Absorbing
<1>23. Result(g3, top, Foot, seg, Used(h1, seg), Avail(h1, top, Foot) \ {n})
  BY <1>11, <1>22, Absorb
<1>24. Vacating(g3, top, Foot, seg, p, e, h2)
  <2>1. p \in Used(g3, seg)
    BY <1>10, <1>23 DEF Result
  <2>2. p \in DOMAIN g3 /\ g3[p].size = size /\ g3[p].pinuse
    BY <1>8, <1>20, <1>21 DEF Set, Elsewhere, Is
  <2>3. g3[e].cinuse /\ g3[e].size = chunks[e].size
    BY <1>21 DEF Set, Is
  <2>4. DOMAIN g3 = DOMAIN h1 \ {n} /\ Elsewhere(h1, g3, {p, n, e})
    BY <1>22, Zenon DEF Absorbing
  <2>5. DOMAIN h2 = DOMAIN g3 /\ Elsewhere(g3, h2, {p, e})
    BY <1>10, <1>15, <2>4 DEF Elsewhere, Rejoined
  <2> QED
    BY <1>8, <1>15, <2>1, <2>2, <2>3, <2>5 DEF Vacating
<1>25. Result(h2, top, Foot, seg, Used(g3, seg) \ {p}, Avail(g3, top, Foot) \cup {p})
  <2>1. Heap(g3, top, Foot, seg)
    BY <1>23 DEF Result
  <2> QED
    BY <1>24, <2>1, Vacate
<1>26. Result(h2, top, Foot, seg, Used(chunks, seg) \ {a}, (Avail(chunks, top, Foot) \ {n}) \cup {p})
  <2>1. p = a \/ p \notin Used(chunks, seg)
    BY <1>4 DEF Used, Avail
  <2> QED
    BY <1>10, <1>23, <1>25, <2>1 DEF Result
<1>27. SameSize(chunks, h2, DOMAIN chunks \ {a, p, n})
  BY <1>15 DEF SameSize, Is, Elsewhere
<1> QED
  BY <1>15, <1>26, <1>27

\* A heap that has a chunk less in use, which is given back.
LEMMA TakeBackKeeps ==
  ASSUME IInv, NEW a, GivesBack(a, extra, given, extra', given'), NEW A,
         Result(chunks', top', Foot', seg', Used(chunks, seg) \ {a}, A),
         topsize' \in Nat \ {0},
         SameSize(chunks, chunks', Used(chunks, seg) \ {a}),
         Roles(A, chunks', binned', dv', dvsize'),
         trim_check' \in {TrimThreshold, None}, release_checks' \in Nat \ {0}
  PROVE  IInv'
<1>1. Blocks(Used(chunks, seg) \ {a}, chunks', extra', given')
  BY TakenBack DEF IInv
<1> QED
  BY <1>1 DEF IInv, Result

\* What is freed is in use.
LEMMA GivenBackIs ==
  ASSUME IInv, NEW a, GivenBack(a)
  PROVE  GivesBack(a, extra, given, extra', given') /\ a \in Used(chunks, seg)
<1>1. GivesBack(a, extra, given, extra', given')
  BY DEF GivenBack, GivesBack
<1> QED
  BY <1>1, TakenBack DEF IInv

\* mspace_free
LEMMA FreeBehindDvKeeps ==
  ASSUME IInv, NEW a, GivenBack(a), FreeBehindDv(a)
  PROVE  IInv'
<1>1. GivesBack(a, extra, given, extra', given') /\ a \in Used(chunks, seg)
  BY GivenBackIs
<1>2. PICK p : p = First(a)
  OBVIOUS
<1>3. /\ p = dv /\ chunks[After(a)].cinuse
      /\ chunks' = FreeWithPinuse(Headers(a), p, Joined(a))
      /\ dvsize' = Joined(a)
      /\ binned' = binned /\ dv' = dv /\ top' = top /\ topsize' = topsize /\ seg' = seg
      /\ trim_check' = trim_check /\ release_checks' = release_checks /\ Foot' = Foot
  BY <1>2 DEF FreeBehindDv, sysVars, Foot
<1>4. /\ p \in Nat /\ p # None /\ Joined(a) \in Nat \ {0} /\ Joined(a) <= Memory
      /\ After(a) = p + Joined(a)
  BY <1>1, <1>2, FirstIs
<1>5. Wrote(Headers(a), chunks', p, Joined(a), FALSE, After(a), FALSE, Joined(a))
  <2>1. Typed(Headers(a))
    BY <1>1, HeadersIs
  <2> QED
    BY <1>3, <1>4, <2>1, FreeWithPinuseIs
<1>6. /\ Result(chunks', top, Foot, seg, Used(chunks, seg) \ {a}, Avail(chunks, top, Foot) \cup {p})
      /\ SameSize(chunks, chunks', DOMAIN chunks \ {a, p})
      /\ chunks'[p].size = Joined(a)
  BY <1>1, <1>2, <1>3, <1>5, FreeAlone
<1>7. p \in Avail(chunks, top, Foot) /\ p \notin Used(chunks, seg)
  BY <1>3, <1>4 DEF IInv, Roles, Used, Avail
<1>8. Roles(Avail(chunks, top, Foot) \cup {p}, chunks', binned', dv', dvsize')
  BY <1>3, <1>4, <1>6, <1>7 DEF IInv, Roles
<1>9. SameSize(chunks, chunks', Used(chunks, seg) \ {a})
  BY <1>6, <1>7 DEF SameSize, Used
<1>10. /\ topsize' \in Nat \ {0} /\ trim_check' \in {TrimThreshold, None} /\ release_checks' \in Nat \ {0}
  BY <1>3 DEF IInv
<1>11. Result(chunks', top', Foot', seg', Used(chunks, seg) \ {a}, Avail(chunks, top, Foot) \cup {p})
  BY <1>3, <1>6
<1> QED
  BY <1>1, <1>8, <1>9, <1>10, <1>11, TakeBackKeeps

LEMMA FreeBeforeDvKeeps ==
  ASSUME IInv, NEW a, GivenBack(a), FreeBeforeDv(a)
  PROVE  IInv'
<1>1. GivesBack(a, extra, given, extra', given') /\ a \in Used(chunks, seg)
  BY GivenBackIs
<1>2. PICK p : p = First(a)
  OBVIOUS
<1>3. PICK size : size = Joined(a) + dvsize
  OBVIOUS
<1>4. /\ After(a) = dv
      /\ chunks' = FreeChunk(Drop(Headers(a), dv), p, size)
      /\ dv' = p /\ dvsize' = size /\ binned' = binned \ {p}
      /\ top' = top /\ topsize' = topsize /\ seg' = seg
      /\ trim_check' = trim_check /\ release_checks' = release_checks /\ Foot' = Foot
  BY <1>2, <1>3 DEF FreeBeforeDv, sysVars, Foot
<1>5. /\ p \in Nat /\ p # None /\ dv # None /\ After(a) > a /\ p <= a /\ a \in Nat /\ After(a) \in Nat
      /\ p = a \/ p \in Avail(chunks, top, Foot)
  BY <1>1, <1>2, <1>4, FirstIs, Now
<1>6. dv \in Avail(chunks, top, Foot) /\ dvsize = SizeOf(dv) /\ p # dv
  BY <1>4, <1>5 DEF IInv, Roles, SizeOf
<1>7. /\ Result(chunks', top, Foot, seg, Used(chunks, seg) \ {a},
                (Avail(chunks, top, Foot) \ {dv}) \cup {p})
      /\ SameSize(chunks, chunks', DOMAIN chunks \ {a, p, dv})
      /\ chunks'[p].size = size
  <2>1. JoiningBoth(a, p, dv, size, chunks')
    BY <1>2, <1>3, <1>4, <1>6 DEF JoiningBoth
  <2>2. Result(chunks', top, Foot, seg, Used(chunks, seg) \ {a},
               (Avail(chunks, top, Foot) \ {dv}) \cup {p})
    BY <1>1, <2>1, FreeJoined
  <2>3. SameSize(chunks, chunks', DOMAIN chunks \ {a, p, dv})
    BY <1>1, <2>1, FreeJoined
  <2>4. Is(chunks', p, size, FALSE, TRUE, chunks'[p].prev_foot)
    BY <1>1, <2>1, FreeJoined
  <2> QED
    BY <2>2, <2>3, <2>4 DEF Is
<1>8. /\ p = a \/ p \notin Used(chunks, seg)
      /\ a \notin Avail(chunks, top, Foot) /\ dv \notin Used(chunks, seg)
  BY <1>1, <1>5, <1>6 DEF Used, Avail
<1>9. Roles((Avail(chunks, top, Foot) \ {dv}) \cup {p}, chunks', binned', dv', dvsize')
  BY <1>4, <1>5, <1>6, <1>7, <1>8 DEF IInv, Roles
<1>10. SameSize(chunks, chunks', Used(chunks, seg) \ {a})
  BY <1>7, <1>8 DEF SameSize, Used
<1>11. /\ topsize' \in Nat \ {0} /\ trim_check' \in {TrimThreshold, None} /\ release_checks' \in Nat \ {0}
  BY <1>4 DEF IInv
<1>12. Result(chunks', top', Foot', seg', Used(chunks, seg) \ {a}, (Avail(chunks, top, Foot) \ {dv}) \cup {p})
  BY <1>4, <1>7
<1> QED
  BY <1>1, <1>9, <1>10, <1>11, <1>12, TakeBackKeeps

\* release_unused_segments.
Unmapping(h, S, X, K, B, d, dsize, h2, S2, B2, d2, dsize2) ==
  /\ X = Empty(h, S) /\ K \subseteq X /\ S2 = S \ K
  /\ h2 = [x \in Outside(h, K) |-> h[x]]
  /\ B2 = (B \cup Bases(X)) \ Bases(K)
  /\ d2 = (IF d \in Bases(X) THEN None ELSE d)
  /\ dsize2 = (IF d \in Bases(X) THEN 0 ELSE dsize)

\* release_unused_segments
LEMMA ReleaseKeeps ==
  ASSUME NEW h, NEW t, NEW f, NEW S, NEW U, NEW A, Result(h, t, f, S, U, A),
         NEW B, NEW d, NEW dsize, Roles(A, h, B, d, dsize),
         NEW X, NEW K, NEW S2, NEW h2, NEW B2, NEW d2, NEW dsize2,
         Unmapping(h, S, X, K, B, d, dsize, h2, S2, B2, d2, dsize2)
  PROVE  /\ Result(h2, t, f, S2, U, A \ Bases(K))
         /\ Roles(A \ Bases(K), h2, B2, d2, dsize2)
         /\ SameSize(h, h2, U)
<1> USE DEF Unmapping
<1>1. Heap(h, t, f, S) /\ Used(h, S) = U /\ Avail(h, t, f) = A
  BY DEF Result
<1>2. Releasing(h, t, f, S, K, S2, h2)
  BY DEF Releasing, Outside
<1>3. /\ Result(h2, t, f, S2, U, A \ Bases(K))
      /\ SameSize(h, h2, DOMAIN h2)
  BY <1>1, <1>2, Release DEF Bases
<1>4. U \subseteq DOMAIN h2 /\ A \ Bases(K) \subseteq DOMAIN h2
  BY <1>3 DEF Result, Used, Avail
<1>5. Bases(X) \subseteq A /\ Bases(K) \subseteq Bases(X)
  BY <1>1, EmptyIs DEF Bases
<1>6. None \notin A
  BY <1>1, HeapTypes DEF Avail
<1>7. A \ Bases(K) = B2 \cup ({d2} \ {None})
  BY <1>5, <1>6 DEF Roles
<1>8. d2 \notin B2
  BY <1>5, <1>6 DEF Roles
<1>9. dsize2 = IF d2 = None THEN 0 ELSE h2[d2].size
  <2>1. CASE d2 = None
    BY <2>1 DEF Roles
  <2>2. CASE d2 # None
    <3>1. d2 = d /\ d \notin Bases(X) /\ d \in A \ Bases(K)
      BY <1>5, <2>2 DEF Roles
    <3> QED
      BY <1>3, <1>4, <2>2, <3>1 DEF Roles, SameSize
  <2> QED
    BY <2>1, <2>2
<1>10. Roles(A \ Bases(K), h2, B2, d2, dsize2)
  BY <1>7, <1>8, <1>9 DEF Roles
<1> QED
  BY <1>3, <1>4, <1>10 DEF SameSize

\* Segments are released again after some more frees.
LEMMA NextCheckIs ==
  ASSUME IInv
  PROVE  NextCheck \in Nat \ {0}
<1>1. Cardinality(seg) \in Nat
  BY FS_CardinalityType DEF IInv, Heap, Segments
<1> QED
  BY <1>1 DEF NextCheck

LEMMA FreeBinnedKeeps ==
  ASSUME IInv, NEW a, GivenBack(a), FreeBinned(a)
  PROVE  IInv'
<1>1. GivesBack(a, extra, given, extra', given') /\ a \in Used(chunks, seg)
  BY GivenBackIs
<1>2. PICK p : p = First(a)
  OBVIOUS
<1>3. PICK n : n = After(a)
  OBVIOUS
<1>4. PICK size : size = Joined(a) + (IF ~chunks[n].cinuse THEN SizeOf(n) ELSE 0)
  OBVIOUS
<1>5. PICK h : h = IF ~chunks[n].cinuse THEN FreeChunk(Drop(Headers(a), n), p, size)
                   ELSE FreeWithPinuse(Headers(a), p, size)
  OBVIOUS
<1>6. PICK B : B = (binned \ {n}) \cup {p}
  OBVIOUS
<1>7. /\ n \notin {top, dv}
      /\ p = dv => ~chunks[n].cinuse
      /\ \/ /\ p = dv
            /\ chunks' = h
            /\ binned' = binned \ {n}
            /\ dvsize' = size
            /\ UNCHANGED <<dv, sysVars>>
         \/ /\ p # dv
            /\ Small(size) \/ release_checks > 1
            /\ chunks' = h
            /\ binned' = B
            /\ release_checks' = IF Small(size) THEN release_checks
                                 ELSE release_checks - 1
            /\ UNCHANGED <<dv, dvsize, seg, trim_check>>
         \/ /\ p # dv
            /\ ~Small(size) /\ release_checks = 1
            /\ \E K \in SUBSET Unused(h) :
                 /\ ReleaseUnused(h, B, dv, dvsize, K)
                 /\ seg' = seg \ K
            /\ UNCHANGED trim_check
      /\ UNCHANGED <<top, topsize>>
  BY <1>2, <1>3, <1>4, <1>5, <1>6 DEF FreeBinned
<1>8. top' = top /\ topsize' = topsize /\ Foot' = Foot /\ topsize' \in Nat \ {0}
  BY <1>7 DEF Foot, IInv
<1>9. /\ p \in Nat /\ p # None /\ n > a /\ p <= a /\ a \in Nat /\ n \in Nat
      /\ n \in DOMAIN chunks /\ n # Foot /\ n # None
      /\ Joined(a) \in Nat \ {0} /\ Joined(a) <= Memory /\ n = p + Joined(a)
      /\ p = a \/ p \in Avail(chunks, top, Foot)
  BY <1>1, <1>2, <1>3, FirstIs, Now
<1>10. PICK A : A = (Avail(chunks, top, Foot) \ {n}) \cup {p}
  OBVIOUS
<1>11. /\ Result(h, top, Foot, seg, Used(chunks, seg) \ {a}, A)
       /\ SameSize(chunks, h, DOMAIN chunks \ {a, p, n}) /\ h[p].size = size
       /\ n \notin Used(chunks, seg) => n \in DOMAIN chunks
       /\ chunks[n].cinuse => SameSize(chunks, h, {n})
  <2>1. CASE chunks[n].cinuse
    <3>1. size = Joined(a) /\ h = FreeWithPinuse(Headers(a), p, Joined(a))
      BY <1>4, <1>5, <1>9, <2>1
    <3>2. Wrote(Headers(a), h, p, Joined(a), FALSE, n, FALSE, Joined(a))
      <4>1. Typed(Headers(a))
        BY <1>1, HeadersIs
      <4> QED
        BY <1>9, <3>1, <4>1, FreeWithPinuseIs
    <3>3. /\ Result(h, top, Foot, seg, Used(chunks, seg) \ {a}, Avail(chunks, top, Foot) \cup {p})
          /\ SameSize(chunks, h, DOMAIN chunks \ {a, p})
          /\ h[p].size = Joined(a)
      BY <1>1, <1>2, <1>3, <2>1, <3>2, FreeAlone
    <3>4. A = Avail(chunks, top, Foot) \cup {p}
      BY <1>10, <2>1 DEF Avail
    <3> QED
      BY <1>9, <3>1, <3>3, <3>4 DEF SameSize
  <2>2. CASE ~chunks[n].cinuse
    <3>1. n \in Avail(chunks, top, Foot)
      BY <1>7, <1>9, <2>2 DEF Avail
    <3>2. size = Joined(a) + SizeOf(n) /\ h = FreeChunk(Drop(Headers(a), n), p, size)
      BY <1>4, <1>5, <2>2
    <3>3. JoiningBoth(a, p, n, size, h)
      BY <1>2, <1>3, <3>1, <3>2 DEF JoiningBoth
    <3>4. Result(h, top, Foot, seg, Used(chunks, seg) \ {a},
                 (Avail(chunks, top, Foot) \ {n}) \cup {p})
      BY <1>1, <3>3, FreeJoined
    <3>5. SameSize(chunks, h, DOMAIN chunks \ {a, p, n})
      BY <1>1, <3>3, FreeJoined
    <3>6. Is(h, p, size, FALSE, TRUE, h[p].prev_foot)
      BY <1>1, <3>3, FreeJoined
    <3> QED
      BY <1>9, <1>10, <2>2, <3>4, <3>5, <3>6 DEF Is
  <2> QED
    BY <2>1, <2>2
<1>12. /\ p = a \/ p \notin Used(chunks, seg)
       /\ a \notin Avail(chunks, top, Foot) /\ p # n
       /\ n \in Used(chunks, seg) => chunks[n].cinuse
  BY <1>1, <1>9 DEF Used, Avail
<1>13. SameSize(chunks, h, Used(chunks, seg) \ {a})
  BY <1>11, <1>12 DEF SameSize, Used
<1>14. \A x \in Avail(chunks, top, Foot) \ {p, n} : h[x].size = chunks[x].size
  BY <1>11, <1>12 DEF SameSize, Avail
<1>15. p # dv => Roles(A, h, B, dv, dvsize)
  BY <1>6, <1>7, <1>9, <1>10, <1>12, <1>14 DEF IInv, Roles
<1>16. CASE /\ p = dv
            /\ chunks' = h
            /\ binned' = binned \ {n}
            /\ dvsize' = size
            /\ UNCHANGED <<dv, sysVars>>
  <2>1. Roles(A, chunks', binned', dv', dvsize')
    BY <1>7, <1>9, <1>10, <1>11, <1>16 DEF IInv, Roles
  <2>2. seg' = seg /\ trim_check' \in {TrimThreshold, None} /\ release_checks' \in Nat \ {0}
    BY <1>16 DEF sysVars, IInv
  <2>3. Result(chunks', top', Foot', seg', Used(chunks, seg) \ {a}, A)
    BY <1>8, <1>11, <1>16, <2>2
  <2>4. SameSize(chunks, chunks', Used(chunks, seg) \ {a})
    BY <1>13, <1>16
  <2> QED
    BY <1>1, <1>8, <2>1, <2>2, <2>3, <2>4, TakeBackKeeps
<1>17. CASE /\ p # dv
            /\ Small(size) \/ release_checks > 1
            /\ chunks' = h
            /\ binned' = B
            /\ release_checks' = IF Small(size) THEN release_checks
                                 ELSE release_checks - 1
            /\ UNCHANGED <<dv, dvsize, seg, trim_check>>
  <2>1. Roles(A, chunks', binned', dv', dvsize')
    BY <1>15, <1>17
  <2>2. seg' = seg /\ trim_check' \in {TrimThreshold, None} /\ release_checks' \in Nat \ {0}
    BY <1>17 DEF IInv
  <2>3. Result(chunks', top', Foot', seg', Used(chunks, seg) \ {a}, A)
    BY <1>8, <1>11, <1>17, <2>2
  <2>4. SameSize(chunks, chunks', Used(chunks, seg) \ {a})
    BY <1>13, <1>17
  <2> QED
    BY <1>1, <1>8, <2>1, <2>2, <2>3, <2>4, TakeBackKeeps
<1>18. ASSUME p # dv, NEW K \in SUBSET Unused(h),
              ReleaseUnused(h, B, dv, dvsize, K), seg' = seg \ K, trim_check' = trim_check
       PROVE  IInv'
  <2>1. PICK X : X = Unused(h)
    OBVIOUS
  <2>2. X = Empty(h, seg) /\ K \subseteq X
    BY <2>1 DEF Unused, Empty
  <2>3. /\ chunks' = [x \in Outside(h, K) |-> h[x]]
        /\ binned' = (B \cup Bases(X)) \ Bases(K)
        /\ dv' = (IF dv \in Bases(X) THEN None ELSE dv)
        /\ dvsize' = (IF dv \in Bases(X) THEN 0 ELSE dvsize)
        /\ release_checks' = NextCheck
    BY <1>18, <2>1 DEF ReleaseUnused
  <2>4. /\ Result(chunks', top, Foot, seg', Used(chunks, seg) \ {a}, A \ Bases(K))
        /\ Roles(A \ Bases(K), chunks', binned', dv', dvsize')
        /\ SameSize(h, chunks', Used(chunks, seg) \ {a})
    <3>1. Unmapping(h, seg, X, K, B, dv, dvsize, chunks', seg', binned', dv', dvsize')
      BY <1>18, <2>2, <2>3 DEF Unmapping
    <3>2. Roles(A, h, B, dv, dvsize)
      BY <1>15, <1>18
    <3> QED
      BY <1>11, <3>1, <3>2, ReleaseKeeps
  <2>5. trim_check' \in {TrimThreshold, None} /\ release_checks' \in Nat \ {0}
    BY <1>18, <2>3, NextCheckIs DEF IInv
  <2>6. SameSize(chunks, chunks', Used(chunks, seg) \ {a})
    BY <1>13, <2>4 DEF SameSize
  <2>7. Result(chunks', top', Foot', seg', Used(chunks, seg) \ {a}, A \ Bases(K))
    BY <1>8, <2>4
  <2> QED
    BY <1>1, <1>8, <2>4, <2>5, <2>6, <2>7, TakeBackKeeps
<1> QED
  BY <1>7, <1>16, <1>17, <1>18

\* What top gives back is less than all of it.
LEMMA SpareIs ==
  ASSUME NEW n \in Nat, n > 0
  PROVE  Spare(n) \in Nat /\ Spare(n) < n
<1>1. Granularity \in Nat /\ Granularity > 0 /\ TopFoot \in Nat /\ TopFoot > 0
  BY DEF TopFoot
<1>2. CASE n <= TopFoot
  BY <1>2 DEF Spare
<1>3. CASE n > TopFoot
  <2> DEFINE x == n - TopFoot + Granularity - 1
             y == x \div Granularity
  <2>1. x \in Nat /\ x >= Granularity
    BY <1>1, <1>3
  <2>2. \A u, g \in Nat : g > 0 /\ u >= g =>
          u \div g \in Nat /\ u \div g >= 1 /\ (u \div g) * g <= u
    OBVIOUS
  <2>3. y \in Nat /\ y >= 1 /\ y * Granularity <= x
    BY <1>1, <2>1, <2>2
  <2>4. Spare(n) = (y - 1) * Granularity
    BY <1>1, <1>3 DEF Spare
  <2> HIDE DEF y
  <2>5. \A u \in Nat, g \in Nat : u >= 1 => (u - 1) * g \in Nat /\ (u - 1) * g = u * g - g
    OBVIOUS
  <2>6. (y - 1) * Granularity \in Nat /\ (y - 1) * Granularity = y * Granularity - Granularity
    BY <1>1, <2>3, <2>5
  <2>7. y * Granularity \in Nat
    BY <1>1, <2>3
  <2>8. y * Granularity - Granularity < n
    BY <1>1, <1>3, <2>3, <2>7
  <2> QED
    BY <2>4, <2>6, <2>8
<1> QED
  BY <1>1, <1>2, <1>3

\* A segment loses its end.
LEMMA Shrunk ==
  ASSUME NEW S, Segments(S), NEW s \in S, NEW n \in Nat, n < s.size,
         NEW s2 \in [base : Nat, size : Nat \ {0}, at : Nat], s2.size = s.size - n, s2.base = s.base
  PROVE  Segments((S \ {s}) \cup {s2})
<1> DEFINE S2 == (S \ {s}) \cup {s2}
<1>1. \A r \in S : /\ r \in [base : Nat, size : Nat \ {0}, at : Nat]
                   /\ End(r) <= Memory /\ End(r) = r.base + r.size
  BY DEF Segments, End
<1>2. End(s2) = s2.base + s2.size
  BY DEF End
<1>3. End(s2) <= Memory /\ End(s2) <= End(s)
  BY <1>1, <1>2
<1>4. ASSUME NEW r \in S \ {s}
      PROVE  End(s2) <= r.base \/ End(r) <= s2.base
  <2>1. End(s) <= r.base \/ End(r) <= s.base
    BY DEF Segments
  <2> QED
    BY <1>1, <1>2, <1>3, <2>1
<1>5. IsFiniteSet(S2)
  BY FS_AddElement, FS_RemoveElement DEF Segments
<1>6. ASSUME NEW x \in S2, NEW y \in S2, x # y
      PROVE  End(x) <= y.base \/ End(y) <= x.base
  BY <1>4, <1>6 DEF Segments
<1> QED
  BY <1>1, <1>3, <1>5, <1>6 DEF Segments

\* A chunk joins top.
FreesTop(a, p, size, h) ==
  /\ p = First(a) /\ After(a) = top /\ size = Joined(a) + topsize
  /\ h = Header(Drop(Headers(a), top), p, size, FALSE)

\* What is freed before top becomes top.
LEMMA FreeTop ==
  ASSUME IInv, NEW a \in Used(chunks, seg), NEW p, NEW size, NEW h, FreesTop(a, p, size, h)
  PROVE  /\ Result(h, p, Foot, seg, Used(chunks, seg) \ {a}, Avail(chunks, top, Foot) \ {p})
         /\ SameSize(chunks, h, DOMAIN chunks \ {a, p, top})
         /\ Is(h, p, size, FALSE, TRUE, h[p].prev_foot)
         /\ size \in Nat /\ size > 0 /\ p \in Nat /\ p + size = Foot
<1>0. /\ p = First(a) /\ After(a) = top /\ size = Joined(a) + topsize
      /\ h = Header(Drop(Headers(a), top), p, size, FALSE)
  BY DEF FreesTop
<1>1. PICK joined : joined = Joined(a)
  OBVIOUS
<1>2. PICK hd : hd = Headers(a)
  OBVIOUS
<1>3. /\ p \in DOMAIN chunks /\ p \in Nat /\ joined \in Nat /\ top = p + joined /\ p # top /\ a # top
      /\ p <= a /\ a \in Nat /\ joined > 0 /\ top \in Nat
      /\ p = a \/ p \in Avail(chunks, top, Foot)
  BY <1>0, <1>1, FirstIs, Now
<1>4. /\ Typed(hd) /\ DOMAIN hd = (DOMAIN chunks \ {a}) \cup {p}
      /\ \A x \in DOMAIN hd : hd[x] = chunks[x]
  BY <1>0, <1>2, HeadersIs
<1>5. Heap(chunks, top, Foot, seg) /\ Typed(chunks)
  BY DEF IInv, Heap
<1>6. topsize \in Nat /\ topsize > 0 /\ topsize = chunks[top].size /\ Foot = top + topsize /\ top \in DOMAIN chunks
  BY <1>5, Now, TopIs
<1>7. size = joined + topsize /\ size \in Nat \ {0} /\ p + size = Foot
  BY <1>0, <1>1, <1>3, <1>6
<1>8. PICK h1 : /\ Rejoined(chunks, h1, a, p, joined)
                /\ Result(h1, top, Foot, seg, (Used(chunks, seg) \ {a}) \cup {p},
                          Avail(chunks, top, Foot) \ {p})
  BY <1>0, <1>1, Rejoin
<1>9. PICK d : d = Drop(hd, top)
  OBVIOUS
<1>10. Dropped(hd, d, top)
  BY <1>4, <1>9, DropIs
<1>11. Has(d, h, p, size, FALSE)
  <2>1. Typed(d) /\ h = Header(d, p, size, FALSE)
    BY <1>0, <1>2, <1>9, <1>10 DEF Dropped
  <2> QED
    BY <1>3, <1>7, <2>1, HeaderIs
<1>12. JoiningTop(h1, top, Foot, seg, p, h)
  <2>1. h1[top] = chunks[top] /\ h1[p].size = joined /\ h1[p].pinuse
    BY <1>3, <1>6, <1>8 DEF Rejoined, Elsewhere, Is
  <2>2. p \in Used(h1, seg)
    BY <1>8 DEF Result
  <2>3. Typed(h) /\ DOMAIN h = DOMAIN h1 \ {top} /\ Elsewhere(h1, h, {p, top})
    BY <1>3, <1>4, <1>8, <1>10, <1>11 DEF Rejoined, Dropped, Has, Elsewhere
  <2>4. Is(h, p, size, FALSE, TRUE, h[p].prev_foot)
    BY <1>11 DEF Has, Is
  <2> QED
    BY <1>3, <1>6, <1>7, <2>1, <2>2, <2>3, <2>4 DEF JoiningTop
<1>13. Result(h, p, Foot, seg, Used(h1, seg) \ {p}, Avail(h1, top, Foot))
  <2>1. Heap(h1, top, Foot, seg)
    BY <1>8 DEF Result
  <2> QED
    BY <1>12, <2>1, JoinTop
<1>14. Result(h, p, Foot, seg, Used(chunks, seg) \ {a}, Avail(chunks, top, Foot) \ {p})
  <2>1. p = a \/ p \notin Used(chunks, seg)
    BY <1>3 DEF Used, Avail
  <2> QED
    BY <1>8, <1>13, <2>1 DEF Result
<1>15. SameSize(chunks, h, DOMAIN chunks \ {a, p, top})
  BY <1>4, <1>10, <1>11 DEF SameSize, Dropped, Has, Elsewhere
<1> QED
  BY <1>3, <1>7, <1>11, <1>14, <1>15 DEF Has, Is

\* sys_trim: the last segment, and with it top, loses n words.
Trimming(h, p, size, n, s, s2, h2) ==
  /\ n \in Nat /\ n < size
  /\ s \in seg /\ s.at = State
  /\ s2.base = s.base /\ s2.size = s.size - n /\ s2.at = State
  /\ s2 \in [base : Nat, size : Nat \ {0}, at : Nat] /\ n < s.size
  /\ h2 = InitTop(Drop(h, p + size), p, size - n)

\* sys_trim gives the end of top back.
LEMMA TrimTop ==
  ASSUME NEW h, NEW p, NEW size, NEW f, Heap(h, p, f, seg), h[p].size = size,
         NEW n, NEW s, NEW s2, NEW h2, Trimming(h, p, size, n, s, s2, h2)
  PROVE  /\ Result(h2, p, f - n, (seg \ {s}) \cup {s2}, Used(h, seg), Avail(h, p, f))
         /\ SameSize(h, h2, DOMAIN h \ {p, f})
<1>0. /\ n \in Nat /\ n < size
      /\ s \in seg /\ s.at = State
      /\ s2.base = s.base /\ s2.size = s.size - n /\ s2.at = State
      /\ s2 \in [base : Nat, size : Nat \ {0}, at : Nat] /\ n < s.size
      /\ h2 = InitTop(Drop(h, p + size), p, size - n)
  BY DEF Trimming
<1>1. p \in DOMAIN h /\ p \in Nat /\ size \in Nat /\ f = p + size /\ f \in Nat /\ f \in DOMAIN h /\ Typed(h) /\ p # f
  BY TopIs DEF Heap
<1>2. PICK g : g = Drop(h, f)
  OBVIOUS
<1>3. Dropped(h, g, f)
  BY <1>1, <1>2, DropIs
<1>4. size - n \in Nat \ {0} /\ f - n = p + (size - n) /\ f - n # p /\ 0 - n \in Int
  BY <1>0, <1>1
<1>5. Topped(g, h2, p, size - n, f - n)
  <2>1. Typed(g) /\ h2 = InitTop(g, p, size - n)
    BY <1>0, <1>1, <1>2, <1>3 DEF Dropped
  <2> QED
    BY <1>1, <1>4, <2>1, InitTopIs
<1>6. Segments((seg \ {s}) \cup {s2})
  BY <1>0, Shrunk DEF Heap
<1>7. MovingFoot(h, p, f, seg, s, 0 - n, s2, (seg \ {s}) \cup {s2}, f - n, h2)
  <2>1. /\ h[p].size + (0 - n) = size - n /\ f - n = f + (0 - n) /\ size - n > 0
        /\ s2.size = s.size + (0 - n)
    <3>1. s.size \in Nat
      BY <1>0, OneSegment DEF Heap
    <3> QED
      BY <1>0, <1>1, <3>1
  <2>2. DOMAIN h2 = (DOMAIN h \ {f}) \cup {f - n}
    BY <1>1, <1>3, <1>5 DEF Dropped, Topped
  <2>3. Elsewhere(h, h2, {p, f, f - n})
    BY <1>3, <1>5 DEF Dropped, Topped, Elsewhere
  <2>4. /\ Typed(h2) /\ Is(h2, p, size - n, FALSE, TRUE, h2[p].prev_foot)
        /\ Is(h2, f - n, TopFoot, FALSE, FALSE, h2[f - n].prev_foot)
    BY <1>5 DEF Topped, Is
  <2> QED
    BY <1>0, <1>4, <1>6, <2>1, <2>2, <2>3, <2>4 DEF MovingFoot
<1>8. PICK S2 : S2 = (seg \ {s}) \cup {s2}
  OBVIOUS
<1>9. PICK f2 : f2 = f - n
  OBVIOUS
<1>10. MovingFoot(h, p, f, seg, s, 0 - n, s2, S2, f2, h2)
  BY <1>7, <1>8, <1>9
<1>11. /\ Result(h2, p, f2, S2, Used(h, seg), Avail(h, p, f))
       /\ SameSize(h, h2, DOMAIN h \ {p, f})
  BY <1>10, MoveFoot
<1> QED
  BY <1>8, <1>9, <1>11

LEMMA FreeBeforeTopKeeps ==
  ASSUME IInv, NEW a, GivenBack(a), FreeBeforeTop(a)
  PROVE  IInv'
<1>1. GivesBack(a, extra, given, extra', given') /\ a \in Used(chunks, seg)
  BY GivenBackIs
<1>2. PICK p : p = First(a)
  OBVIOUS
<1>3. PICK size : size = Joined(a) + topsize
  OBVIOUS
<1>4. PICK B : B = binned \ {p}
  OBVIOUS
<1>5. PICK d : d = IF p = dv THEN None ELSE dv
  OBVIOUS
<1>6. PICK dsize : dsize = IF p = dv THEN 0 ELSE dvsize
  OBVIOUS
<1>7. PICK h : h = Header(Drop(Headers(a), top), p, size, FALSE)
  OBVIOUS
<1>8. /\ After(a) = top
      /\ top' = p
      /\ IF trim_check # None /\ size > trim_check
         THEN Trim(a, size, B, d, dsize)
         ELSE /\ chunks' = h
              /\ topsize' = size
              /\ binned' = B
              /\ dv' = d /\ dvsize' = dsize
              /\ UNCHANGED sysVars
  BY <1>2, <1>3, <1>4, <1>5, <1>6, <1>7 DEF FreeBeforeTop
<1>9. PICK A : A = Avail(chunks, top, Foot) \ {p}
  OBVIOUS
<1>10. FreesTop(a, p, size, h)
  BY <1>2, <1>3, <1>7, <1>8 DEF FreesTop
<1>11. /\ Result(h, p, Foot, seg, Used(chunks, seg) \ {a}, A)
       /\ SameSize(chunks, h, DOMAIN chunks \ {a, p, top})
       /\ h[p].size = size
       /\ size \in Nat /\ size > 0 /\ p \in Nat /\ p + size = Foot
  <2>1. Is(h, p, size, FALSE, TRUE, h[p].prev_foot)
    BY <1>1, <1>10, FreeTop
  <2>2. Result(h, p, Foot, seg, Used(chunks, seg) \ {a}, A)
    BY <1>1, <1>9, <1>10, FreeTop
  <2>3. SameSize(chunks, h, DOMAIN chunks \ {a, p, top})
    BY <1>1, <1>10, FreeTop
  <2>4. size \in Nat /\ size > 0 /\ p \in Nat /\ p + size = Foot
    BY <1>1, <1>10, FreeTop
  <2> QED
    BY <2>1, <2>2, <2>3, <2>4 DEF Is
<1>12. p = a \/ p \in Avail(chunks, top, Foot)
  BY <1>1, <1>2, FirstIs
<1>13. /\ p = a \/ p \notin Used(chunks, seg)
       /\ a \notin Avail(chunks, top, Foot)
       /\ top \notin Used(chunks, seg) \cup Avail(chunks, top, Foot)
  BY <1>1, <1>12, Now DEF Used, Avail
<1>14. SameSize(chunks, h, Used(chunks, seg) \ {a}) /\ SameSize(chunks, h, A)
  BY <1>9, <1>11, <1>13 DEF SameSize, Used, Avail
<1>15. p # None
  BY <1>11
<1>16. Roles(A, h, B, d, dsize)
  <2>1. /\ Avail(chunks, top, Foot) = binned \cup ({dv} \ {None})
        /\ dv \notin binned
        /\ dvsize = IF dv = None THEN 0 ELSE chunks[dv].size
    BY DEF IInv, Roles
  <2>2. None \notin Avail(chunks, top, Foot)
    BY Now, NoneAssumption
  <2>3. A = B \cup ({d} \ {None})
    BY <1>4, <1>5, <1>9, <1>15, <2>1, <2>2
  <2>4. d \notin B
    BY <1>4, <1>5, <2>1, <2>2
  <2>5. d # None => d = dv /\ d \in A /\ dsize = dvsize
    BY <1>5, <1>6, <1>9, <2>1
  <2>6. d = None => dsize = 0
    BY <1>5, <1>6, <1>15, <2>1
  <2> QED
    BY <1>14, <2>1, <2>3, <2>4, <2>5, <2>6 DEF Roles, SameSize
<1>17. CASE ~(trim_check # None /\ size > trim_check)
  <2>1. /\ chunks' = h /\ topsize' = size /\ top' = p /\ Foot' = Foot
        /\ seg' = seg /\ trim_check' \in {TrimThreshold, None} /\ release_checks' \in Nat \ {0}
        /\ topsize' \in Nat \ {0}
    BY <1>8, <1>11, <1>17 DEF sysVars, IInv, Foot
  <2>2. Roles(A, chunks', binned', dv', dvsize')
    BY <1>8, <1>16, <1>17
  <2>3. Result(chunks', top', Foot', seg', Used(chunks, seg) \ {a}, A)
    BY <1>11, <2>1
  <2>4. SameSize(chunks, chunks', Used(chunks, seg) \ {a})
    BY <1>14, <2>1
  <2> QED
    BY <1>1, <2>1, <2>2, <2>3, <2>4, TakeBackKeeps
<1>18. CASE trim_check # None /\ size > trim_check
  <2>1. Heap(chunks, top, Foot, seg) /\ Segments(seg) /\ Typed(chunks)
    BY DEF IInv, Heap
  <2>2. PICK l \in seg : l.at = State /\ Holds(l, top) /\ Foot + TopFoot = End(l)
    BY <2>1, TopIs
  <2>3. (CHOOSE x \in seg : Holds(x, top)) = l
    <3>1. \A s \in seg : Holds(s, top) => s = l
      BY <2>1, <2>2, Now, SameSegment
    <3> QED
      BY <2>2, <3>1
  <2>4. PICK n \in {0} \cup IF l.size >= Spare(size) /\ ~Pinned(l) THEN {Spare(size)} ELSE {} :
          LET newsize == size - n
              hh == IF n = 0 THEN h ELSE InitTop(Drop(h, p + size), p, newsize)
          IN \E K \in SUBSET Unused(hh) :
               /\ ReleaseUnused(hh, B, d, dsize, K)
               /\ seg' = ((seg \ {l}) \cup {[l EXCEPT !.size = @ - n]}) \ K
               /\ topsize' = newsize
               /\ trim_check' = IF n # 0 THEN TrimThreshold
                                ELSE IF K = {} THEN None ELSE trim_check
    BY <1>2, <1>7, <1>8, <1>18, <2>3 DEF Trim
  <2>5. PICK hh : hh = IF n = 0 THEN h ELSE InitTop(Drop(h, p + size), p, size - n)
    OBVIOUS
  <2>6. PICK l2 : l2 = [l EXCEPT !.size = @ - n]
    OBVIOUS
  <2>7. PICK S2 : S2 = (seg \ {l}) \cup {l2}
    OBVIOUS
  <2>8. PICK K \in SUBSET Unused(hh) :
          /\ ReleaseUnused(hh, B, d, dsize, K)
          /\ seg' = S2 \ K
          /\ topsize' = size - n
          /\ trim_check' = IF n # 0 THEN TrimThreshold
                           ELSE IF K = {} THEN None ELSE trim_check
    BY <2>4, <2>5, <2>6, <2>7
  <2>9. n \in Nat /\ n < size
    BY <1>11, <2>4, SpareIs
  <2>10. l \in [base : Nat, size : Nat \ {0}, at : Nat] /\ n < l.size
    <3>1. /\ l.base \in Nat /\ l.size \in Nat /\ End(l) = l.base + l.size
          /\ l \in [base : Nat, size : Nat \ {0}, at : Nat]
      BY <2>1, OneSegment DEF Segments
    <3>2. Heap(h, p, Foot, seg)
      BY <1>11 DEF Result
    <3>3. PICK s \in seg : s.at = State /\ Holds(s, p)
      BY <3>2, TopIs
    <3>4. s = l
      BY <2>1, <2>2, <3>3 DEF Heap, TopOK
    <3>5. l.base <= p
      BY <1>11, <2>1, <3>3, <3>4, OneSegment
    <3>6. TopFoot \in Nat
      BY DEF TopFoot
    <3> QED
      BY <1>11, <2>2, <2>9, <3>1, <3>5, <3>6
  <2>11. /\ l2.base = l.base /\ l2.size = l.size - n /\ l2.at = State
         /\ l2 \in [base : Nat, size : Nat \ {0}, at : Nat]
    <3>1. l.size - n \in Nat \ {0}
      BY <2>9, <2>10
    <3>2. l2.base = l.base /\ l2.size = l.size - n /\ l2.at = l.at
      BY <2>6, <2>10
    <3>3. l2 \in [base : Nat, size : Nat \ {0}, at : Nat]
      BY <2>6, <2>10, <3>1
    <3> QED
      BY <2>2, <3>2, <3>3
  <2>12. /\ Result(hh, p, Foot - n, S2, Used(chunks, seg) \ {a}, A)
         /\ SameSize(h, hh, (Used(chunks, seg) \ {a}) \cup A)
    <3>1. Foot \in Nat
      BY <1>11
    <3>2. CASE n = 0
      <4>1. hh = h /\ Foot - n = Foot
        BY <2>5, <3>1, <3>2
      <4>2. l2 = l
        BY <2>6, <2>10, <3>2
      <4>3. S2 = seg
        BY <2>2, <2>7, <4>2
      <4> QED
        BY <1>11, <4>1, <4>3 DEF SameSize
    <3>3. CASE n # 0
      <4>1. Trimming(h, p, size, n, l, l2, hh)
        BY <2>2, <2>5, <2>9, <2>10, <2>11, <3>3 DEF Trimming
      <4>2. Heap(h, p, Foot, seg) /\ Used(h, seg) = Used(chunks, seg) \ {a} /\ Avail(h, p, Foot) = A
        BY <1>11 DEF Result
      <4>3. /\ Result(hh, p, Foot - n, S2, Used(h, seg), Avail(h, p, Foot))
            /\ SameSize(h, hh, DOMAIN h \ {p, Foot})
        BY <1>11, <2>7, <4>1, <4>2, TrimTop
      <4>4. \A x \in Used(h, seg) \cup Avail(h, p, Foot) : x \in DOMAIN h \ {p, Foot}
        BY <4>2, TopIs DEF Used, Avail
      <4> QED
        BY <4>2, <4>3, <4>4 DEF SameSize
    <3> QED
      BY <3>2, <3>3
  <2>13. Roles(A, hh, B, d, dsize)
    BY <1>16, <2>12 DEF Roles, SameSize
  <2>14. PICK X : X = Unused(hh)
    OBVIOUS
  <2>15. X = Empty(hh, S2)
    <3>1. \A s : (s \in seg /\ s.at # State) <=> (s \in S2 /\ s.at # State)
      BY <2>2, <2>7, <2>11
    <3> QED
      BY <2>14, <3>1 DEF Unused, Empty
  <2>16. Unmapping(hh, S2, X, K, B, d, dsize, chunks', seg', binned', dv', dvsize')
    BY <2>8, <2>14, <2>15 DEF ReleaseUnused, Unmapping
  <2>17. /\ Result(chunks', p, Foot - n, seg', Used(chunks, seg) \ {a}, A \ Bases(K))
         /\ Roles(A \ Bases(K), chunks', binned', dv', dvsize')
         /\ SameSize(hh, chunks', Used(chunks, seg) \ {a})
    BY <2>12, <2>13, <2>16, ReleaseKeeps
  <2>18. /\ trim_check' \in {TrimThreshold, None} /\ release_checks' \in Nat \ {0}
         /\ topsize' \in Nat \ {0}
    BY <1>11, <2>8, <2>9, NextCheckIs DEF IInv, ReleaseUnused
  <2>19. top' = p /\ Foot' = Foot - n
    BY <1>8, <1>11, <2>8, <2>9 DEF Foot
  <2>20. SameSize(chunks, chunks', Used(chunks, seg) \ {a})
    BY <1>14, <2>12, <2>17 DEF SameSize
  <2>21. Result(chunks', top', Foot', seg', Used(chunks, seg) \ {a}, A \ Bases(K))
    BY <2>17, <2>19
  <2> QED
    BY <1>1, <2>17, <2>18, <2>20, <2>21, TakeBackKeeps
<1> QED
  BY <1>17, <1>18

------------------------------------------------------------------------------
\* The invariant holds of every behaviour.

\* create_mspace
LEMMA InitHolds ==
  ASSUME Init
  PROVE  IInv
<1>1. PICK h0 : h0 = [a \in {State} |-> [size |-> StateSize, cinuse |-> TRUE,
                                         pinuse |-> TRUE, prev_foot |-> InUseFoot]]
  OBVIOUS
<1>2. PICK t0 : t0 = Granularity - TopFoot - StateSize
  OBVIOUS
<1>3. PICK s0 : s0 = [base |-> 0, size |-> Granularity, at |-> State]
  OBVIOUS
<1>4. /\ chunks = InitTop(h0, StateSize, t0) /\ top = StateSize /\ topsize = t0
      /\ seg = {s0} /\ binned = {} /\ dv = None /\ dvsize = 0
      /\ trim_check = TrimThreshold /\ release_checks = ReleaseRate
      /\ extra = {} /\ given = {}
  BY <1>1, <1>2, <1>3 DEF Init
<1>5. /\ StateSize \in Nat \ {0} /\ StateSize >= MinChunk /\ t0 \in Nat \ {0}
      /\ TopFoot \in Nat /\ TopFoot >= MinChunk /\ StateSize + t0 + TopFoot = Granularity
      /\ MinChunk \in Nat /\ MinChunk > 1
  BY <1>2 DEF TopFoot
<1>6. /\ DOMAIN h0 = {0} /\ h0[0].size = StateSize /\ h0[0].cinuse /\ h0[0].pinuse
      /\ h0[0].prev_foot = 0 /\ h0[0] \in HeaderSet
  BY <1>1, <1>5 DEF State, InUseFoot, HeaderSet
<1>7. /\ s0.base = 0 /\ s0.size = Granularity /\ s0.at = 0 /\ End(s0) = Granularity
      /\ s0 \in [base : Nat, size : Nat \ {0}, at : Nat]
  BY <1>3, <1>5 DEF State, End
<1>8. Foot = StateSize + t0
  BY <1>4 DEF Foot
<1>9. Topped(h0, chunks, StateSize, t0, Foot)
  <2>1. Typed(h0)
    BY <1>6 DEF Typed
  <2> QED
    BY <1>4, <1>5, <1>8, <2>1, InitTopIs
<1>10. /\ Typed(chunks) /\ DOMAIN chunks = {0, StateSize, Foot}
       /\ chunks[0].size = StateSize /\ chunks[0].cinuse /\ chunks[0].pinuse
       /\ chunks[0].prev_foot = 0
       /\ chunks[StateSize].size = t0 /\ ~chunks[StateSize].cinuse /\ chunks[StateSize].pinuse
       /\ chunks[Foot].size = TopFoot /\ ~chunks[Foot].cinuse /\ ~chunks[Foot].pinuse
       /\ chunks[Foot].prev_foot = 0
       /\ Foot \in Nat /\ Foot > StateSize /\ StateSize > 0 /\ Foot + TopFoot = Granularity
  BY <1>5, <1>6, <1>8, <1>9 DEF Topped, Elsewhere, Is
<1>11. \A x \in Nat : Holds(s0, x) <=> x < Granularity
  BY <1>5, <1>7 DEF Holds
<1>12. Segments(seg)
  BY <1>4, <1>7, FS_Singleton DEF Segments
<1>13. Geometry(chunks, seg, Foot)
  <2>1. Apart(chunks)
    BY <1>5, <1>8, <1>10 DEF Apart
  <2>2. Home(chunks, seg)
    BY <1>4, <1>5, <1>8, <1>10, <1>11 DEF Home
  <2>3. Chained(chunks, seg, Foot)
    BY <1>4, <1>5, <1>7, <1>8, <1>10, <1>11 DEF Chained
  <2>4. Based(chunks, seg)
    BY <1>4, <1>7, <1>10 DEF Based
  <2> QED
    BY <2>1, <2>2, <2>3, <2>4 DEF Geometry
<1>14. Tags(chunks, top, Foot)
  <2>1. Forward(chunks, top, Foot)
    BY <1>4, <1>5, <1>8, <1>10 DEF Forward
  <2>2. Back(chunks, top, Foot)
    BY <1>4, <1>10 DEF Back
  <2>3. FreePinuse(chunks, Foot)
    BY <1>10 DEF FreePinuse
  <2> QED
    BY <2>1, <2>2, <2>3 DEF Tags
<1>15. TopOK(chunks, top, Foot, seg)
  BY <1>4, <1>5, <1>7, <1>8, <1>10, <1>11 DEF TopOK, Is, State
<1>16. RecordsOK(chunks, seg)
  BY <1>4, <1>7, <1>10 DEF RecordsOK, State
<1>17. SizesOK(chunks, top)
  BY <1>4, <1>5, <1>10 DEF SizesOK
<1>18. Used(chunks, seg) = {} /\ Avail(chunks, top, Foot) = {}
  BY <1>4, <1>7, <1>10 DEF Used, Avail
<1>19. Roles(Avail(chunks, top, Foot), chunks, binned, dv, dvsize)
  BY <1>4, <1>18 DEF Roles
<1>20. Blocks(Used(chunks, seg), chunks, extra, given)
  BY <1>4, <1>18 DEF Blocks
<1>21. topsize \in Nat \ {0} /\ trim_check \in {TrimThreshold, None} /\ release_checks \in Nat \ {0}
  BY <1>4, <1>5
<1> QED
  BY <1>10, <1>12, <1>13, <1>14, <1>15, <1>16, <1>17, <1>19, <1>20, <1>21 DEF IInv, Heap

LEMMA MallocKeeps ==
  ASSUME IInv, NEW nb \in Requests, Malloc(nb)
  PROVE  IInv'
<1>1. CASE MallocBinned(nb)
  BY <1>1, MallocBinnedKeeps
<1>2. CASE MallocDv(nb)
  BY <1>2, MallocDvKeeps
<1>3. CASE MallocTop(nb)
  BY <1>3, MallocTopKeeps
<1>4. CASE SysAppend(nb)
  BY <1>4, SysAppendKeeps
<1>5. CASE SysPrepend(nb)
  BY <1>5, SysPrependKeeps
<1>6. CASE SysAddSegment(nb)
  BY <1>6, SysAddSegmentKeeps
<1> QED
  BY <1>1, <1>2, <1>3, <1>4, <1>5, <1>6 DEF Malloc

LEMMA FreeKeeps ==
  ASSUME IInv, NEW a, Free(a)
  PROVE  IInv'
<1>1. GivenBack(a)
  BY DEF Free
<1>2. CASE FreeBehindDv(a)
  BY <1>1, <1>2, FreeBehindDvKeeps
<1>3. CASE FreeBeforeDv(a)
  BY <1>1, <1>3, FreeBeforeDvKeeps
<1>4. CASE FreeBeforeTop(a)
  BY <1>1, <1>4, FreeBeforeTopKeeps
<1>5. CASE FreeBinned(a)
  BY <1>1, <1>5, FreeBinnedKeeps
<1> QED
  BY <1>2, <1>3, <1>4, <1>5 DEF Free

LEMMA ReallocKeeps ==
  ASSUME IInv, NEW b \in given, NEW nb \in Resizes, Realloc(b, nb)
  PROVE  IInv'
BY ReallocShrinkKeeps, ReallocIntoTopKeeps DEF Realloc

\* Every step keeps the invariant.
LEMMA NextKeeps ==
  ASSUME IInv, [Next]_vars
  PROVE  IInv'
<1>1. CASE \E nb \in Requests : Malloc(nb)
  BY <1>1, MallocKeeps
<1>2. CASE \E b \in given, nb \in Resizes : Realloc(b, nb)
  BY <1>2, ReallocKeeps
<1>3. CASE \E a \in extra \cup {b.at : b \in given} : Free(a)
  BY <1>3, FreeKeeps
<1>4. CASE UNCHANGED vars
  <2>1. /\ chunks' = chunks /\ binned' = binned /\ dv' = dv /\ dvsize' = dvsize
        /\ top' = top /\ topsize' = topsize /\ seg' = seg
        /\ trim_check' = trim_check /\ release_checks' = release_checks
        /\ extra' = extra /\ given' = given /\ Foot' = Foot
    BY <1>4 DEF vars, freeVars, sysVars, Foot
  <2> QED
    BY <2>1 DEF IInv
<1> QED
  BY <1>1, <1>2, <1>3, <1>4 DEF Next

\* The heap keeps its shape: chunks tile the segments, the tags agree, each chunk
\* in use is held by somebody and each free one is found.
THEOREM Invariance == Spec => []IInv
<1>1. Init => IInv
  BY InitHolds
<1>2. IInv /\ [Next]_vars => IInv'
  BY NextKeeps
<1> QED
  BY <1>1, <1>2, PTL DEF Spec

------------------------------------------------------------------------------
\* What the invariant says of the heap.

\* Every address and size of the heap is one of the memory.
THEOREM TypeCorrect == Spec => []TypeOK
<1>1. ASSUME IInv
      PROVE  TypeOK
  <2>1. Heap(chunks, top, Foot, seg) /\ Segments(seg)
    BY <1>1 DEF IInv, Heap
  <2>2. \A a \in DOMAIN chunks :
          /\ a \in Nat /\ a < Memory /\ chunks[a].size \in 1 .. Memory
          /\ chunks[a] \in HeaderSet
    BY <2>1, HeapTypes, SizeBound DEF Heap, Typed
  <2>3. \A a \in DOMAIN chunks :
          /\ a \in Address
          /\ chunks[a] \in [size : 1 .. Memory, cinuse : BOOLEAN, pinuse : BOOLEAN,
                            prev_foot : 0 .. Memory]
    BY <2>2 DEF Address, HeaderSet
  <2>4. Avail(chunks, top, Foot) \subseteq DOMAIN chunks /\ Used(chunks, seg) \subseteq DOMAIN chunks
    BY DEF Avail, Used
  <2>5. binned \subseteq Address /\ dv \in Address \cup {None} /\ dvsize \in 0 .. Memory
    <3>1. dv # None => dv \in DOMAIN chunks
      BY <1>1, <2>4 DEF IInv, Roles
    <3>2. binned \subseteq DOMAIN chunks
      BY <1>1, <2>4 DEF IInv, Roles
    <3>3. dvsize \in 0 .. Memory
      <4>1. CASE dv = None
        BY <1>1, <4>1 DEF IInv, Roles
      <4>2. CASE dv # None
        <5>1. dvsize = chunks[dv].size
          BY <1>1, <4>2 DEF IInv, Roles
        <5> QED
          BY <2>2, <3>1, <4>2, <5>1
      <4> QED
        BY <4>1, <4>2
    <3> QED
      BY <2>3, <3>1, <3>2, <3>3
  <2>6. top \in Address /\ topsize \in 1 .. Memory
    BY <1>1, <2>2, <2>3, Now
  <2>7. seg \subseteq [base : Address, size : 1 .. Memory, at : Address]
    <3> SUFFICES ASSUME NEW s \in seg
                 PROVE  s \in [base : Address, size : 1 .. Memory, at : Address]
      OBVIOUS
    <3>1. s \in [base : Nat, size : Nat \ {0}, at : Nat] /\ End(s) <= Memory
      BY <2>1 DEF Segments
    <3>2. s.base \in 0 .. Memory - 1 /\ s.size \in 1 .. Memory
      BY <3>1 DEF End
    <3>3. s.at \in Address
      BY <2>1, <2>3 DEF Heap, RecordsOK
    <3> QED
      BY <3>1, <3>2, <3>3 DEF Address
  <2>8. trim_check \in {TrimThreshold, None} /\ release_checks \in Nat \ {0}
    BY <1>1 DEF IInv
  <2>9. extra \subseteq Address /\ given \subseteq [at : Address, size : Requests \cup Resizes]
    <3>1. extra \subseteq Used(chunks, seg)
      BY <1>1 DEF IInv, Blocks
    <3>2. \A b \in given : b \in [at : Nat, size : Requests \cup Resizes] /\ b.at \in Used(chunks, seg)
      BY <1>1 DEF IInv, Blocks
    <3> QED
      BY <2>3, <2>4, <3>1, <3>2
  <2> QED
    BY <2>3, <2>5, <2>6, <2>7, <2>8, <2>9 DEF TypeOK
<1> QED
  BY <1>1, Invariance, PTL

\* traverse_and_check passes every chunk.
LEMMA TiledIs ==
  ASSUME IInv
  PROVE  Tiled
<1>1. Heap(chunks, top, Foot, seg) /\ Geometry(chunks, seg, Foot) /\ Segments(seg)
  BY DEF IInv, Heap
<1>2. \A s \in seg : s.base \in DOMAIN chunks
  BY <1>1 DEF Geometry, Based
<1>3. ASSUME NEW a \in DOMAIN chunks
      PROVE  /\ \A b \in a + 1 .. After(a) - 1 : b \notin DOMAIN chunks
             /\ \/ Followed(a)
                \/ \E s \in seg : After(a) \in {End(s) - 1, End(s)}
  <2>1. a \in Nat /\ After(a) = a + chunks[a].size /\ chunks[a].size \in Nat
    BY <1>1, HeapTypes DEF After, SizeOf
  <2>2. \A b \in a + 1 .. After(a) - 1 : b \notin DOMAIN chunks
    BY <1>1, <2>1 DEF Geometry, Apart
  <2>3. PICK s \in seg : Holds(s, a)
    BY <1>1 DEF Geometry, Home
  <2>4. \/ After(a) < End(s) /\ After(a) \in DOMAIN chunks
        \/ After(a) \in {End(s) - 1, End(s)}
    BY <1>1, <2>1, <2>3 DEF Geometry, Chained
  <2>5. CASE After(a) < End(s) /\ After(a) \in DOMAIN chunks
    <3>1. Holds(s, After(a))
      BY <1>1, <2>1, <2>3, <2>5, OneSegment
    <3> QED
      BY <2>2, <2>3, <2>5, <3>1 DEF Followed
  <2> QED
    BY <2>2, <2>4, <2>5
<1> QED
  BY <1>2, <1>3 DEF Tiled

\* What a chunk says of itself its neighbours say too.
LEMMA TagsAgreeIs ==
  ASSUME IInv
  PROVE  TagsAgree
<1>1. Heap(chunks, top, Foot, seg) /\ Tags(chunks, top, Foot) /\ Segments(seg)
  BY DEF IInv, Heap
<1> SUFFICES ASSUME NEW a \in DOMAIN chunks, Followed(a)
             PROVE  /\ chunks[After(a)].pinuse = chunks[a].cinuse
                    /\ (~chunks[a].cinuse /\ a # top) =>
                         (chunks[After(a)].prev_foot = SizeOf(a) /\ chunks[After(a)].cinuse)
  BY DEF TagsAgree
<1>2. a \in Nat /\ After(a) = a + chunks[a].size /\ chunks[a].size \in Nat /\ SizeOf(a) = chunks[a].size
  BY <1>1, HeapTypes DEF After, SizeOf
<1>3. PICK s \in seg : Holds(s, a) /\ Holds(s, After(a))
  BY DEF Followed
<1>4. a # Foot
  <2>1. After(a) < End(s)
    BY <1>1, <1>2, <1>3, OneSegment
  <2>2. a = Foot => After(a) = End(s)
    BY <1>1, <1>2, <1>3 DEF Heap, Geometry, Chained
  <2> QED
    BY <1>1, <1>2, <2>1, <2>2, OneSegment
<1>5. After(a) \in DOMAIN chunks
  BY DEF Followed
<1>6. /\ chunks[After(a)].pinuse <=> chunks[a].cinuse
      /\ ~chunks[a].cinuse /\ a # top =>
           chunks[After(a)].prev_foot = chunks[a].size /\ chunks[After(a)].cinuse
  BY <1>1, <1>2, <1>4, <1>5 DEF Tags, Forward
<1>7. chunks[After(a)].pinuse \in BOOLEAN /\ chunks[a].cinuse \in BOOLEAN
  BY <1>1, <1>5, HeapTypes
<1> QED
  BY <1>2, <1>6, <1>7

\* Every free chunk can be found.
LEMMA FreeFoundIs ==
  ASSUME IInv
  PROVE  FreeFound
<1>1. Heap(chunks, top, Foot, seg)
  BY DEF IInv
<1>2. /\ top \in DOMAIN chunks /\ Foot \in DOMAIN chunks
      /\ ~chunks[top].cinuse /\ ~chunks[Foot].cinuse /\ top \in Nat
  BY <1>1, TopIs
<1>3. /\ Avail(chunks, top, Foot) = binned \cup ({dv} \ {None})
      /\ dv \notin binned
      /\ dvsize = IF dv = None THEN 0 ELSE chunks[dv].size
  BY DEF IInv, Roles
<1>4. {a \in DOMAIN chunks : ~chunks[a].cinuse} = Avail(chunks, top, Foot) \cup {top, Foot}
  BY <1>2 DEF Avail
<1>5. \A p \in Avail(chunks, top, Foot) : p # top /\ SizeOf(p) >= MinChunk
  BY Now
<1>6. top # None
  BY <1>2
<1>7. topsize = SizeOf(top)
  BY Now DEF SizeOf
<1>8. {a \in DOMAIN chunks : ~chunks[a].cinuse}
        = binned \cup ({dv} \ {None}) \cup {top, top + topsize}
  BY <1>3, <1>4 DEF Foot
<1>9. top \notin binned \cup {dv}
  BY <1>3, <1>5, <1>6
<1>10. dvsize = IF dv = None THEN 0 ELSE SizeOf(dv)
  BY <1>3 DEF SizeOf
<1>11. \A a \in binned : SizeOf(a) >= MinChunk
  BY <1>3, <1>5
<1> QED
  BY <1>3, <1>7, <1>8, <1>9, <1>10, <1>11 DEF FreeFound

\* What do_check_malloc_state and its helpers assert of a heap holds whenever no
\* operation is under way.
THEOREM HeapChecked == Spec => []CheckedState
<1>1. ASSUME IInv
      PROVE  Tiled /\ TagsAgree /\ FreeFound /\ FitsWell
  <2>1. FitsWell
    BY <1>1 DEF IInv, Blocks, FitsWell, SizeOf
  <2> QED
    BY <1>1, <2>1, TiledIs, TagsAgreeIs, FreeFoundIs
<1>2. TypeOK /\ Tiled /\ TagsAgree /\ FreeFound /\ FitsWell => CheckedState
  BY DEF CheckedState
<1> QED
  BY <1>1, <1>2, Invariance, TypeCorrect, PTL

\* A chunk in use that nobody holds is one of the heap's own.
THEOREM NoChunkLeaks == Spec => []NothingLeaks
<1>1. ASSUME IInv
      PROVE  NothingLeaks
  <2> SUFFICES ASSUME NEW a \in DOMAIN chunks, chunks[a].cinuse
               PROVE  \/ SizeOf(a) = 1
                      \/ a \in extra \cup Records
                      \/ \E b \in given : b.at = a
    BY DEF NothingLeaks
  <2>1. CASE a \in Used(chunks, seg)
    BY <1>1, <2>1 DEF IInv, Blocks
  <2>2. CASE a \notin Used(chunks, seg)
    BY <2>2 DEF Used, SizeOf, Records
  <2> QED
    BY <2>1, <2>2
<1> QED
  BY <1>1, Invariance, PTL

------------------------------------------------------------------------------
\* The contract of a heap.

\* Blocks lie in the memory that is mapped and do not overlap.
LEMMA SoundIs ==
  ASSUME IInv
  PROVE  Contract!Sound
<1>1. Heap(chunks, top, Foot, seg) /\ Geometry(chunks, seg, Foot) /\ Segments(seg)
  BY DEF IInv, Heap
<1>2. \A b \in given :
        /\ b.at \in DOMAIN chunks /\ b.at \in Nat /\ b.size \in Nat
        /\ chunks[b.at].size \in Nat /\ b.size <= chunks[b.at].size
  <2> SUFFICES ASSUME NEW b \in given
               PROVE  /\ b.at \in DOMAIN chunks /\ b.at \in Nat /\ b.size \in Nat
                      /\ chunks[b.at].size \in Nat /\ b.size <= chunks[b.at].size
    OBVIOUS
  <2>1. b \in [at : Nat, size : Requests \cup Resizes] /\ b.at \in Used(chunks, seg)
        /\ chunks[b.at].size >= b.size
    BY DEF IInv, Blocks
  <2>2. b.size \in Nat
    BY <2>1
  <2>3. b.at \in DOMAIN chunks
    BY <2>1 DEF Used
  <2> QED
    BY <1>1, <2>1, <2>2, <2>3, HeapTypes
<1>3. ASSUME NEW b \in given
      PROVE  b.at .. b.at + b.size - 1 \subseteq Mapped
  <2>1. PICK s \in seg : Holds(s, b.at)
    BY <1>1, <1>2 DEF Geometry, Home
  <2>2. b.at + chunks[b.at].size <= End(s)
    BY <1>1, <1>2, <2>1, Within
  <2>3. s.base <= b.at /\ s.base \in Nat /\ End(s) \in Nat
    BY <1>1, <1>2, <2>1, OneSegment
  <2>4. \A x \in b.at .. b.at + b.size - 1 : x \in s.base .. End(s) - 1
    BY <1>2, <2>2, <2>3
  <2> QED
    BY <2>4 DEF Mapped
<1>4. ASSUME NEW b \in given, NEW c \in given, b # c
      PROVE  b.at + b.size <= c.at \/ c.at + c.size <= b.at
  <2>1. b.at # c.at
    BY <1>4 DEF IInv, Blocks
  <2>2. b.at + chunks[b.at].size <= c.at \/ c.at + chunks[c.at].size <= b.at
    BY <1>1, <1>2, <2>1 DEF Geometry, Apart
  <2> QED
    BY <1>2, <2>2
<1> QED
  BY <1>3, <1>4 DEF Contract!Sound

\* malloc gives the program one block.
LEMMA MallocGives ==
  ASSUME NEW nb \in Requests, Malloc(nb)
  PROVE  \E p : given' = given \cup {[at |-> p, size |-> nb]}
<1>1. CASE MallocBinned(nb)
  BY <1>1 DEF MallocBinned, Give
<1>2. CASE MallocDv(nb)
  BY <1>2 DEF MallocDv, Give
<1>3. CASE MallocTop(nb)
  BY <1>3 DEF MallocTop, SplitTop, Give
<1>4. CASE SysAppend(nb)
  BY <1>4 DEF SysAppend, SplitTop, Give
<1>5. CASE SysPrepend(nb)
  BY <1>5 DEF SysPrepend, Give
<1>6. CASE SysAddSegment(nb)
  BY <1>6 DEF SysAddSegment, SplitTop, Give
<1> QED
  BY <1>1, <1>2, <1>3, <1>4, <1>5, <1>6 DEF Malloc

\* Every step is one that the contract allows.
LEMMA StepImplements ==
  ASSUME IInv, IInv', [Next]_vars
  PROVE  [Contract!Next]_<<given, Mapped>>
<1>1. Contract!Sound'
  BY SoundIs, PTL
<1>2. CASE \E nb \in Requests : Malloc(nb)
  <2>1. PICK nb \in Requests : \E p : given' = given \cup {[at |-> p, size |-> nb]}
    BY <1>2, MallocGives
  <2>2. PICK b : given' = given \cup {b}
    BY <2>1
  <2>3. Contract!Malloc \/ given' = given
    BY <2>2 DEF Contract!Malloc
  <2> QED
    BY <1>1, <2>3 DEF Contract!Next
<1>3. CASE \E b \in given, nb \in Resizes : Realloc(b, nb)
  <2>1. PICK b \in given, nb \in Resizes : given' = (given \ {b}) \cup {[b EXCEPT !.size = nb]}
    BY <1>3 DEF Realloc, ReallocShrink, ReallocIntoTop, Resize
  <2>2. PICK c : c = [b EXCEPT !.size = nb]
    OBVIOUS
  <2>3. b \in [at : Nat, size : Requests \cup Resizes]
    BY DEF IInv, Blocks
  <2>4. c.at = b.at /\ given' = (given \ {b}) \cup {c} /\ c \in given'
    BY <2>1, <2>2, <2>3
  <2>5. Contract!Realloc
    BY <2>4 DEF Contract!Realloc
  <2> QED
    BY <1>1, <2>5 DEF Contract!Next
<1>4. CASE \E a \in extra \cup {b.at : b \in given} : Free(a)
  <2>1. PICK a : GivenBack(a)
    BY <1>4 DEF Free
  <2>2. given' = given \/ \E b \in given : given' = given \ {b}
    BY <2>1 DEF GivenBack
  <2>3. Contract!Free \/ given' = given
    BY <2>2 DEF Contract!Free
  <2> QED
    BY <1>1, <2>3 DEF Contract!Next
<1>5. CASE UNCHANGED vars
  BY <1>5 DEF vars, sysVars, Mapped
<1> QED
  BY <1>2, <1>3, <1>4, <1>5 DEF Next

\* Whatever its headers say, the heap hands out memory that is mapped and that
\* nobody else holds.
THEOREM HeapImplemented == Spec => ImplementsHeap
<1>1. Init => Contract!Init
  <2>1. ASSUME Init PROVE Contract!Init
    BY <2>1, InitHolds, SoundIs DEF Init, Contract!Init
  <2> QED
    BY <2>1
<1>2. IInv /\ IInv' /\ [Next]_vars => [Contract!Next]_<<given, Mapped>>
  BY StepImplements
<1> QED
  BY <1>1, <1>2, Invariance, PTL DEF Spec, Contract!Spec, ImplementsHeap

------------------------------------------------------------------------------
\* The heap turns to the system last.

\* A set of naturals has a least one.
LEMMA LeastNatural ==
  ASSUME NEW T, T \subseteq Nat, T # {}
  PROVE  \E x \in T : \A y \in T : x <= y
<1> DEFINE R == OpToRel(<, Nat)
<1>1. IsWellFoundedOn(R, Nat)
  BY NatLessThanWellFounded
<1>2. \A x, y \in Nat : y < x => <<y, x>> \in R
  BY DEF OpToRel
<1> HIDE DEF R
<1>3. PICK x \in T : \A y \in T : ~ (<<y, x>> \in R)
  BY <1>1, WFMin
<1>4. \A y \in T : x \in Nat /\ y \in Nat /\ ~ (y < x)
  BY <1>2, <1>3
<1> QED
  BY <1>4

\* A set of chunks with none smallest is empty.
LEMMA SmallestOf ==
  ASSUME NEW A, \A a \in A : SizeOf(a) \in Nat, A # {}
  PROVE  Smallest(A) # {}
<1> DEFINE T == {SizeOf(a) : a \in A}
<1>1. T \subseteq Nat /\ T # {}
  OBVIOUS
<1>2. PICK x \in T : \A y \in T : x <= y
  BY <1>1, LeastNatural
<1>3. PICK a \in A : x = SizeOf(a)
  OBVIOUS
<1>4. a \in Smallest(A)
  BY <1>2, <1>3 DEF Smallest
<1> QED
  BY <1>4

\* A request that needs the system is one that no free chunk is large enough for.
LEMMA NothingFits ==
  ASSUME IInv, NEW nb \in Requests, NeedsSystem(nb),
         NEW a \in DOMAIN chunks, ~chunks[a].cinuse, a # Foot
  PROVE  SizeOf(a) < nb \/ (a = top /\ SizeOf(a) = nb)
<1>1. nb \in Nat /\ MinLarge \in Nat
  OBVIOUS
<1>2. Candidates(nb) = {} /\ nb > dvsize /\ nb >= topsize
  BY DEF NeedsSystem
<1>3. CASE a = top
  BY <1>1, <1>2, <1>3, Now DEF SizeOf
<1>4. CASE a # top
  <2>1. a \in Avail(chunks, top, Foot)
    BY <1>4 DEF Avail
  <2>2. SizeOf(a) \in Nat
    BY <2>1, Now
  <2>3. a = dv \/ a \in binned
    BY <2>1 DEF IInv, Roles
  <2>4. CASE a \notin binned
    <3>1. a = dv /\ a # None
      BY <2>1, <2>3, <2>4, Now, NoneAssumption
    <3>2. dvsize = SizeOf(a)
      BY <3>1 DEF IInv, Roles, SizeOf
    <3> QED
      BY <1>1, <1>2, <2>2, <3>2
  <2>5. CASE a \in binned
    <3>1. \A b \in binned : SizeOf(b) \in Nat
      <4>1. binned \subseteq Avail(chunks, top, Foot)
        BY DEF IInv, Roles
      <4> QED
        BY <4>1, Now
    <3>2. CASE ~Small(nb)
      <4>1. Smallest(TreeFits(nb)) = {}
        BY <1>2, <3>2 DEF Candidates
      <4>2. TreeFits(nb) = {}
        BY <3>1, <4>1, SmallestOf DEF TreeFits, Tree
      <4> QED
        BY <1>1, <2>2, <2>5, <3>2, <4>2 DEF TreeFits, Tree, Small
    <3>3. CASE Small(nb)
      <4>1. SmallFits(nb) = {}
        <5>1. SmallFits(nb) # {} => Smallest(SmallFits(nb)) = {}
          BY <1>2, <3>3 DEF Candidates
        <5> QED
          BY <3>1, <5>1, SmallestOf DEF SmallFits
      <4>2. Smallest(Tree) = {}
        BY <1>2, <3>3, <4>1 DEF Candidates
      <4>3. Tree = {}
        BY <3>1, <4>2, SmallestOf DEF Tree
      <4> QED
        BY <1>1, <2>2, <2>5, <4>1, <4>3 DEF SmallFits, Tree
    <3> QED
      BY <3>2, <3>3
  <2> QED
    BY <2>4, <2>5
<1> QED
  BY <1>3, <1>4

\* No block begins where top does, or in memory that was not mapped.
LEMMA NewBlock ==
  ASSUME IInv, NEW p, NEW nb \in Requests,
         p = top \/ \E b \in Regions(nb) : p = b,
         given' = given \cup {[at |-> p, size |-> nb]}
  PROVE  [at |-> p, size |-> nb] \in given' \ given
<1>1. p \notin Used(chunks, seg)
  <2>1. CASE p = top
    BY <2>1, Now
  <2>2. ASSUME NEW b \in Regions(nb), p = b
        PROVE  p \notin Used(chunks, seg)
    <3>1. Fresh(seg, b, SysSize(nb))
      BY RegionIs
    <3>2. ASSUME NEW s \in seg, Holds(s, b)
          PROVE  FALSE
      <4>1. Segments(seg)
        BY DEF IInv, Heap
      <4>2. s.base \in Nat /\ End(s) \in Nat /\ s.base <= b /\ b < End(s)
        BY <3>1, <3>2, <4>1, OneSegment DEF Fresh
      <4> QED
        BY <3>1, <4>2 DEF Fresh
    <3> QED
      BY <2>2, <3>2 DEF IInv, Heap, Geometry, Home, Used
  <2> QED
    BY <2>1, <2>2
<1>2. [at |-> p, size |-> nb].at = p
  OBVIOUS
<1>3. \A b \in given : b.at \in Used(chunks, seg)
  BY DEF IInv, Blocks
<1> QED
  BY <1>1, <1>2, <1>3

\* A part of the segments covers a part of the memory.
LEMMA LessMapped ==
  ASSUME \A r \in seg' : \E s \in seg : s.base = r.base /\ End(r) <= End(s) /\ End(s) \in Nat
                                        /\ End(r) \in Int /\ s.base \in Nat
  PROVE  Mapped' \subseteq Mapped
<1> SUFFICES ASSUME NEW r \in seg', NEW x \in r.base .. End(r) - 1
             PROVE  x \in Mapped
  BY DEF Mapped, End
<1>1. PICK s \in seg : s.base = r.base /\ End(r) <= End(s) /\ End(s) \in Nat
                       /\ End(r) \in Int /\ s.base \in Nat
  OBVIOUS
<1>2. x \in s.base .. End(s) - 1
  BY <1>1
<1> QED
  BY <1>2 DEF Mapped

\* Memory that is given back comes to no operation but those of sys_alloc.
LEMMA FreeUnmaps ==
  ASSUME IInv, NEW a, Free(a)
  PROVE  Mapped' \subseteq Mapped
<1>1. Segments(seg)
  BY DEF IInv, Heap
<1>2. \A s \in seg : /\ End(s) \in Nat /\ s.base \in Nat /\ End(s) <= End(s) /\ End(s) \in Int
                     /\ s \in [base : Nat, size : Nat \ {0}, at : Nat]
                     /\ End(s) = s.base + s.size
  BY <1>1, OneSegment DEF Segments
<1>3. CASE seg' \subseteq seg
  BY <1>2, <1>3, LessMapped
<1>4. CASE FreeBehindDv(a) \/ FreeBeforeDv(a)
  BY <1>3, <1>4 DEF FreeBehindDv, FreeBeforeDv, sysVars
<1>5. CASE FreeBinned(a)
  <2>1. UNCHANGED seg \/ \E K : seg' = seg \ K
    BY <1>5 DEF FreeBinned, sysVars
  <2> QED
    BY <1>3, <2>1
<1>6. CASE FreeBeforeTop(a)
  <2>1. PICK tsize : tsize = Joined(a) + topsize
    OBVIOUS
  <2>2. CASE ~(trim_check # None /\ tsize > trim_check)
    BY <1>3, <1>6, <2>1, <2>2 DEF FreeBeforeTop, sysVars
  <2>3. CASE trim_check # None /\ tsize > trim_check
    <3>1. PICK s : s = CHOOSE x \in seg : Holds(x, top)
      OBVIOUS
    <3>2. s \in seg
      <4>1. \E x \in seg : Holds(x, top)
        BY TopIs DEF IInv
      <4> QED
        BY <3>1, <4>1
    <3>3. PICK n \in {0, Spare(tsize)} :
             \E K : seg' = ((seg \ {s}) \cup {[s EXCEPT !.size = @ - n]}) \ K
      BY <1>6, <2>1, <2>3, <3>1 DEF FreeBeforeTop, Trim
    <3>4. n \in Nat
      <4>1. tsize \in Nat /\ tsize > 0
        <5>1. GivesBack(a, extra, given, extra', given') /\ a \in Used(chunks, seg)
          BY GivenBackIs DEF Free
        <5>2. PICK h : h = Header(Drop(Headers(a), top), First(a), tsize, FALSE)
          OBVIOUS
        <5>3. FreesTop(a, First(a), tsize, h)
          BY <1>6, <2>1, <5>2 DEF FreesTop, FreeBeforeTop
        <5> QED
          BY <5>1, <5>3, FreeTop
      <4> QED
        BY <3>3, <4>1, SpareIs
    <3>5. PICK r : r = [s EXCEPT !.size = @ - n]
      OBVIOUS
    <3>6. r.base = s.base /\ r.size = s.size - n
      BY <1>2, <3>2, <3>5
    <3>7. End(r) \in Int /\ End(r) <= End(s)
      BY <1>2, <3>2, <3>4, <3>6 DEF End
    <3>8. \A x \in seg' : x \in seg \/ x = r
      BY <3>3, <3>5
    <3> QED
      BY <1>2, <3>2, <3>6, <3>7, <3>8, LessMapped
  <2> QED
    BY <2>2, <2>3
<1> QED
  BY <1>4, <1>5, <1>6 DEF Free

\* A step that maps memory serves a request that nothing else could.
LEMMA StepAsksLast ==
  ASSUME IInv, [Next]_vars, ~(Mapped' \subseteq Mapped)
  PROVE  \E b \in given' \ given :
           \A a \in DOMAIN chunks : ~chunks[a].cinuse /\ a # top + topsize =>
             SizeOf(a) < b.size \/ (a = top /\ SizeOf(a) = b.size)
<1>1. seg' # seg
  BY DEF Mapped, End
<1>2. ~ \E a \in extra \cup {b.at : b \in given} : Free(a)
  BY FreeUnmaps
<1>3. ~ \E b \in given, nb \in Resizes : Realloc(b, nb)
  BY <1>1 DEF Realloc, ReallocShrink, ReallocIntoTop, sysVars
<1>4. PICK nb \in Requests : Malloc(nb)
  BY <1>1, <1>2, <1>3 DEF Next, vars, sysVars
<1>5. SysAppend(nb) \/ SysPrepend(nb) \/ SysAddSegment(nb)
  BY <1>1, <1>4 DEF Malloc, MallocBinned, MallocDv, MallocTop, sysVars
<1>6. NeedsSystem(nb)
  BY <1>5 DEF SysAppend, SysPrepend, SysAddSegment
<1>7. PICK p : /\ p = top \/ \E b \in Regions(nb) : p = b
               /\ given' = given \cup {[at |-> p, size |-> nb]}
  <2>1. CASE SysAppend(nb)
    BY <2>1 DEF SysAppend, SplitTop, Give
  <2>2. CASE SysPrepend(nb)
    BY <2>2 DEF SysPrepend, Give
  <2>3. CASE SysAddSegment(nb)
    BY <2>3 DEF SysAddSegment, SplitTop, Give
  <2> QED
    BY <1>5, <2>1, <2>2, <2>3
<1>8. PICK c : c = [at |-> p, size |-> nb]
  OBVIOUS
<1>9. c \in given' \ given /\ c.size = nb
  BY <1>7, <1>8, NewBlock
<1>10. \A a \in DOMAIN chunks : ~chunks[a].cinuse /\ a # top + topsize =>
         SizeOf(a) < c.size \/ (a = top /\ SizeOf(a) = c.size)
  BY <1>6, <1>9, NothingFits DEF Foot
<1> QED
  BY <1>9, <1>10

\* Memory is mapped only for a request that no free chunk is large enough for.
THEOREM SystemAskedLast == Spec => SystemIsLast
<1>1. IInv /\ [Next]_vars =>
        [~(Mapped' \subseteq Mapped) =>
          \E b \in given' \ given :
            \A a \in DOMAIN chunks : ~chunks[a].cinuse /\ a # top + topsize =>
              SizeOf(a) < b.size \/ (a = top /\ SizeOf(a) = b.size)]_vars
  BY StepAsksLast
<1> QED
  BY <1>1, Invariance, PTL DEF Spec, SystemIsLast

=============================================================================
