---------------------------- MODULE RecursiveLock ----------------------------
(***************************************************************************)
(* What ACQUIRE_LOCK, TRY_LOCK and RELEASE_LOCK of the allocator promise:  *)
(* a lock that one thread owns at a time and that its owner may take again *)
(* as often as it gives it back.                                           *)
(***************************************************************************)
EXTENDS Naturals

CONSTANTS Threads, None

VARIABLES owner, depth

Init == owner = None /\ depth = 0

\* ACQUIRE_LOCK, or TRY_LOCK that succeeds, of a lock nobody owns ...
Take(t) ==
  /\ owner = None
  /\ owner' = t
  /\ depth' = 1

\* ... and of a lock the thread owns.
TakeAgain(t) ==
  /\ owner = t
  /\ depth' = depth + 1
  /\ UNCHANGED owner

\* RELEASE_LOCK
Give(t) ==
  /\ owner = t
  /\ depth' = depth - 1
  /\ owner' = IF depth = 1 THEN None ELSE owner

Next == \E t \in Threads : Take(t) \/ TakeAgain(t) \/ Give(t)

Spec == Init /\ [][Next]_<<owner, depth>>

==============================================================================
