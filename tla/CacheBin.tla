------------------------------ MODULE CacheBin ------------------------------
(***************************************************************************)
(* What the list of a bin of the thread cache is for: the blocks in the    *)
(* order in which they were freed, newest first.  An allocation takes the  *)
(* newest block, and space is given back from the oldest.                  *)
(***************************************************************************)
EXTENDS Naturals, Sequences

CONSTANT Blocks

VARIABLE bin

Init == bin = <<>>

Put == \E b \in Blocks : /\ \A n \in DOMAIN bin : bin[n] # b
                         /\ bin' = <<b>> \o bin

TakeNewest == bin # <<>> /\ bin' = Tail(bin)

RemoveOldest == bin # <<>> /\ bin' = SubSeq(bin, 1, Len(bin) - 1)

Next == Put \/ TakeNewest \/ RemoveOldest

Spec == Init /\ [][Next]_bin

==============================================================================
