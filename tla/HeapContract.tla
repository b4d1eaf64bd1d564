---------------------------- MODULE HeapContract ----------------------------
(***************************************************************************)
(* What the program relies on from a heap: the blocks it holds lie in      *)
(* memory that the system has mapped, and no two of them overlap.  A block *)
(* is an address and a size.                                               *)
(***************************************************************************)
EXTENDS Integers

VARIABLES
  given,     \* blocks that the program holds
  mapped     \* addresses that may be used

Sound ==
  LET room == mapped IN
  /\ \A b \in given : b.at .. b.at + b.size - 1 \subseteq room
  /\ \A b, c \in given :
       b # c => b.at + b.size <= c.at \/ c.at + c.size <= b.at

Init == given = {} /\ Sound

Malloc  == \E b \in given' \ given : given' = given \cup {b}
Free    == \E b \in given : given' = given \ {b}
Realloc == \E b \in given : \E c \in given' : c.at = b.at /\ given' = (given \ {b}) \cup {c}

Next == (Malloc \/ Free \/ Realloc \/ given' = given) /\ Sound'

Spec == Init /\ [][Next]_<<given, mapped>>

==============================================================================
