--------------------------- MODULE PageAllocator ---------------------------
(***************************************************************************)
(* What a physical page allocator promises: the pages it was given are at  *)
(* every moment either free or part of exactly one block it handed out.    *)
(***************************************************************************)
CONSTANT Usable          \* the pages it may hand out

VARIABLES free,          \* the pages nobody owns
          owned          \* the blocks handed out, each a nonempty set of pages

Init == free = Usable /\ owned = {}

Allocate(b) == /\ b \subseteq free
               /\ b # {}
               /\ free' = free \ b
               /\ owned' = owned \cup {b}

Release(b) == /\ b \in owned
              /\ free' = free \cup b
              /\ owned' = owned \ {b}

Next == \/ \E b \in SUBSET free : Allocate(b)
        \/ \E b \in owned : Release(b)

Spec == Init /\ [][Next]_<< free, owned >>
=============================================================================
