----------------------------- MODULE SlotAllocator -----------------------------
(***************************************************************************)
(* What an object pool promises its owner: alloc() hands out a slot that   *)
(* is not in use or, when every slot is in use, fails and changes nothing; *)
(* free() returns a slot; clear() returns them all.                        *)
(***************************************************************************)
CONSTANT Slot

VARIABLE used          \* the slots handed out and not returned

Init == used = {}

Alloc(s) == s \notin used /\ used' = used \cup {s}
Free(s)  == s \in used /\ used' = used \ {s}
Clear    == used' = {}

Next == Clear \/ \E s \in Slot : Alloc(s) \/ Free(s)

Spec == Init /\ [][Next]_used
==============================================================================
