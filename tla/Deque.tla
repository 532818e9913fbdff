-------------------------------- MODULE Deque --------------------------------
(***************************************************************************)
(* What a queue with two ends and a bound on its size promises.            *)
(***************************************************************************)
EXTENDS Naturals, Sequences

CONSTANTS
  Item,    \* what is queued
  Bound    \* how many items there may be

VARIABLES
  items,   \* in their order
  call     \* the last function called, and the item it took or returned

DequeInit == items = <<>> /\ call = [op |-> "none", item |-> <<>>]

HasRoom == Len(items) < Bound
Called(op, item) == call' = [op |-> op, item |-> item]

PushesTail == \E v \in Item : HasRoom /\ items' = Append(items, v) /\ Called("pushTail", <<v>>)
PushesHead == \E v \in Item : HasRoom /\ items' = <<v>> \o items /\ Called("pushHead", <<v>>)

PopsTail ==
  /\ items # <<>> /\ items' = SubSeq(items, 1, Len(items) - 1)
  /\ Called("popTail", <<items[Len(items)]>>)

PopsHead == items # <<>> /\ items' = Tail(items) /\ Called("popHead", <<items[1]>>)

Clears == items' = <<>> /\ Called("clear", <<>>)

\* Resizing promises a size and nothing else.
Resizes ==
  /\ \E n \in 0 .. Bound : items' \in [1 .. n -> Item]
  /\ Called("placementResize", <<>>)

DequeNext == PushesTail \/ PushesHead \/ PopsTail \/ PopsHead \/ Clears \/ Resizes

DequeSpec == DequeInit /\ [][DequeNext]_<<items, call>>
=============================================================================
