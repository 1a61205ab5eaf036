----------------------------- MODULE BoundedDeque -----------------------------
(***************************************************************************)
(* What a queue.hpp Queue promises its users: a double-ended sequence of   *)
(* at most SIZE items.  Every operation reports success or failure, the    *)
(* two pops report the item they removed, and a push into an empty queue   *)
(* (and only that) fires the on_first_push callback.                       *)
(***************************************************************************)
EXTENDS Naturals, Sequences

CONSTANTS
    Item,       \* the values stored
    NoItem,     \* what a failed pop, a push or a clear reports as the item
    SIZE        \* the capacity

VARIABLES
    items,      \* the stored sequence, front first
    reply       \* what the last operation reported

vars == <<items, reply>>

Reply(ok, item, first) == [ok |-> ok, item |-> item, first |-> first]

Init ==
    /\ items = <<>>
    /\ reply = Reply(TRUE, NoItem, FALSE)

PushBack(x) ==
    /\ Len(items) < SIZE
    /\ items' = Append(items, x)
    /\ reply' = Reply(TRUE, NoItem, items = <<>>)

PushFront(x) ==
    /\ Len(items) < SIZE
    /\ items' = <<x>> \o items
    /\ reply' = Reply(TRUE, NoItem, items = <<>>)

PushFails ==
    /\ Len(items) = SIZE
    /\ reply' = Reply(FALSE, NoItem, FALSE)
    /\ UNCHANGED items

PopFront ==
    /\ items # <<>>
    /\ items' = Tail(items)
    /\ reply' = Reply(TRUE, Head(items), FALSE)

PopBack ==
    /\ items # <<>>
    /\ items' = SubSeq(items, 1, Len(items) - 1)
    /\ reply' = Reply(TRUE, items[Len(items)], FALSE)

PopFails ==
    /\ items = <<>>
    /\ reply' = Reply(FALSE, NoItem, FALSE)
    /\ UNCHANGED items

Clear ==
    /\ items' = <<>>
    /\ reply' = Reply(TRUE, NoItem, FALSE)

Next ==
    \/ \E x \in Item : PushBack(x) \/ PushFront(x)
    \/ PushFails
    \/ PopFront
    \/ PopBack
    \/ PopFails
    \/ Clear

Spec == Init /\ [][Next]_vars
===============================================================================
