----------------------------- MODULE CircularQueue -----------------------------
(***************************************************************************)
(* The Queue<T, SIZE> template of queue.hpp: an array used as a ring, with *)
(* a head index, a tail index and a count.  Moves towards higher indices   *)
(* use % SIZE, moves towards lower ones a conditional, so the four         *)
(* operations agree only as long as head, tail and count stay in step.     *)
(* The driver keeps its command queue and both segment queues in it.       *)
(*                                                                         *)
(* A definition marked "Mutant" is a faulty variant of the definition that *)
(* follows it; nothing uses it, except to show that a property can fail.   *)
(***************************************************************************)
EXTENDS Naturals, Sequences

CONSTANTS Item, NoItem, SIZE

\* SIZE is a uint16_t template argument; an empty array cannot be declared.
ASSUME SizeAssumption == SIZE \in 1 .. 65535

VARIABLES data, head, tail, count, reply

vars == <<data, head, tail, count, reply>>

Slot == 0 .. SIZE - 1

Reply(ok, item, first) == [ok |-> ok, item |-> item, first |-> first]

IsEmpty == count = 0
IsFull  == count = SIZE

\* queueInit leaves the array as it finds it.
Init ==
    /\ data \in [Slot -> Item]
    /\ head = 0
    /\ tail = 0
    /\ count = 0
    /\ reply = Reply(TRUE, NoItem, FALSE)

\* Mutant: the test for the first push comes after the increment.
PushBackTestsLate(x) ==
    /\ ~IsFull
    /\ data' = [data EXCEPT ![tail] = x]
    /\ tail' = (tail + 1) % SIZE
    /\ count' = count + 1
    /\ reply' = Reply(TRUE, NoItem, count' = 0)
    /\ UNCHANGED head

PushBack(x) ==
    /\ ~IsFull
    /\ data' = [data EXCEPT ![tail] = x]
    /\ tail' = (tail + 1) % SIZE
    /\ count' = count + 1
    /\ reply' = Reply(TRUE, NoItem, IsEmpty)
    /\ UNCHANGED head

\* Mutant: the head does not wrap.
PushFrontNoWrap(x) ==
    /\ ~IsFull
    /\ head' = head - 1
    /\ data' = [data EXCEPT ![head'] = x]
    /\ count' = count + 1
    /\ reply' = Reply(TRUE, NoItem, IsEmpty)
    /\ UNCHANGED tail

PushFront(x) ==
    /\ ~IsFull
    /\ head' = IF head = 0 THEN SIZE - 1 ELSE head - 1
    /\ data' = [data EXCEPT ![head'] = x]
    /\ count' = count + 1
    /\ reply' = Reply(TRUE, NoItem, IsEmpty)
    /\ UNCHANGED tail

\* Either push on a full queue returns false and touches nothing.
PushFails ==
    /\ IsFull
    /\ reply' = Reply(FALSE, NoItem, FALSE)
    /\ UNCHANGED <<data, head, tail, count>>

PopFront ==
    /\ ~IsEmpty
    /\ head' = (head + 1) % SIZE
    /\ count' = count - 1
    /\ reply' = Reply(TRUE, data[head], FALSE)
    /\ UNCHANGED <<data, tail>>

\* Mutant: tail taken for the youngest item rather than the next free slot.
BackIndexAtTail == tail

\* Also the index queuePeekBack and queueBack look at.
BackIndex == IF tail = 0 THEN SIZE - 1 ELSE tail - 1

PopBack ==
    /\ ~IsEmpty
    /\ tail' = BackIndex
    /\ count' = count - 1
    /\ reply' = Reply(TRUE, data[BackIndex], FALSE)
    /\ UNCHANGED <<data, head>>

PopFails ==
    /\ IsEmpty
    /\ reply' = Reply(FALSE, NoItem, FALSE)
    /\ UNCHANGED <<data, head, tail, count>>

\* Mutant: the tail is left where it is.
ClearForgetsTail ==
    /\ head' = 0
    /\ count' = 0
    /\ reply' = Reply(TRUE, NoItem, FALSE)
    /\ UNCHANGED <<data, tail>>

Clear ==
    /\ head' = 0
    /\ tail' = 0
    /\ count' = 0
    /\ reply' = Reply(TRUE, NoItem, FALSE)
    /\ UNCHANGED data

Next ==
    \/ \E x \in Item : PushBack(x) \/ PushFront(x)
    \/ PushFails
    \/ PopFront
    \/ PopBack
    \/ PopFails
    \/ Clear

Spec == Init /\ [][Next]_vars

-------------------------------------------------------------------------------
(***************************************************************************)
(* The sequence the ring stands for, and the promise it keeps.             *)
(***************************************************************************)
Wrap(i) == IF i < SIZE THEN i ELSE i - SIZE

ItemsOf(d, h, c) == [i \in 1 .. c |-> d[Wrap(h + i - 1)]]

Items == ItemsOf(data, head, count)

TypeOK ==
    /\ data \in [Slot -> Item]
    /\ head \in Slot
    /\ tail \in Slot
    /\ count \in 0 .. SIZE
    /\ reply \in [ok : BOOLEAN, item : Item \cup {NoItem}, first : BOOLEAN]

\* The redundant fields agree after any mix of pushes and pops at either end:
\* tail is count slots ahead of head, around the ring.
IndicesAgree == tail = Wrap(head + count)

\* queueFront and queueBack return the two ends of the stored sequence, which
\* getTXBufferIndex and getRXBufferIndex rely on to find the free space.
EndsAgree ==
    count > 0 => /\ data[head] = Items[1]
                 /\ data[BackIndex] = Items[count]

Deque == INSTANCE BoundedDeque WITH items <- Items

\* Every operation of the ring does to the stored sequence what the same
\* operation does to a bounded deque, and reports what it reports.
ImplementsDeque == Deque!Spec
===============================================================================
