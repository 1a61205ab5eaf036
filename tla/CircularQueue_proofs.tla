------------------------- MODULE CircularQueue_proofs -------------------------
(***************************************************************************)
(* The ring of queue.hpp is a bounded deque, for every capacity and every  *)
(* set of items.                                                           *)
(***************************************************************************)
EXTENDS CircularQueue, TLAPS

\* The remainder taken by the code equals the conditional used for the
\* opposite direction, as long as the index is less than one lap ahead.
LEMMA ModIsWrap ==
    ASSUME NEW i \in Nat, i < 2 * SIZE
    PROVE  i % SIZE = Wrap(i)
  <1>1. SIZE \in Nat /\ SIZE > 0
    BY SizeAssumption
  <1>2. CASE i < SIZE
    BY <1>1, <1>2, SMT DEF Wrap
  <1>3. CASE i >= SIZE
    BY <1>1, <1>3, SMT DEF Wrap
  <1> QED BY <1>1, <1>2, <1>3

\* Stepping one slot forward stays inside the array.
LEMMA NextSlot ==
    ASSUME NEW i \in Slot
    PROVE  (i + 1) % SIZE = Wrap(i + 1) /\ Wrap(i + 1) \in Slot
  <1>1. SIZE \in Nat /\ SIZE > 0 /\ i \in Nat /\ i + 1 \in Nat /\ i < SIZE
    BY SizeAssumption DEF Slot
  <1>2. i + 1 < 2 * SIZE
    BY <1>1
  <1>3. (i + 1) % SIZE = Wrap(i + 1)
    BY <1>1, <1>2, ModIsWrap
  <1>4. Wrap(i + 1) \in Slot
    BY <1>1 DEF Wrap, Slot
  <1> QED BY <1>3, <1>4

\* The type invariant as the inequalities the provers calculate with.
LEMMA Ranges ==
    ASSUME NEW h \in Slot, NEW t \in Slot, NEW c \in 0 .. SIZE
    PROVE  /\ SIZE \in Nat /\ SIZE > 0
           /\ h \in Nat /\ h < SIZE /\ t \in Nat /\ t < SIZE
           /\ c \in Nat /\ c <= SIZE
  BY SizeAssumption DEF Slot

Inv == TypeOK /\ IndicesAgree

\* What an operation returns is a reply, whatever its outcome.
LEMMA ReplyType ==
    ASSUME NEW ok \in BOOLEAN, NEW item \in Item \cup {NoItem}, NEW first \in BOOLEAN
    PROVE  Reply(ok, item, first) \in [ok : BOOLEAN, item : Item \cup {NoItem}, first : BOOLEAN]
  BY DEF Reply

\* queueInit: the empty ring satisfies the invariant.
LEMMA InitInv == Init => Inv
  <1> SUFFICES ASSUME Init PROVE Inv
    OBVIOUS
  <1>1. 0 \in Slot /\ 0 \in 0 .. SIZE /\ Wrap(0 + 0) = 0
    BY SizeAssumption DEF Slot, Wrap
  <1>2. reply \in [ok : BOOLEAN, item : Item \cup {NoItem}, first : BOOLEAN]
    BY ReplyType DEF Init
  <1> QED BY <1>1, <1>2 DEF Init, Inv, TypeOK, IndicesAgree

\* One step per operation: each moves exactly one of the two indices, by one
\* slot, in the direction that keeps the tail count slots ahead of the head.
LEMMA NextInv == Inv /\ [Next]_vars => Inv'
  <1> SUFFICES ASSUME Inv, [Next]_vars PROVE Inv'
    OBVIOUS
  <1>0. /\ head \in Slot /\ tail \in Slot /\ count \in 0 .. SIZE
        /\ data \in [Slot -> Item] /\ tail = Wrap(head + count)
    BY DEF Inv, TypeOK, IndicesAgree
  <1>r. /\ SIZE \in Nat /\ SIZE > 0
        /\ head \in Nat /\ head < SIZE /\ tail \in Nat /\ tail < SIZE
        /\ count \in Nat /\ count <= SIZE
    BY <1>0, Ranges
  <1>m. /\ (tail + 1) % SIZE = Wrap(tail + 1) /\ Wrap(tail + 1) \in Slot
        /\ (head + 1) % SIZE = Wrap(head + 1) /\ Wrap(head + 1) \in Slot
    BY <1>0, NextSlot
  <1>s. SUFFICES /\ head' \in Slot /\ tail' \in Slot /\ count' \in 0 .. SIZE
                 /\ data' \in [Slot -> Item] /\ tail' = Wrap(head' + count')
                 /\ reply' \in [ok : BOOLEAN, item : Item \cup {NoItem}, first : BOOLEAN]
    BY DEF Inv, TypeOK, IndicesAgree
  <1>b. BackIndex \in Slot /\ (IF head = 0 THEN SIZE - 1 ELSE head - 1) \in Slot
    BY <1>r DEF BackIndex, Slot
  <1>1. ASSUME NEW x \in Item, PushBack(x) PROVE <1>s!1
    <2>1. /\ head' = head /\ tail' = Wrap(tail + 1) /\ count' = count + 1 /\ count # SIZE
          /\ data' = [data EXCEPT ![tail] = x]
      BY <1>1, <1>m DEF PushBack, IsFull
    <2>2. tail' = Wrap(head' + count') /\ count' \in 0 .. SIZE
      BY <2>1, <1>0, <1>r DEF Wrap
    <2>3. reply' \in [ok : BOOLEAN, item : Item \cup {NoItem}, first : BOOLEAN]
      BY <1>1, ReplyType DEF PushBack, IsEmpty
    <2>4. data' \in [Slot -> Item]
      BY <2>1, <1>0
    <2> QED BY <2>1, <2>2, <2>3, <2>4, <1>0, <1>m
  <1>2. ASSUME NEW x \in Item, PushFront(x) PROVE <1>s!1
    <2>1. /\ head' = (IF head = 0 THEN SIZE - 1 ELSE head - 1) /\ tail' = tail
          /\ count' = count + 1 /\ count # SIZE
          /\ data' = [data EXCEPT ![head'] = x]
      BY <1>2 DEF PushFront, IsFull
    <2>2. tail' = Wrap(head' + count') /\ count' \in 0 .. SIZE
      BY <2>1, <1>0, <1>r DEF Wrap
    <2>3. reply' \in [ok : BOOLEAN, item : Item \cup {NoItem}, first : BOOLEAN]
      BY <1>2, ReplyType DEF PushFront, IsEmpty
    <2>4. data' \in [Slot -> Item]
      BY <2>1, <1>0
    <2> QED BY <2>1, <2>2, <2>3, <2>4, <1>0, <1>b
  <1>3. CASE PushFails
    <2>1. reply' \in [ok : BOOLEAN, item : Item \cup {NoItem}, first : BOOLEAN]
      BY <1>3, ReplyType DEF PushFails
    <2> QED BY <2>1, <1>3, <1>0 DEF PushFails
  <1>4. CASE PopFront
    <2>1. /\ head' = Wrap(head + 1) /\ tail' = tail /\ count' = count - 1 /\ count # 0
          /\ data' = data
      BY <1>4, <1>m DEF PopFront, IsEmpty
    <2>2. tail' = Wrap(head' + count') /\ count' \in 0 .. SIZE
      BY <2>1, <1>0, <1>r DEF Wrap
    <2>3. data[head] \in Item
      BY <1>0
    <2>4. reply' \in [ok : BOOLEAN, item : Item \cup {NoItem}, first : BOOLEAN]
      BY <1>4, <2>3, ReplyType DEF PopFront
    <2> QED BY <2>1, <2>2, <2>4, <1>0, <1>m
  <1>5. CASE PopBack
    <2>1. /\ head' = head /\ tail' = BackIndex /\ count' = count - 1 /\ count # 0
          /\ data' = data
      BY <1>5 DEF PopBack, IsEmpty
    <2>2. tail' = Wrap(head' + count') /\ count' \in 0 .. SIZE
      BY <2>1, <1>0, <1>r DEF Wrap, BackIndex
    <2>3. data[BackIndex] \in Item
      BY <1>0, <1>b
    <2>4. reply' \in [ok : BOOLEAN, item : Item \cup {NoItem}, first : BOOLEAN]
      BY <1>5, <2>3, ReplyType DEF PopBack
    <2> QED BY <2>1, <2>2, <2>4, <1>0, <1>b
  <1>6. CASE PopFails
    <2>1. reply' \in [ok : BOOLEAN, item : Item \cup {NoItem}, first : BOOLEAN]
      BY <1>6, ReplyType DEF PopFails
    <2> QED BY <2>1, <1>6, <1>0 DEF PopFails
  <1>7. CASE Clear
    <2>1. reply' \in [ok : BOOLEAN, item : Item \cup {NoItem}, first : BOOLEAN]
      BY <1>7, ReplyType DEF Clear
    <2>2. 0 \in Slot /\ 0 \in 0 .. SIZE /\ Wrap(0 + 0) = 0
      BY <1>r DEF Slot, Wrap
    <2> QED BY <2>1, <2>2, <1>7, <1>0 DEF Clear
  <1>8. CASE UNCHANGED vars
    BY <1>8, <1>0 DEF Inv, TypeOK, vars
  <1> QED BY <1>1, <1>2, <1>3, <1>4, <1>5, <1>6, <1>7, <1>8 DEF Next

\* The inductive invariant: the fields have their types and tail is count slots
\* ahead of head.
THEOREM Invariance == Spec => []Inv
  BY InitInv, NextInv, PTL DEF Spec

\* The head, tail and count of a queue of any capacity stay in range and the
\* slots in use hold items.
THEOREM TypeCorrect == Spec => []TypeOK
  <1>1. Inv => TypeOK
    BY DEF Inv
  <1> QED BY <1>1, Invariance, PTL

\* The three redundant indices agree, so the number of slots between head and
\* tail is the count that IsFull and IsEmpty test.
THEOREM IndicesAlwaysAgree == Spec => []IndicesAgree
  <1>1. Inv => IndicesAgree
    BY DEF Inv
  <1> QED BY <1>1, Invariance, PTL
-------------------------------------------------------------------------------
(***************************************************************************)
(* Refinement.  Items is read through Wrap, so each operation is shown to  *)
(* shift, extend or shorten that reading in the way the deque says.        *)
(***************************************************************************)
LEMMA ItemsIsSequence ==
    ASSUME NEW d \in [Slot -> Item], NEW h \in Slot, NEW c \in 0 .. SIZE
    PROVE  /\ ItemsOf(d, h, c) \in Seq(Item)
           /\ Len(ItemsOf(d, h, c)) = c
           /\ \A i \in 1 .. c : ItemsOf(d, h, c)[i] = d[Wrap(h + i - 1)]
           /\ (ItemsOf(d, h, c) = <<>>) <=> (c = 0)
  <1>1. /\ SIZE \in Nat /\ SIZE > 0 /\ c \in Nat /\ c <= SIZE
        /\ h \in Nat /\ h < SIZE
    BY SizeAssumption DEF Slot
  <1>2. \A i \in 1 .. c : Wrap(h + i - 1) \in Slot
    BY <1>1 DEF Wrap, Slot
  <1>3. ItemsOf(d, h, c) \in [1 .. c -> Item]
    BY <1>2 DEF ItemsOf
  <1>4. ItemsOf(d, h, c) \in Seq(Item) /\ Len(ItemsOf(d, h, c)) = c
    BY <1>1, <1>3
  <1>5. \A i \in 1 .. c : ItemsOf(d, h, c)[i] = d[Wrap(h + i - 1)]
    BY DEF ItemsOf
  <1>6. (ItemsOf(d, h, c) = <<>>) <=> (c = 0)
    BY <1>1, <1>4
  <1> QED BY <1>4, <1>5, <1>6

\* queueFront and queueBack point at the two ends of the stored sequence.
THEOREM EndsAlwaysAgree == Spec => []EndsAgree
  <1>1. Inv => EndsAgree
    <2> SUFFICES ASSUME Inv, count > 0
                 PROVE  data[head] = Items[1] /\ data[BackIndex] = Items[count]
      BY DEF EndsAgree
    <2>0. /\ head \in Slot /\ tail \in Slot /\ count \in 0 .. SIZE
          /\ data \in [Slot -> Item] /\ tail = Wrap(head + count)
      BY DEF Inv, TypeOK, IndicesAgree
    <2>1. /\ SIZE \in Nat /\ SIZE > 0 /\ count \in Nat /\ count <= SIZE
          /\ head \in Nat /\ head < SIZE /\ tail = Wrap(head + count)
      BY <2>0, Ranges
    <2>2. Wrap(head + 1 - 1) = head /\ Wrap(head + count - 1) = BackIndex
      BY <2>1 DEF Wrap, BackIndex
    <2>3. \A i \in 1 .. count : Items[i] = data[Wrap(head + i - 1)]
      BY <2>0, ItemsIsSequence DEF Items
    <2>4. Items[1] = data[Wrap(head + 1 - 1)]
          /\ Items[count] = data[Wrap(head + count - 1)]
      BY <2>1, <2>3
    <2> QED BY <2>2, <2>4
  <1> QED BY <1>1, Invariance, PTL

\* Sequences of one length with the same elements are the same.
LEMMA SameSequence ==
    ASSUME NEW s \in Seq(Item), NEW t \in Seq(Item), Len(s) = Len(t),
           \A i \in 1 .. Len(s) : s[i] = t[i]
    PROVE  s = t
  OBVIOUS

\* queuePushBack is the deque's push at the back, first-push notification included.
LEMMA PushBackRefines ==
    ASSUME Inv, Inv', NEW x \in Item, PushBack(x)
    PROVE  Deque!PushBack(x)
  <1>0. /\ head \in Slot /\ tail \in Slot /\ count \in 0 .. SIZE
        /\ data \in [Slot -> Item] /\ tail = Wrap(head + count)
        /\ head' \in Slot /\ count' \in 0 .. SIZE /\ data' \in [Slot -> Item]
    BY DEF Inv, TypeOK, IndicesAgree
  <1>r. /\ SIZE \in Nat /\ SIZE > 0 /\ count \in Nat /\ count <= SIZE
        /\ head \in Nat /\ head < SIZE
    BY <1>0, Ranges
  <1>1. /\ SIZE \in Nat /\ SIZE > 0 /\ count \in Nat /\ count < SIZE
        /\ head \in Nat /\ head < SIZE /\ tail = Wrap(head + count)
        /\ head' = head /\ count' = count + 1
        /\ data' = [data EXCEPT ![tail] = x] /\ data \in [Slot -> Item]
        /\ tail \in Slot
    BY <1>0, <1>r DEF PushBack, IsFull
  <1>2. /\ Items \in Seq(Item) /\ Len(Items) = count
        /\ \A i \in 1 .. count : Items[i] = data[Wrap(head + i - 1)]
        /\ (Items = <<>>) <=> (count = 0)
    BY <1>0, ItemsIsSequence DEF Items
  <1>3. /\ Items' \in Seq(Item) /\ Len(Items') = count'
        /\ \A i \in 1 .. count' : Items'[i] = data'[Wrap(head' + i - 1)]
    BY <1>0, ItemsIsSequence DEF Items
  <1>4. \A i \in 1 .. count : Items'[i] = Items[i]
    <2> TAKE i \in 1 .. count
    <2>1. Wrap(head + i - 1) # tail /\ Wrap(head + i - 1) \in Slot
      BY <1>1 DEF Wrap, Slot
    <2>2. Items'[i] = data'[Wrap(head + i - 1)] /\ Items[i] = data[Wrap(head + i - 1)]
      BY <1>1, <1>2, <1>3
    <2> QED BY <1>1, <2>1, <2>2
  <1>5. Items'[count + 1] = x
    <2>1. Wrap(head' + (count + 1) - 1) = tail
      BY <1>1 DEF Wrap
    <2>2. Items'[count + 1] = data'[Wrap(head' + (count + 1) - 1)]
      BY <1>1, <1>3
    <2> QED BY <1>1, <2>1, <2>2
  <1>6. Items' = Append(Items, x)
    <2>1. Append(Items, x) \in Seq(Item) /\ Len(Append(Items, x)) = count + 1
      BY <1>1, <1>2
    <2>2. \A i \in 1 .. count + 1 : Items'[i] = Append(Items, x)[i]
      BY <1>1, <1>2, <1>4, <1>5
    <2> QED BY <1>1, <1>3, <2>1, <2>2, SameSequence
  <1>7. reply' = Reply(TRUE, NoItem, Items = <<>>)
    BY <1>2 DEF PushBack, IsEmpty
  <1> QED BY <1>1, <1>2, <1>6, <1>7 DEF Deque!PushBack, Deque!Reply, Reply

\* queuePushFront is the deque's push at the front.
LEMMA PushFrontRefines ==
    ASSUME Inv, Inv', NEW x \in Item, PushFront(x)
    PROVE  Deque!PushFront(x)
  <1>0. /\ head \in Slot /\ tail \in Slot /\ count \in 0 .. SIZE
        /\ data \in [Slot -> Item] /\ tail = Wrap(head + count)
        /\ head' \in Slot /\ count' \in 0 .. SIZE /\ data' \in [Slot -> Item]
    BY DEF Inv, TypeOK, IndicesAgree
  <1>r. /\ SIZE \in Nat /\ SIZE > 0 /\ count \in Nat /\ count <= SIZE
        /\ head \in Nat /\ head < SIZE
    BY <1>0, Ranges
  <1>1. /\ SIZE \in Nat /\ SIZE > 0 /\ count \in Nat /\ count < SIZE
        /\ head \in Nat /\ head < SIZE
        /\ head' = (IF head = 0 THEN SIZE - 1 ELSE head - 1)
        /\ head' \in Slot /\ count' = count + 1
        /\ data' = [data EXCEPT ![head'] = x] /\ data \in [Slot -> Item]
    BY <1>0, <1>r DEF PushFront, IsFull
  <1>2. /\ Items \in Seq(Item) /\ Len(Items) = count
        /\ \A i \in 1 .. count : Items[i] = data[Wrap(head + i - 1)]
        /\ (Items = <<>>) <=> (count = 0)
    BY <1>0, ItemsIsSequence DEF Items
  <1>3. /\ Items' \in Seq(Item) /\ Len(Items') = count'
        /\ \A i \in 1 .. count' : Items'[i] = data'[Wrap(head' + i - 1)]
    BY <1>0, ItemsIsSequence DEF Items
  <1>4. \A i \in 1 .. count : Items'[i + 1] = Items[i]
    <2> TAKE i \in 1 .. count
    <2>1. /\ Wrap(head' + (i + 1) - 1) = Wrap(head + i - 1)
          /\ Wrap(head + i - 1) # head' /\ Wrap(head + i - 1) \in Slot
      BY <1>1 DEF Wrap, Slot
    <2>2. Items'[i + 1] = data'[Wrap(head' + (i + 1) - 1)]
          /\ Items[i] = data[Wrap(head + i - 1)]
      BY <1>1, <1>2, <1>3
    <2> QED BY <1>1, <2>1, <2>2
  <1>5. Items'[1] = x
    <2>1. Wrap(head' + 1 - 1) = head'
      BY <1>1 DEF Wrap, Slot
    <2>2. Items'[1] = data'[Wrap(head' + 1 - 1)]
      BY <1>1, <1>3
    <2> QED BY <1>1, <2>1, <2>2
  <1>6. Items' = <<x>> \o Items
    <2>1. <<x>> \o Items \in Seq(Item) /\ Len(<<x>> \o Items) = count + 1
      BY <1>1, <1>2
    <2>2. \A i \in 1 .. count + 1 : Items'[i] = (<<x>> \o Items)[i]
      <3> TAKE i \in 1 .. count + 1
      <3>1. CASE i = 1
        BY <1>2, <1>5, <3>1
      <3>2. CASE i # 1
        <4>1. i - 1 \in 1 .. count
          BY <1>1, <3>2
        <4>2. (<<x>> \o Items)[i] = Items[i - 1]
          BY <1>1, <1>2, <3>2
        <4>3. Items'[(i - 1) + 1] = Items[i - 1]
          BY <1>4, <4>1
        <4>4. (i - 1) + 1 = i
          BY <1>1
        <4> QED BY <4>2, <4>3, <4>4
      <3> QED BY <3>1, <3>2
    <2> QED BY <1>1, <1>3, <2>1, <2>2, SameSequence
  <1>7. reply' = Reply(TRUE, NoItem, Items = <<>>)
    BY <1>2 DEF PushFront, IsEmpty
  <1> QED BY <1>1, <1>2, <1>6, <1>7 DEF Deque!PushFront, Deque!Reply, Reply

\* queuePopFront is the deque's pop at the front.
LEMMA PopFrontRefines ==
    ASSUME Inv, Inv', PopFront
    PROVE  Deque!PopFront
  <1>0. /\ head \in Slot /\ tail \in Slot /\ count \in 0 .. SIZE
        /\ data \in [Slot -> Item] /\ tail = Wrap(head + count)
        /\ head' \in Slot /\ count' \in 0 .. SIZE /\ data' \in [Slot -> Item]
    BY DEF Inv, TypeOK, IndicesAgree
  <1>r. /\ SIZE \in Nat /\ SIZE > 0 /\ count \in Nat /\ count <= SIZE
        /\ head \in Nat /\ head < SIZE
    BY <1>0, Ranges
  <1>1. /\ SIZE \in Nat /\ SIZE > 0 /\ count \in Nat /\ count <= SIZE /\ count > 0
        /\ head \in Nat /\ head < SIZE /\ head' = Wrap(head + 1)
        /\ count' = count - 1 /\ data' = data
    BY <1>0, <1>r, NextSlot DEF PopFront, IsEmpty
  <1>2. /\ Items \in Seq(Item) /\ Len(Items) = count
        /\ \A i \in 1 .. count : Items[i] = data[Wrap(head + i - 1)]
        /\ (Items = <<>>) <=> (count = 0)
    BY <1>0, ItemsIsSequence DEF Items
  <1>3. /\ Items' \in Seq(Item) /\ Len(Items') = count'
        /\ \A i \in 1 .. count' : Items'[i] = data'[Wrap(head' + i - 1)]
    BY <1>0, ItemsIsSequence DEF Items
  <1>4. \A i \in 1 .. count - 1 : Items'[i] = Items[i + 1]
    <2> TAKE i \in 1 .. count - 1
    <2>1. Wrap(head' + i - 1) = Wrap(head + (i + 1) - 1)
      BY <1>1 DEF Wrap
    <2>2. Items'[i] = data[Wrap(head' + i - 1)]
          /\ Items[i + 1] = data[Wrap(head + (i + 1) - 1)]
      BY <1>1, <1>2, <1>3
    <2> QED BY <2>1, <2>2
  <1>5. Items' = Tail(Items)
    <2>1. Tail(Items) \in Seq(Item) /\ Len(Tail(Items)) = count - 1
      BY <1>1, <1>2
    <2>2. \A i \in 1 .. count - 1 : Items'[i] = Tail(Items)[i]
      BY <1>1, <1>2, <1>4
    <2> QED BY <1>1, <1>3, <2>1, <2>2, SameSequence
  <1>6. Head(Items) = data[head]
    <2>1. Wrap(head + 1 - 1) = head
      BY <1>1 DEF Wrap
    <2>2. Items[1] = data[Wrap(head + 1 - 1)]
      BY <1>1, <1>2
    <2> QED BY <1>1, <1>2, <2>1, <2>2
  <1>7. reply' = Reply(TRUE, Head(Items), FALSE)
    BY <1>6 DEF PopFront
  <1> QED BY <1>1, <1>2, <1>5, <1>7 DEF Deque!PopFront, Deque!Reply, Reply

\* queuePopBack is the deque's pop at the back.
LEMMA PopBackRefines ==
    ASSUME Inv, Inv', PopBack
    PROVE  Deque!PopBack
  <1>0. /\ head \in Slot /\ tail \in Slot /\ count \in 0 .. SIZE
        /\ data \in [Slot -> Item] /\ tail = Wrap(head + count)
        /\ head' \in Slot /\ count' \in 0 .. SIZE /\ data' \in [Slot -> Item]
    BY DEF Inv, TypeOK, IndicesAgree
  <1>r. /\ SIZE \in Nat /\ SIZE > 0 /\ count \in Nat /\ count <= SIZE
        /\ head \in Nat /\ head < SIZE
    BY <1>0, Ranges
  <1>1. /\ SIZE \in Nat /\ SIZE > 0 /\ count \in Nat /\ count <= SIZE /\ count > 0
        /\ head \in Nat /\ head < SIZE /\ head' = head
        /\ tail = Wrap(head + count)
        /\ count' = count - 1 /\ data' = data
    BY <1>0, <1>r DEF PopBack, IsEmpty
  <1>2. /\ Items \in Seq(Item) /\ Len(Items) = count
        /\ \A i \in 1 .. count : Items[i] = data[Wrap(head + i - 1)]
        /\ (Items = <<>>) <=> (count = 0)
    BY <1>0, ItemsIsSequence DEF Items
  <1>3. /\ Items' \in Seq(Item) /\ Len(Items') = count'
        /\ \A i \in 1 .. count' : Items'[i] = data'[Wrap(head' + i - 1)]
    BY <1>0, ItemsIsSequence DEF Items
  <1>4. \A i \in 1 .. count - 1 : Items'[i] = Items[i]
    BY <1>1, <1>2, <1>3
  <1>5. Items' = SubSeq(Items, 1, Len(Items) - 1)
    <2> DEFINE s == SubSeq(Items, 1, Len(Items) - 1)
    <2>1. s \in Seq(Item) /\ Len(s) = count - 1 /\ \A i \in 1 .. count - 1 : s[i] = Items[i]
      BY <1>1, <1>2
    <2> HIDE DEF s
    <2>2. Items' = s
      BY <1>1, <1>3, <1>4, <2>1, SameSequence
    <2> QED BY <2>2 DEF s
  <1>6. Items[Len(Items)] = data[BackIndex]
    <2>1. Wrap(head + count - 1) = BackIndex
      BY <1>1 DEF Wrap, BackIndex
    <2> QED BY <1>1, <1>2, <2>1
  <1>7. reply' = Reply(TRUE, Items[Len(Items)], FALSE)
    BY <1>6 DEF PopBack
  <1> QED BY <1>1, <1>2, <1>5, <1>7 DEF Deque!PopBack, Deque!Reply, Reply

\* Every behaviour of the ring is a behaviour of the bounded deque: each
\* operation changes the stored sequence, and reports, as the deque's does.
THEOREM Refinement == Spec => ImplementsDeque
  <1>1. Init => Deque!Init
    <2> SUFFICES ASSUME Init PROVE Deque!Init
      OBVIOUS
    <2>1. Items = <<>>
      BY InitInv, ItemsIsSequence DEF Init, Inv, TypeOK, Items
    <2> QED BY <2>1 DEF Init, Deque!Init, Deque!Reply, Reply
  <1>2. Inv /\ Inv' /\ [Next]_vars => [Deque!Next]_(Deque!vars)
    <2> SUFFICES ASSUME Inv, Inv', [Next]_vars
                 PROVE  Deque!Next \/ UNCHANGED Deque!vars
      BY DEF Deque!vars
    <2>0. Len(Items) = count /\ ((Items = <<>>) <=> (count = 0))
      BY ItemsIsSequence DEF Inv, TypeOK, Items
    <2>1. ASSUME NEW x \in Item, PushBack(x) PROVE Deque!Next
      BY <2>1, PushBackRefines DEF Deque!Next
    <2>2. ASSUME NEW x \in Item, PushFront(x) PROVE Deque!Next
      BY <2>2, PushFrontRefines DEF Deque!Next
    <2>3. CASE PushFails
      <3>1. Items' = Items
        BY <2>3 DEF PushFails, Items
      <3> QED BY <2>0, <2>3, <3>1 DEF PushFails, IsFull, Deque!Next, Deque!PushFails,
                                       Deque!Reply, Reply
    <2>4. CASE PopFront
      BY <2>4, PopFrontRefines DEF Deque!Next
    <2>5. CASE PopBack
      BY <2>5, PopBackRefines DEF Deque!Next
    <2>6. CASE PopFails
      <3>1. Items' = Items
        BY <2>6 DEF PopFails, Items
      <3> QED BY <2>0, <2>6, <3>1 DEF PopFails, IsEmpty, Deque!Next, Deque!PopFails,
                                       Deque!Reply, Reply
    <2>7. CASE Clear
      <3>1. Items' = <<>>
        BY <2>7, ItemsIsSequence DEF Clear, Inv, TypeOK, Items
      <3> QED BY <2>7, <3>1 DEF Clear, Deque!Next, Deque!Clear, Deque!Reply, Reply
    <2>8. CASE UNCHANGED vars
      BY <2>8 DEF vars, Deque!vars, Items
    <2> QED BY <2>1, <2>2, <2>3, <2>4, <2>5, <2>6, <2>7, <2>8 DEF Next
  <1> QED BY <1>1, <1>2, Invariance, PTL DEF Spec, ImplementsDeque, Deque!Spec
===============================================================================
