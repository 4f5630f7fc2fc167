-------------------------- MODULE DelayQueueProofs --------------------------
(***************************************************************************)
(* Theorems about DelayQueue under its cache clients, for every capacity   *)
(* and latency.  The inductive invariant places every slot by its offset   *)
(* from the head of the ring, where the order of the members is linear.    *)
(***************************************************************************)
EXTENDS DelayQueue, SequenceTheorems, TLAPS

\* How far slot s lies behind the head h of the ring.
Offset(h, s) == IF s < h THEN s + Slots - h ELSE s - h

\* The two rings move together, and the ready members are a prefix.
Aligned ==
    /\ dhead = head /\ dtail = tail
    /\ Offset(head, endReady) <= Offset(head, tail)

\* Members wait at most Latency, not at all before the warmup is over, and
\* never less than a member before them.
Ordered ==
    \A s, t \in Slot :
        Offset(head, s) <= Offset(head, t) /\ Offset(head, t) < Offset(head, tail)
            => /\ delay[s] <= delay[t]
               /\ delay[t] <= Latency
               /\ ~ warmup_complete => delay[t] <= 0

Due == \A s \in Slot : Offset(head, s) < Offset(head, endReady) => delay[s] <= 0

IInv == TypeOK /\ Aligned /\ Ordered /\ Due

-----------------------------------------------------------------------------
\* Advancing an iterator by one slot stays in the ring.
LEMMA CircIncType ==
    ASSUME NEW s \in Slot, NEW n \in 0 .. Size
    PROVE  /\ CircInc(s, n) \in Slot
           /\ Offset(s, CircInc(s, n)) = n
BY SizeAssumption DEF CircInc, Slot, Slots, Offset

\* An offset is a number of slots, and different slots have different offsets.
LEMMA OffsetType ==
    ASSUME NEW h \in Slot, NEW s \in Slot
    PROVE  /\ Offset(h, s) \in 0 .. Size
           /\ CircInc(h, Offset(h, s)) = s
           /\ \A t \in Slot : Offset(h, s) = Offset(h, t) => s = t
BY SizeAssumption DEF CircInc, Slot, Slots, Offset

\* circular_buffer's iterator subtraction from the head is the offset: the
\* occupancy and has_ready() are computed right however the ring has wrapped.
LEMMA DistanceFromHead ==
    ASSUME NEW h \in Slot, NEW s \in Slot
    PROVE  Distance(h, s, h) = Offset(h, s)
BY SizeAssumption DEF Distance, Slot, Slots, Offset

\* An iteration from the head visits the slots of smaller offset.
LEMMA VisitedSlots ==
    ASSUME NEW h \in Slot, NEW stop \in Slot
    PROVE  VisitedUntil(h, stop) = {s \in Slot : Offset(h, s) < Offset(h, stop)}
<1>1. VisitedUntil(h, stop) = {CircInc(h, i) : i \in 0 .. Offset(h, stop) - 1}
  BY DEF VisitedUntil, Offset
<1>2. Offset(h, stop) \in 0 .. Size
  BY OffsetType
<1>3. ASSUME NEW i \in 0 .. Offset(h, stop) - 1
      PROVE  CircInc(h, i) \in Slot /\ Offset(h, CircInc(h, i)) < Offset(h, stop)
  <2>1. i \in 0 .. Size
    BY <1>2, SizeAssumption
  <2> QED
    BY <2>1, <1>2, CircIncType
<1>4. ASSUME NEW s \in Slot, Offset(h, s) < Offset(h, stop)
      PROVE  s \in {CircInc(h, i) : i \in 0 .. Offset(h, stop) - 1}
  <2>1. Offset(h, s) \in 0 .. Offset(h, stop) - 1
    BY <1>2, <1>4, OffsetType
  <2>2. CircInc(h, Offset(h, s)) = s
    BY OffsetType
  <2> QED
    BY <2>1, <2>2
<1> QED
  BY <1>1, <1>3, <1>4

-----------------------------------------------------------------------------
LEMMA InitIInv == Init => IInv
<1> SUFFICES ASSUME Init PROVE IInv
  OBVIOUS
<1> USE SizeAssumption, LatencyAssumption
<1>1. 0 \in Slot /\ Offset(0, 0) = 0
  BY DEF Slot, Offset
<1>2. \A s \in Slot : Offset(0, s) \in 0 .. Size
  BY <1>1, OffsetType
<1>3. TypeOK /\ Aligned
  <2>1. entry \in [Slot -> Item \cup {NoItem}] /\ delay \in [Slot -> Int]
    BY DEF Init
  <2>2. warmup_complete \in BOOLEAN
    BY DEF Init
  <2>3. /\ head = 0 /\ tail = 0 /\ endReady = 0
        /\ dhead = 0 /\ dtail = 0
    BY DEF Init
  <2>4. TypeOK
    BY <1>1, <2>1, <2>2, <2>3 DEF TypeOK
  <2>5. Aligned
    BY <1>1, <2>3 DEF Aligned
  <2> QED
    BY <2>4, <2>5
<1>4. Ordered /\ Due
  <2>1. \A s \in Slot : delay[s] = 0
    BY DEF Init
  <2>2. head = 0 /\ tail = 0 /\ endReady = 0
    BY DEF Init
  <2>3. \A s \in Slot : ~ (Offset(0, s) < 0)
    BY <1>2
  <2> QED
    BY <1>1, <2>1, <2>2, <2>3 DEF Ordered, Due
<1> QED
  BY <1>3, <1>4 DEF IInv

\* A push writes the slot at the tail, which no member occupies.
LEMMA PushIInv ==
    ASSUME IInv, NEW x \in Item, NEW d \in {0, Latency}, Push(x, d),
           warmup_complete => d = Latency, ~ warmup_complete => d = 0
    PROVE  IInv'
<1> USE SizeAssumption, LatencyAssumption
<1>1. /\ Offset(head, tail) < Size
      /\ tail' \in Slot
      /\ Offset(head, tail') = Offset(head, tail) + 1
  <2>1. Offset(head, tail) < Size
    BY DistanceFromHead, OffsetType DEF IInv, TypeOK, Push, IsFull, Occupancy
  <2> QED
    BY <2>1 DEF IInv, TypeOK, Push, CircInc, Slot, Slots, Offset
<1>2. TypeOK'
  BY <1>1 DEF IInv, TypeOK, Aligned, Push
<1>3. Aligned'
  BY <1>1, OffsetType DEF IInv, TypeOK, Aligned, Push
<1>4. \A s \in Slot : Offset(head, s) < Offset(head, tail) => delay'[s] = delay[s]
  <2>1. tail \in Slot /\ head \in Slot
    BY DEF IInv, TypeOK
  <2>2. \A s \in Slot : Offset(head, s) < Offset(head, tail) => s # tail
    BY <2>1, OffsetType
  <2> QED
    BY <2>2 DEF IInv, TypeOK, Aligned, Push
<1>5. delay'[tail] = d
  BY DEF IInv, TypeOK, Aligned, Push
<1>6. Ordered'
  <2> SUFFICES ASSUME NEW s \in Slot, NEW t \in Slot,
                      Offset(head, s) <= Offset(head, t),
                      Offset(head, t) < Offset(head, tail) + 1
               PROVE  /\ delay'[s] <= delay'[t]
                      /\ delay'[t] <= Latency
                      /\ ~ warmup_complete => delay'[t] <= 0
    BY <1>1 DEF Ordered, Push
  <2>1. /\ Offset(head, s) \in Nat
        /\ Offset(head, t) \in Nat
        /\ Offset(head, tail) \in Nat
    BY OffsetType DEF IInv, TypeOK
  <2>2. CASE Offset(head, t) < Offset(head, tail)
    BY <1>4, <2>1, <2>2 DEF IInv, Ordered
  <2>3. CASE Offset(head, t) = Offset(head, tail)
    <3>1. t = tail
      BY <2>3, OffsetType DEF IInv, TypeOK
    <3>2. CASE Offset(head, s) < Offset(head, tail)
      BY <1>4, <1>5, <2>1, <3>1, <3>2 DEF IInv, TypeOK, Ordered
    <3>3. CASE Offset(head, s) = Offset(head, tail)
      BY <1>5, <3>1, <3>3, OffsetType DEF IInv, TypeOK
    <3> QED
      BY <2>1, <2>3, <3>2, <3>3
  <2> QED
    BY <2>1, <2>2, <2>3
<1>7. Due'
  BY <1>4, OffsetType DEF IInv, TypeOK, Aligned, Due, Push
<1> QED
  BY <1>2, <1>3, <1>6, <1>7 DEF IInv

\* A pop moves the head by one: every offset shrinks by one.
LEMMA PopFrontIInv == ASSUME IInv, PopFront PROVE IInv'
<1> USE SizeAssumption, LatencyAssumption
<1>1. Offset(head, endReady) > 0
  <2>1. head \in Slot /\ endReady \in Slot
    BY DEF IInv, TypeOK
  <2>2. head # endReady
    BY <2>1 DEF PopFront, HasReady, SameIter, Before, Distance, Slot
  <2> QED
    BY <2>1, <2>2 DEF Offset, Slot, Slots
<1>2. head' \in Slot
  BY CircIncType DEF IInv, TypeOK, PopFront
<1>3. ASSUME NEW s \in Slot
      PROVE  IF Offset(head, s) = 0 THEN Offset(head', s) = Size
                                    ELSE Offset(head', s) = Offset(head, s) - 1
  BY DEF IInv, TypeOK, PopFront, CircInc, Slot, Slots, Offset
<1>4. \A s \in Slot : Offset(head, s) \in 0 .. Size
  BY OffsetType DEF IInv, TypeOK
<1>5. Offset(head, tail) > 0
  BY <1>1, <1>4 DEF IInv, TypeOK, Aligned
<1>6. TypeOK'
  BY <1>2 DEF IInv, TypeOK, Aligned, PopFront
<1>7. Aligned'
  BY <1>1, <1>3, <1>4, <1>5 DEF IInv, TypeOK, Aligned, PopFront
<1>8. Ordered'
  <2> SUFFICES ASSUME NEW s \in Slot, NEW t \in Slot,
                      Offset(head', s) <= Offset(head', t),
                      Offset(head', t) < Offset(head', tail)
               PROVE  /\ delay[s] <= delay[t]
                      /\ delay[t] <= Latency
                      /\ ~ warmup_complete => delay[t] <= 0
    BY DEF Ordered, PopFront
  <2>1. tail \in Slot
    BY DEF IInv, TypeOK
  <2>2. Offset(head', tail) = Offset(head, tail) - 1
    BY <1>3, <1>5, <2>1
  <2>3. Offset(head, t) > 0 /\ Offset(head, t) < Offset(head, tail)
    BY <1>3, <1>4, <2>1, <2>2
  <2>4. Offset(head, s) > 0 /\ Offset(head, s) <= Offset(head, t)
    BY <1>3, <1>4, <2>1, <2>2, <2>3
  <2> QED
    BY <2>3, <2>4 DEF IInv, Ordered
<1>9. Due'
  <2> SUFFICES ASSUME NEW s \in Slot, Offset(head', s) < Offset(head', endReady)
               PROVE  delay[s] <= 0
    BY DEF Due, PopFront
  <2>1. endReady \in Slot
    BY DEF IInv, TypeOK
  <2>2. Offset(head, s) < Offset(head, endReady)
    BY <1>1, <1>3, <1>4, <2>1
  <2> QED
    BY <2>2 DEF IInv, Due
<1> QED
  BY <1>6, <1>7, <1>8, <1>9 DEF IInv

\* A cycle counts every member down by the same rule, so the order of the
\* countdowns is kept and the partition point ends the due members.
LEMMA OperateIInv == ASSUME IInv, Operate PROVE IInv'
<1> USE SizeAssumption, LatencyAssumption, DelayFloorAssumption
<1>1. PICK n \in 0 .. Occupancy(dhead, dtail) :
          IsPartitionPoint(n) /\ endReady' = CircInc(head, n)
  BY DEF Operate
<1>2. Occupancy(dhead, dtail) = Offset(head, tail)
  BY DistanceFromHead DEF IInv, TypeOK, Aligned, Occupancy
<1>3. \A s \in Slot : Offset(head, s) \in 0 .. Size
  BY OffsetType DEF IInv, TypeOK
<1>4. n \in 0 .. Size /\ n <= Offset(head, tail)
  BY <1>1, <1>2, <1>3 DEF IInv, TypeOK
<1>5. endReady' \in Slot /\ Offset(head, endReady') = n
  BY <1>1, <1>4, CircIncType DEF IInv, TypeOK
<1>6. \A s \in Slot :
          delay'[s] = IF Offset(head, s) < Offset(head, tail) THEN CountDown(delay[s])
                                                             ELSE delay[s]
  BY VisitedSlots DEF IInv, TypeOK, Aligned, Operate
<1>7. TypeOK'
  <2>1. delay' \in [Slot -> Int]
    <3>1. \A s \in Slot : delay[s] \in Int /\ CountDown(delay[s]) \in Int
      BY DEF IInv, TypeOK, CountDown
    <3> QED
      BY <3>1 DEF Operate
  <2> QED
    BY <1>5, <2>1 DEF IInv, TypeOK, Operate, buf
<1>8. Aligned'
  BY <1>4, <1>5 DEF IInv, Aligned, Operate, buf
<1>9. Ordered'
  <2> SUFFICES ASSUME NEW s \in Slot, NEW t \in Slot,
                      Offset(head, s) <= Offset(head, t),
                      Offset(head, t) < Offset(head, tail)
               PROVE  /\ delay'[s] <= delay'[t]
                      /\ delay'[t] <= Latency
                      /\ ~ warmup_complete => delay'[t] <= 0
    BY DEF Ordered, Operate, buf
  <2>1. delay'[s] = CountDown(delay[s]) /\ delay'[t] = CountDown(delay[t])
    BY <1>3, <1>6 DEF IInv, TypeOK
  <2>2. delay[s] \in Int /\ delay[t] \in Int
    BY DEF IInv, TypeOK
  <2>3. /\ delay[s] <= delay[t]
        /\ delay[t] <= Latency
        /\ ~ warmup_complete => delay[t] <= 0
    BY DEF IInv, Ordered
  <2> QED
    BY <2>1, <2>2, <2>3 DEF CountDown
<1>10. Due'
  <2> SUFFICES ASSUME NEW s \in Slot, Offset(head, s) < n
               PROVE  delay'[s] <= 0
    BY <1>5 DEF Due, Operate, buf
  <2> DEFINE last == CircInc(head, n - 1)
  <2>1. n > 0 /\ n - 1 \in 0 .. Size
    BY <1>3, <1>4
  <2>2. last \in Slot /\ Offset(head, last) = n - 1
    BY <2>1, CircIncType DEF IInv, TypeOK
  <2>3. delay'[last] <= 0
    BY <1>1, <2>1 DEF IsPartitionPoint, IInv, Aligned
  <2>4. delay'[s] <= delay'[last]
    <3>1. head' = head /\ tail' = tail
      BY DEF Operate, buf
    <3>2. Offset(head, s) <= Offset(head, last) /\ Offset(head, last) < Offset(head, tail)
      BY <1>3, <1>4, <2>1, <2>2 DEF IInv, TypeOK
    <3> QED
      BY <1>9, <2>2, <3>1, <3>2 DEF Ordered
  <2>5. delay'[s] \in Int /\ delay'[last] \in Int
    BY <1>7, <2>2 DEF TypeOK
  <2> QED
    BY <2>3, <2>4, <2>5
<1> QED
  BY <1>7, <1>8, <1>9, <1>10 DEF IInv

LEMMA NextIInv == IInv /\ [Next]_vars => IInv'
<1> SUFFICES ASSUME IInv, [Next]_vars PROVE IInv'
  OBVIOUS
<1>1. ASSUME NEW x \in Item, CachePush(x) PROVE IInv'
  <2>1. CASE warmup_complete
    BY <1>1, <2>1, PushIInv DEF CachePush, PushBack
  <2>2. CASE ~ warmup_complete
    BY <1>1, <2>2, PushIInv DEF CachePush, PushBackReady
  <2> QED
    BY <2>1, <2>2
<1>2. CASE PopFront
  BY <1>2, PopFrontIInv
<1>3. CASE Operate
  BY <1>3, OperateIInv
<1>4. CASE WarmupComplete
  BY <1>4 DEF WarmupComplete, buf, delays, IInv, TypeOK, Aligned, Ordered, Due
<1>5. CASE UNCHANGED vars
  BY <1>5 DEF vars, buf, delays, IInv, TypeOK, Aligned, Ordered, Due
<1> QED
  BY <1>1, <1>2, <1>3, <1>4, <1>5 DEF Next

-----------------------------------------------------------------------------
LEMMA SpecIInv == Spec => []IInv
BY InitIInv, NextIInv, PTL DEF Spec

\* Both rings keep their indices inside their slots for every capacity.
THEOREM DelayQueueTypeOK == Spec => []TypeOK
BY SpecIInv, PTL DEF IInv

\* has_ready() never offers a slot past the tail.
THEOREM DelayQueueReadyIsPrefix == Spec => []ReadyIsPrefix
<1>1. IInv => ReadyIsPrefix
  BY VisitedSlots, OffsetType DEF IInv, TypeOK, Aligned, ReadyIsPrefix, Ready, Live
<1> QED
  BY <1>1, SpecIInv, PTL

\* No client is offered a member before its latency has passed.
THEOREM DelayQueueReadyHaveWaited == Spec => []ReadyHaveWaited
<1>1. IInv => ReadyHaveWaited
  BY VisitedSlots DEF IInv, TypeOK, Due, ReadyHaveWaited, Ready
<1> QED
  BY <1>1, SpecIInv, PTL

-----------------------------------------------------------------------------
\* The rings implement the FIFO.

\* What the refinement puts for the FIFO's variables.
MemberList == [i \in 1 .. Occ |-> [item |-> entry[SlotOf(i - 1)],
                                   wait |-> delay[CircInc(dhead, i - 1)]]]
ReadyCount == Distance(head, endReady, head)

Waiting == [item : Item \cup {NoItem}, wait : Int]

\* The list of the members of a ring of these contents.
RingList(h, t, e, d) ==
    [i \in 1 .. Offset(h, t) |-> [item |-> e[CircInc(h, i - 1)], wait |-> d[CircInc(h, i - 1)]]]

\* It is a sequence of n members, and the i-th lies at offset i - 1.
Lists(q, n, h, e, d) ==
    /\ q \in Seq(Waiting) /\ Len(q) = n /\ n \in Nat
    /\ \A i \in 1 .. n :
          /\ CircInc(h, i - 1) \in Slot
          /\ Offset(h, CircInc(h, i - 1)) = i - 1
          /\ q[i] = [item |-> e[CircInc(h, i - 1)], wait |-> d[CircInc(h, i - 1)]]

LEMMA RingListType ==
    ASSUME NEW h \in Slot, NEW t \in Slot,
           NEW e \in [Slot -> Item \cup {NoItem}], NEW d \in [Slot -> Int]
    PROVE  Lists(RingList(h, t, e, d), Offset(h, t), h, e, d)
<1> DEFINE q == RingList(h, t, e, d)
           n == Offset(h, t)
<1>1. n \in Nat /\ n \in 0 .. Size
  BY OffsetType
<1>2. ASSUME NEW i \in 1 .. n
      PROVE  /\ CircInc(h, i - 1) \in Slot
             /\ Offset(h, CircInc(h, i - 1)) = i - 1
             /\ [item |-> e[CircInc(h, i - 1)], wait |-> d[CircInc(h, i - 1)]] \in Waiting
  <2>1. i - 1 \in 0 .. Size
    BY <1>1, SizeAssumption
  <2>2. CircInc(h, i - 1) \in Slot /\ Offset(h, CircInc(h, i - 1)) = i - 1
    BY <2>1, CircIncType
  <2> QED
    BY <2>2 DEF Waiting
<1>3. q \in [1 .. n -> Waiting]
  BY <1>2 DEF RingList
<1>4. q \in Seq(Waiting) /\ Len(q) = n
  <2> HIDE DEF q, n
  <2> QED
    BY <1>1, <1>3
<1>5. \A i \in 1 .. n : q[i] = [item |-> e[CircInc(h, i - 1)], wait |-> d[CircInc(h, i - 1)]]
  BY DEF RingList
<1> HIDE DEF q, n
<1> QED
  BY <1>1, <1>2, <1>4, <1>5 DEF Lists, q, n

\* Under the invariant that is what the refinement puts.
Mapped ==
    /\ MemberList = RingList(head, tail, entry, delay)
    /\ ReadyCount = Offset(head, endReady)

LEMMA RingsAreMapped == IInv => Mapped
<1> SUFFICES ASSUME IInv PROVE Mapped
  OBVIOUS
<1>1. head \in Slot /\ tail \in Slot /\ endReady \in Slot /\ dhead = head
  BY DEF IInv, TypeOK, Aligned
<1>2. Occ = Offset(head, tail) /\ ReadyCount = Offset(head, endReady)
  BY <1>1, DistanceFromHead DEF Occ, Occupancy, ReadyCount
<1>3. MemberList = RingList(head, tail, entry, delay)
  BY <1>1, <1>2 DEF MemberList, RingList, SlotOf
<1> QED
  BY <1>2, <1>3 DEF Mapped

LEMMA MappedInit == Init => Fifo!Init
<1> SUFFICES ASSUME Init PROVE Fifo!Init
  OBVIOUS
<1>1. IInv /\ Mapped
  BY InitIInv, RingsAreMapped
<1>2. Offset(head, tail) = 0 /\ Offset(head, endReady) = 0
  BY DEF Init, Offset
<1>3. RingList(head, tail, entry, delay) = <<>>
  <2>1. RingList(head, tail, entry, delay) \in Seq(Waiting)
        /\ Len(RingList(head, tail, entry, delay)) = 0
    <3>1. Lists(RingList(head, tail, entry, delay), Offset(head, tail), head, entry, delay)
      BY <1>1, RingListType DEF IInv, TypeOK
    <3> QED
      BY <1>2, <3>1 DEF Lists
  <2> QED
    BY <2>1, EmptySeq
<1>4. MemberList = <<>> /\ ReadyCount = 0
  BY <1>1, <1>2, <1>3 DEF Mapped
<1> QED
  BY <1>4 DEF Fifo!Init, MemberList, ReadyCount

\* A push is an insertion.
LEMMA MappedPush ==
    ASSUME IInv, IInv', Mapped, Mapped', NEW x \in Item, NEW d \in {0, Latency}, Push(x, d)
    PROVE  Fifo!Insert(x, d)
<1> USE SizeAssumption, LatencyAssumption
<1>1. /\ Offset(head, tail) < Size
      /\ Offset(head', tail') = Offset(head, tail) + 1
      /\ head' = head /\ endReady' = endReady
  <2>1. Offset(head, tail) < Size
    BY DistanceFromHead, OffsetType DEF IInv, TypeOK, Push, IsFull, Occupancy
  <2> QED
    BY <2>1 DEF IInv, TypeOK, Push, CircInc, Slot, Slots, Offset
<1> DEFINE q == RingList(head, tail, entry, delay)
           r == RingList(head, tail', entry', delay')
           new == [item |-> x, wait |-> d]
           n == Offset(head, tail)
<1>2. Lists(q, n, head, entry, delay) /\ n \in Nat
  BY RingListType, OffsetType DEF IInv, TypeOK
<1>3. Lists(r, n + 1, head, entry', delay')
  <2>1. /\ head \in Slot /\ tail' \in Slot
        /\ entry' \in [Slot -> Item \cup {NoItem}] /\ delay' \in [Slot -> Int]
    BY <1>1 DEF IInv, TypeOK
  <2>2. Lists(r, Offset(head, tail'), head, entry', delay')
    BY <2>1, RingListType
  <2> QED
    BY <1>1, <2>2
<1>4. CircInc(head, n) = tail
  BY OffsetType DEF IInv, TypeOK
<1>5. /\ entry' = [entry EXCEPT ![tail] = x] /\ delay' = [delay EXCEPT ![tail] = d]
      /\ entry \in [Slot -> Item \cup {NoItem}] /\ delay \in [Slot -> Int]
      /\ tail \in Slot /\ head \in Slot
  BY DEF Push, IInv, TypeOK, Aligned
<1>6. \A i \in 1 .. n : CircInc(head, i - 1) # tail
  <2>1. \A i \in 1 .. n : i - 1 # n
    BY <1>2
  <2> QED
    BY <1>2, <2>1 DEF Lists
<1>7. new \in Waiting
  BY DEF Waiting
<1> HIDE DEF q, r, n, new
<1>8. \A i \in 1 .. n : r[i] = q[i]
  <2>1. \A i \in 1 .. n : i \in 1 .. n + 1
    BY <1>2
  <2> QED
    BY <1>2, <1>3, <1>5, <1>6, <2>1 DEF Lists
<1>9. r[n + 1] = new
  <2>1. n + 1 \in 1 .. n + 1 /\ (n + 1) - 1 = n
    BY <1>2
  <2> QED
    BY <1>3, <1>4, <1>5, <2>1 DEF new, Lists
<1>10. r = Append(q, new)
  <2>1. /\ Append(q, new) \in Seq(Waiting) /\ Len(Append(q, new)) = n + 1
        /\ \A i \in 1 .. n + 1 : Append(q, new)[i] = IF i = n + 1 THEN new ELSE q[i]
    BY <1>2, <1>7 DEF Lists
  <2>2. \A i \in 1 .. n + 1 : i = n + 1 \/ i \in 1 .. n
    BY <1>2
  <2>3. \A i \in 1 .. Len(r) : r[i] = Append(q, new)[i]
    BY <1>3, <1>8, <1>9, <2>1, <2>2 DEF Lists
  <2> QED
    BY <1>3, <2>1, <2>3, SeqEqual DEF Lists
<1>11. /\ MemberList = q /\ MemberList' = r
       /\ ReadyCount' = ReadyCount
  BY <1>1 DEF Mapped, q, r, Offset
<1>12. /\ Len(MemberList) < Size
       /\ MemberList' = Append(MemberList, [item |-> x, wait |-> d])
       /\ UNCHANGED ReadyCount
  BY <1>1, <1>2, <1>10, <1>11, Zenon DEF n, new, Lists
<1> QED
  BY <1>12, Zenon DEF Fifo!Insert, MemberList, ReadyCount

\* A pop is the release of the oldest member.
LEMMA MappedPop ==
    ASSUME IInv, IInv', Mapped, Mapped', PopFront
    PROVE  Fifo!Release
<1> USE SizeAssumption
<1> DEFINE q == RingList(head, tail, entry, delay)
           r == RingList(head', tail, entry, delay)
           n == Offset(head, tail)
<1>1. /\ head \in Slot /\ tail \in Slot /\ endReady \in Slot /\ head' \in Slot
      /\ entry \in [Slot -> Item \cup {NoItem}] /\ delay \in [Slot -> Int]
      /\ tail' = tail /\ entry' = entry /\ delay' = delay /\ endReady' = endReady
      /\ head' = CircInc(head, 1)
  BY DEF IInv, TypeOK, PopFront
<1>2. Offset(head, endReady) > 0 /\ Offset(head, endReady) <= n /\ n \in Nat
  <2>1. head # endReady
    BY <1>1 DEF PopFront, HasReady, SameIter, Before, Distance, Slot
  <2>2. Offset(head, endReady) > 0
    BY <1>1, <2>1 DEF Offset, Slot, Slots
  <2> QED
    BY <1>1, <2>2, OffsetType DEF IInv, Aligned
<1>3. Offset(head', tail) = n - 1 /\ Offset(head', endReady) = Offset(head, endReady) - 1
  <2>1. ASSUME NEW s \in Slot, Offset(head, s) > 0
        PROVE  Offset(head', s) = Offset(head, s) - 1
    BY <1>1, <2>1 DEF CircInc, Slot, Slots, Offset
  <2>2. Offset(head, endReady) \in Nat
    BY <1>1, OffsetType
  <2>3. n > 0
    BY <1>2, <2>2
  <2> QED
    BY <1>1, <1>2, <2>1, <2>3
<1>4. Lists(q, n, head, entry, delay)
  BY <1>1, RingListType
<1>5. Lists(r, n - 1, head', entry, delay)
  <2>1. Lists(r, Offset(head', tail), head', entry, delay)
    BY <1>1, RingListType
  <2> QED
    BY <1>3, <2>1
<1>6. ASSUME NEW i \in 1 .. n - 1
      PROVE  CircInc(head', i - 1) = CircInc(head, (i + 1) - 1) /\ i + 1 \in 1 .. n
  <2>1. n \in 0 .. Size
    BY <1>1, OffsetType
  <2>2. i \in 1 .. Size - 1 /\ i + 1 \in 1 .. n /\ (i + 1) - 1 = i
    BY <2>1
  <2>3. CircInc(CircInc(head, 1), i - 1) = CircInc(head, i)
    BY <1>1, <2>2 DEF CircInc, Slot, Slots
  <2> QED
    BY <1>1, <2>2, <2>3, Zenon
<1> HIDE DEF q, r, n
<1>7. \A i \in 1 .. n - 1 : r[i] = q[i + 1]
  BY <1>4, <1>5, <1>6, ZenonT(60) DEF Lists
<1>8. r = Tail(q)
  <2>1. n >= 1
    BY <1>2, <1>1, OffsetType
  <2>2. q # <<>>
    BY <1>4, <2>1, EmptySeq DEF Lists
  <2>3. /\ Tail(q) \in Seq(Waiting) /\ Len(Tail(q)) = n - 1
        /\ \A i \in 1 .. n - 1 : Tail(q)[i] = q[i + 1]
    BY <1>2, <1>4, <2>1, <2>2 DEF Lists
  <2>4. \A i \in 1 .. Len(r) : r[i] = Tail(q)[i]
    BY <1>5, <1>7, <2>3 DEF Lists
  <2> QED
    BY <1>5, <2>3, <2>4, SeqEqual DEF Lists
<1>9. /\ MemberList = q /\ MemberList' = r
      /\ ReadyCount = Offset(head, endReady) /\ ReadyCount' = Offset(head, endReady) - 1
  BY <1>1, <1>3 DEF Mapped, q, r
<1>10. ReadyCount > 0 /\ MemberList' = Tail(MemberList) /\ ReadyCount' = ReadyCount - 1
  BY <1>2, <1>8, <1>9
<1> QED
  BY <1>10, Zenon DEF Fifo!Release, MemberList, ReadyCount

\* operate() counts every member down and finds the whole prefix that is due.
LEMMA MappedOperate ==
    ASSUME IInv, IInv', Mapped, Mapped', Operate
    PROVE  Fifo!Cycle
<1> USE SizeAssumption, DelayFloorAssumption
<1> DEFINE q == RingList(head, tail, entry, delay)
           r == RingList(head, tail, entry, delay')
           n == Offset(head, tail)
<1>1. /\ head \in Slot /\ tail \in Slot /\ dhead = head /\ dtail = tail
      /\ entry \in [Slot -> Item \cup {NoItem}]
      /\ delay \in [Slot -> Int] /\ delay' \in [Slot -> Int]
      /\ head' = head /\ tail' = tail /\ entry' = entry
  BY DEF IInv, TypeOK, Aligned, Operate, buf
<1>2. n \in Nat /\ n \in 0 .. Size
  BY <1>1, OffsetType
<1>3. Lists(q, n, head, entry, delay)
  BY <1>1, RingListType
<1>4. Lists(r, n, head, entry, delay')
  BY <1>1, RingListType
<1>5. \A i \in 1 .. n : delay'[CircInc(head, i - 1)] = CountDown(delay[CircInc(head, i - 1)])
  <2>1. ASSUME NEW s \in Slot, Offset(head, s) < Offset(head, tail)
        PROVE  delay'[s] = CountDown(delay[s])
    BY <1>1, <2>1, VisitedSlots DEF Operate
  <2>2. \A i \in 1 .. n : i - 1 < n
    BY <1>2
  <2> QED
    BY <1>3, <2>1, <2>2 DEF Lists
<1>6. PICK k \in 0 .. n : IsPartitionPoint(k) /\ endReady' = CircInc(head, k)
  BY <1>1, DistanceFromHead DEF Operate, Occupancy
<1>7. Offset(head, endReady') = k
  <2>1. k \in 0 .. Size
    BY <1>2
  <2> QED
    BY <1>1, <1>6, <2>1, CircIncType
<1>8. \A i \in 1 .. k : delay'[CircInc(head, i - 1)] <= 0
  <2>1. \A i \in 1 .. k : i \in 1 .. n /\ i - 1 < k
    BY <1>2
  <2>2. \A s \in Slot : Offset(head, s) < k => delay'[s] <= 0
    BY <1>1, <1>7 DEF IInv, Due
  <2> QED
    BY <1>3, <2>1, <2>2 DEF Lists
<1>9. k < n => delay'[CircInc(head, (k + 1) - 1)] > 0
  <2>1. (k + 1) - 1 = k
    OBVIOUS
  <2>2. k < Occupancy(dhead, dtail) => delay'[CircInc(head, k)] > 0
    BY <1>1, <1>6 DEF IsPartitionPoint
  <2>3. Occupancy(dhead, dtail) = n
    BY <1>1, DistanceFromHead DEF Occupancy
  <2> QED
    BY <2>1, <2>2, <2>3
<1> HIDE DEF q, r, n
<1>10. \A i \in 1 .. k : r[i].wait <= 0
  BY <1>2, <1>4, <1>8 DEF Lists
<1>11. k < Len(r) => r[k + 1].wait > 0
  BY <1>2, <1>4, <1>9 DEF Lists
<1>12. r = [i \in 1 .. Len(q) |-> [q[i] EXCEPT !.wait = Fifo!Waited(q[i].wait)]]
  <2> DEFINE f == [i \in 1 .. Len(q) |-> [q[i] EXCEPT !.wait = Fifo!Waited(q[i].wait)]]
  <2>1. ASSUME NEW i \in 1 .. n PROVE r[i] = [q[i] EXCEPT !.wait = Fifo!Waited(q[i].wait)]
    <3>1. /\ q[i] = [item |-> entry[CircInc(head, i - 1)], wait |-> delay[CircInc(head, i - 1)]]
          /\ r[i] = [item |-> entry[CircInc(head, i - 1)], wait |-> CountDown(delay[CircInc(head, i - 1)])]
      BY <1>3, <1>4, <1>5 DEF Lists
    <3>2. Fifo!Waited(delay[CircInc(head, i - 1)]) = CountDown(delay[CircInc(head, i - 1)])
      BY DEF Fifo!Waited, CountDown
    <3>3. q[i].wait = delay[CircInc(head, i - 1)]
      BY <3>1
    <3>4. [q[i] EXCEPT !.wait = CountDown(delay[CircInc(head, i - 1)])]
              = [item |-> entry[CircInc(head, i - 1)], wait |-> CountDown(delay[CircInc(head, i - 1)])]
      BY <3>1
    <3> QED
      BY <3>1, <3>2, <3>3, <3>4, Zenon
  <2>2. r = [i \in 1 .. n |-> r[i]]
    BY <1>2, <1>4 DEF Lists
  <2> QED
    BY <1>3, <2>1, <2>2 DEF Lists
<1>13. MemberList = q /\ MemberList' = r /\ ReadyCount' = k
  BY <1>1, <1>7 DEF Mapped, q, r
<1>14. /\ MemberList' = [i \in 1 .. Len(MemberList) |->
                            [MemberList[i] EXCEPT !.wait = Fifo!Waited(MemberList[i].wait)]]
       /\ ReadyCount' \in 0 .. Len(MemberList)
       /\ \A i \in 1 .. ReadyCount' : MemberList'[i].wait <= 0
       /\ ReadyCount' < Len(MemberList') => MemberList'[ReadyCount' + 1].wait > 0
  BY <1>3, <1>10, <1>11, <1>12, <1>13 DEF Lists
<1> QED
  BY <1>14, Zenon DEF Fifo!Cycle, Fifo!IsReadyPrefix, Fifo!Waited, MemberList, ReadyCount

LEMMA MappedNext ==
    ASSUME IInv, IInv', Mapped, Mapped', [Next]_vars
    PROVE  Fifo!Next \/ UNCHANGED <<MemberList, ReadyCount>>
<1>1. ASSUME NEW x \in Item, CachePush(x) PROVE Fifo!Next
  <2>1. PICK d \in {0, Latency} : Push(x, d)
    BY <1>1 DEF CachePush, PushBack, PushBackReady
  <2>2. Fifo!Insert(x, d)
    BY <2>1, MappedPush
  <2> QED
    BY <2>2, Zenon DEF Fifo!Next
<1>2. CASE PopFront
  BY <1>2, MappedPop, Zenon DEF Fifo!Next
<1>3. CASE Operate
  BY <1>3, MappedOperate, Zenon DEF Fifo!Next
<1>4. CASE WarmupComplete \/ UNCHANGED vars
  <2>1. UNCHANGED <<entry, head, tail, delay, dhead, dtail, endReady>>
    BY <1>4 DEF WarmupComplete, vars, buf, delays
  <2>2. MemberList' = MemberList /\ ReadyCount' = ReadyCount
    BY <2>1 DEF Mapped, Offset
  <2> QED
    BY <2>2
<1> QED
  BY <1>1, <1>2, <1>3, <1>4 DEF Next

\* delay_queue implements the FIFO with a delay that its clients rely on: members
\* leave in the order they came, none is lost or held twice however the two rings
\* wrap, none may leave early, and has_ready() holds none back that is due.
THEOREM DelayQueueImplementsDelayedFifo == Spec => ImplementsDelayedFifo
<1>1. IInv' => Mapped'
  BY RingsAreMapped, PTL
<1>2. IInv /\ IInv' /\ [Next]_vars => [Fifo!Next]_<<MemberList, ReadyCount>>
  BY <1>1, RingsAreMapped, MappedNext
<1>3. Init => Fifo!Init
  BY MappedInit
<1> QED
  BY <1>2, <1>3, SpecIInv, PTL
     DEF Spec, ImplementsDelayedFifo, Fifo!Spec, MemberList, ReadyCount
=============================================================================
