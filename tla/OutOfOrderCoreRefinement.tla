---------------------- MODULE OutOfOrderCoreRefinement ----------------------
(***************************************************************************)
(* The core implements the sequential machine: for every trace and every   *)
(* size of its queues, each load returns what the last store before it in  *)
(* the trace wrote, and the stores reach the memory in the trace's order.  *)
(*                                                                         *)
(* The proof adds to the invariant of the queues (LsqInv) what the entries *)
(* are worth: the producer of a load is the last store before it to its    *)
(* address, and a load without one finds nothing to its address unwritten  *)
(* before it, so that the memory holds its value until the answer arrives. *)
(*                                                                         *)
(* The same invariant carries the counts that decide when an instruction   *)
(* completes: each load is in the queue or has returned, never both.       *)
(***************************************************************************)
EXTENDS OutOfOrderCoreProofs

\* P is the trace, c the core, and the ROB holds lo + 1 .. hi.

StoresTo(P, m, a) == \E k \in 1 .. Len(P[m].store) : P[m].store[k] = a

\* m is the last instruction before n with a store to a, or 0 if there is none.
IsLast(P, n, a, m) ==
    /\ m \in 0 .. n - 1
    /\ m # 0 => StoresTo(P, m, a)
    /\ \A l \in 1 .. n - 1 : StoresTo(P, l, a) => l <= m

\* The L1D has accepted a store of m to a.
Written(P, c, m, a) == \E k \in (1 .. Len(P[m].store)) \ c.rob[m].destination_memory : P[m].store[k] = a

\* Stores reach the memory in order, so that it holds for each address the last store
\* of the instructions that have retired and of what the first in the ROB has written.
InOrderWrites(P, c, lo, hi, mem) ==
    /\ \A n \in lo + 2 .. hi : c.rob[n].destination_memory = 1 .. Len(P[n].store)
    /\ lo < hi => \E w \in 0 .. Len(P[lo + 1].store) :
                     c.rob[lo + 1].destination_memory = w + 1 .. Len(P[lo + 1].store)
    /\ \A a \in Address : IF lo < hi /\ Written(P, c, lo + 1, a) THEN mem[a] = lo + 1
                                                                 ELSE IsLast(P, lo + 1, a, mem[a])

\* No instruction between the oldest in the ROB and n has a store to a that is not written.
NonePending(P, c, lo, n, a) ==
    \A m \in lo + 1 .. n - 1 : \A k \in c.rob[m].destination_memory : P[m].store[k] # a

\* What the entry waits for will be the value it needs.
Sourced(P, c, lo, s) ==
    LET e == c.LQ[s]
    IN  e # NoEntry =>
            /\ e.producer # 0 => IsLast(P, e.instr, e.address, e.producer)
            /\ e.producer = 0 => NonePending(P, c, lo, e.instr, e.address)

\* What n's loads have returned is right.
Correct(P, c, n) ==
    \A d \in c.data[n] : \E j \in 1 .. Len(P[n].load) : \E v : d = <<P[n].load[j], v>> /\ IsLast(P, n, P[n].load[j], v)

\* A load that has entered the queue is there or has returned.
Answered(P, c, n) ==
    \A j \in c.rob[n].source_added :
        \/ \E s \in EntriesOf(c, n) : c.LQ[s].address = P[n].load[j]
        \/ \E v : <<P[n].load[j], v>> \in c.data[n]

\* A load of n whose address n loads once is in the queue or has returned, not both.
AnsweredOnce(P, c, n) ==
    (\A i, j \in 1 .. Len(P[n].load) : P[n].load[i] = P[n].load[j] => i = j) =>
        /\ \A d \in c.data[n] : \E j \in c.rob[n].source_added : d[1] = P[n].load[j]
        /\ \A s \in EntriesOf(c, n) : \A d \in c.data[n] : d[1] # c.LQ[s].address

HasMemory(P, n) == P[n].load # <<>> \/ P[n].store # <<>>

\* The instructions that complete_inflight_instruction will find, of each kind.
RegisterOnes(P, c, lo, hi) == {n \in lo + 1 .. hi : ~ HasMemory(P, n) /\ c.rob[n].executed = INFLIGHT}
MemoryOnes(P, c, lo, hi) ==
    {n \in lo + 1 .. hi : HasMemory(P, n) /\ c.rob[n].num_mem_ops = 0 /\ c.rob[n].executed # COMPLETED}

InFlight(P, c, lo, hi) ==
    /\ c.inflight_reg = Cardinality(RegisterOnes(P, c, lo, hi))
    /\ c.inflight_mem = Cardinality(MemoryOnes(P, c, lo, hi))

Tally(P, c, lo, hi) == InFlight(P, c, lo, hi) /\ \A n \in lo + 1 .. hi : AnsweredOnce(P, c, n)

Values(P, c, lo, hi) ==
    /\ Tally(P, c, lo, hi)
    /\ \A s \in LoadSlots : Sourced(P, c, lo, s)
    /\ \A n \in lo + 1 .. hi : Correct(P, c, n) /\ Answered(P, c, n)
    /\ \A n \in Ids : n > hi => c.data[n] = {}

ValueInv ==
    /\ InOrderWrites(program, core, retired, dispatched, memory)
    /\ Values(program, core, retired, dispatched)

\* Between c and z nothing is written, and no load of an instruction that has left returns.
Kept(c, z, lo, hi) ==
    /\ \A m \in lo + 1 .. hi : z.rob[m].destination_memory = c.rob[m].destination_memory
    /\ \A m \in Ids : m \notin lo + 1 .. hi => z.data[m] = c.data[m]

LEMMA KeptTransitive ==
    ASSUME NEW c, NEW d, NEW e, NEW lo, NEW hi, Kept(c, d, lo, hi), Kept(d, e, lo, hi)
    PROVE  Kept(c, e, lo, hi)
BY DEF Kept

LEMMA KeptWrites ==
    ASSUME NEW P, NEW c, NEW z, NEW lo \in Nat, NEW hi \in Nat, NEW mem, Kept(c, z, lo, hi),
           InOrderWrites(P, c, lo, hi, mem)
    PROVE  InOrderWrites(P, z, lo, hi, mem)
<1>1. \A n \in lo + 2 .. hi : z.rob[n].destination_memory = c.rob[n].destination_memory
  BY DEF Kept
<1>2. lo < hi => z.rob[lo + 1].destination_memory = c.rob[lo + 1].destination_memory
  BY DEF Kept
<1>3. lo < hi => \A a : Written(P, z, lo + 1, a) <=> Written(P, c, lo + 1, a)
  BY <1>2 DEF Written
<1> QED
  BY <1>1, <1>2, <1>3 DEF InOrderWrites

ValuesSame(c, z, lo, hi) ==
    /\ z.LQ = c.LQ /\ z.data = c.data
    /\ \A m \in lo + 1 .. hi : /\ z.rob[m].source_added = c.rob[m].source_added
                               /\ z.rob[m].destination_memory = c.rob[m].destination_memory

-----------------------------------------------------------------------------
(* The counts. *)

LEMMA InFlightSame ==
    ASSUME NEW P, NEW c, NEW z, NEW lo, NEW hi, InFlight(P, c, lo, hi),
           z.inflight_reg = c.inflight_reg, z.inflight_mem = c.inflight_mem,
           \A m \in lo + 1 .. hi : /\ z.rob[m].num_mem_ops = c.rob[m].num_mem_ops
                                   /\ z.rob[m].executed = COMPLETED <=> c.rob[m].executed = COMPLETED
                                   /\ z.rob[m].executed = c.rob[m].executed \/ HasMemory(P, m)
    PROVE  InFlight(P, z, lo, hi)
<1>1. RegisterOnes(P, z, lo, hi) = RegisterOnes(P, c, lo, hi)
  BY DEF RegisterOnes
<1>2. MemoryOnes(P, z, lo, hi) = MemoryOnes(P, c, lo, hi)
  BY DEF MemoryOnes
<1> QED
  BY <1>1, <1>2 DEF InFlight

\* What AnsweredOnce speaks of.
LEMMA AnsweredOnceSame ==
    ASSUME NEW P, NEW c, NEW z, NEW n, AnsweredOnce(P, c, n), z.LQ = c.LQ, z.data[n] = c.data[n],
           z.rob[n].source_added = c.rob[n].source_added
    PROVE  AnsweredOnce(P, z, n)
<1>1. EntriesOf(z, n) = EntriesOf(c, n)
  BY DEF EntriesOf
<1> QED
  BY <1>1, Zenon DEF AnsweredOnce

\* Neither the load queue nor what was returned changes, nor the counts.
TallySame(P, c, z, lo, hi) ==
    /\ z.inflight_reg = c.inflight_reg /\ z.inflight_mem = c.inflight_mem
    /\ \A m \in lo + 1 .. hi : /\ z.rob[m].num_mem_ops = c.rob[m].num_mem_ops
                               /\ z.rob[m].executed = COMPLETED <=> c.rob[m].executed = COMPLETED
                               /\ z.rob[m].executed = c.rob[m].executed \/ HasMemory(P, m)

LEMMA SameTally ==
    ASSUME NEW P, NEW c, NEW z, NEW lo, NEW hi, Values(P, c, lo, hi), ValuesSame(c, z, lo, hi),
           TallySame(P, c, z, lo, hi)
    PROVE  Tally(P, z, lo, hi)
<1>1. InFlight(P, z, lo, hi)
  <2>1. InFlight(P, c, lo, hi)
    BY DEF Values, Tally
  <2> QED
    BY <2>1, InFlightSame, Zenon DEF TallySame
<1>2. ASSUME NEW n \in lo + 1 .. hi PROVE AnsweredOnce(P, z, n)
  <2>1. AnsweredOnce(P, c, n)
    BY DEF Values, Tally
  <2> QED
    BY <2>1, AnsweredOnceSame DEF ValuesSame
<1> QED
  BY <1>1, <1>2 DEF Tally

\* An instruction that has not completed has as many operations left as its loads and
\* stores that are not done.
LEMMA OperationsLeft ==
    ASSUME NEW P, NEW c, NEW lo, NEW hi, Bounds(P, lo, hi), Queues(P, c, lo, hi), NEW n \in lo + 1 .. hi,
           c.rob[n].executed # COMPLETED
    PROVE  /\ c.rob[n].num_mem_ops \in Nat
           /\ Cardinality(EntriesOf(c, n)) \in Nat /\ IsFiniteSet(EntriesOf(c, n))
           /\ Cardinality(Unexecuted(P, c, n)) \in Nat /\ IsFiniteSet(Unexecuted(P, c, n))
           /\ Cardinality(EntriesOf(c, n)) + Cardinality(Unexecuted(P, c, n)) <= c.rob[n].num_mem_ops
<1>1. Counted(P, c, n) /\ Len(P[n].load) \in Nat /\ Len(P[n].store) \in Nat
  <2>1. n \in 1 .. Len(P)
    BY InBounds
  <2> QED
    BY <2>1, InBounds DEF Queues
<1>2. IsFiniteSet(1 .. Len(P[n].load)) /\ IsFiniteSet(1 .. Len(P[n].store))
  <2>1. \A k \in Nat : IsFiniteSet(1 .. k)
    BY FS_Interval
  <2> QED
    BY <1>1, <2>1
<1>3. IsFiniteSet(Unadded(P, c, n)) /\ IsFiniteSet(Unexecuted(P, c, n)) /\ IsFiniteSet(EntriesOf(c, n))
  <2>1. /\ Unadded(P, c, n) \in SUBSET (1 .. Len(P[n].load)) /\ Unexecuted(P, c, n) \in SUBSET (1 .. Len(P[n].store))
        /\ EntriesOf(c, n) \in SUBSET LoadSlots
    BY DEF Unadded, Unexecuted, EntriesOf
  <2> QED
    BY <1>2, <2>1, SlotsAreFinite, FS_Subset
<1>4. /\ Cardinality(Unadded(P, c, n)) \in Nat /\ Cardinality(Unexecuted(P, c, n)) \in Nat
      /\ Cardinality(EntriesOf(c, n)) \in Nat
  BY <1>3, FS_CardinalityType
<1>5. c.rob[n].num_mem_ops = Cardinality(Unadded(P, c, n)) + Cardinality(EntriesOf(c, n))
                                + Cardinality(Unexecuted(P, c, n))
  BY <1>1 DEF Counted
<1> QED
  BY <1>3, <1>4, <1>5

\* over[m] operations of each m are done.
Over(P, c, z, lo, hi, over) ==
    /\ over \in [Ids -> Nat]
    /\ z.inflight_reg = c.inflight_reg
    /\ z.inflight_mem = c.inflight_mem + Cardinality({m \in Ids : over[m] > 0 /\ c.rob[m].num_mem_ops = over[m]})
    /\ \A m \in Ids : over[m] > 0 => /\ m \in lo + 1 .. hi /\ HasMemory(P, m) /\ c.rob[m].executed # COMPLETED
                                     /\ over[m] <= c.rob[m].num_mem_ops
    /\ \A m \in lo + 1 .. hi : /\ z.rob[m].executed = c.rob[m].executed
                               /\ z.rob[m].num_mem_ops = c.rob[m].num_mem_ops - over[m]

LEMMA InFlightOver ==
    ASSUME NEW P, NEW c, NEW z, NEW lo, NEW hi, Bounds(P, lo, hi), Queues(P, c, lo, hi), InFlight(P, c, lo, hi),
           NEW over, Over(P, c, z, lo, hi, over)
    PROVE  InFlight(P, z, lo, hi)
<1> DEFINE last == {m \in Ids : over[m] > 0 /\ c.rob[m].num_mem_ops = over[m]}
           M == MemoryOnes(P, c, lo, hi)
<1>1. lo \in Nat /\ hi \in Nat /\ lo + 1 .. hi \subseteq Ids
  BY InBounds DEF Bounds
<1>2. RegisterOnes(P, z, lo, hi) = RegisterOnes(P, c, lo, hi)
  BY DEF Over, RegisterOnes
<1>3. last \in SUBSET (lo + 1 .. hi) /\ M \in SUBSET (lo + 1 .. hi)
  BY DEF Over, MemoryOnes
<1>4. last \cap M = {}
  BY DEF Over, MemoryOnes
<1>5. ASSUME NEW m \in lo + 1 .. hi PROVE m \in MemoryOnes(P, z, lo, hi) <=> m \in M \/ m \in last
  <2>1. m \in Ids /\ over[m] \in Nat
    BY <1>1 DEF Over
  <2>2. /\ z.rob[m].executed = c.rob[m].executed /\ z.rob[m].num_mem_ops = c.rob[m].num_mem_ops - over[m]
        /\ over[m] > 0 => /\ HasMemory(P, m) /\ c.rob[m].executed # COMPLETED /\ over[m] <= c.rob[m].num_mem_ops
    BY <2>1 DEF Over
  <2>3. c.rob[m].executed # COMPLETED => c.rob[m].num_mem_ops \in Nat
    BY OperationsLeft
  <2>4. CASE over[m] = 0
    BY <2>1, <2>2, <2>3, <2>4 DEF MemoryOnes
  <2>5. CASE over[m] > 0
    BY <2>1, <2>2, <2>3, <2>5 DEF MemoryOnes
  <2> QED
    BY <2>1, <2>4, <2>5
<1>6. MemoryOnes(P, z, lo, hi) = M \cup last
  <2>1. MemoryOnes(P, z, lo, hi) \subseteq lo + 1 .. hi
    BY DEF MemoryOnes
  <2> HIDE DEF M, last
  <2> QED
    BY <1>3, <1>5, <2>1
<1>7. IsFiniteSet(M) /\ IsFiniteSet(last)
  <2>1. IsFiniteSet(lo + 1 .. hi)
    BY <1>1, FS_Interval
  <2> QED
    BY <1>3, <2>1, FS_Subset
<1>8. z.inflight_mem = c.inflight_mem + Cardinality(last) /\ z.inflight_reg = c.inflight_reg
  BY DEF Over
<1> HIDE DEF M, last
<1>9. Cardinality(MemoryOnes(P, z, lo, hi)) = Cardinality(M) + Cardinality(last)
  <2>1. Cardinality(M \cup last) = Cardinality(M) + Cardinality(last) - Cardinality(M \cap last)
    BY <1>7, FS_Union
  <2>2. Cardinality(M \cap last) = 0
    BY <1>4, FS_EmptySet
  <2>3. Cardinality(M) \in Nat /\ Cardinality(last) \in Nat
    BY <1>7, FS_CardinalityType
  <2> QED
    BY <1>6, <2>1, <2>2, <2>3
<1> QED
  BY <1>2, <1>8, <1>9 DEF InFlight, M

LEMMA EntryLoad ==
    ASSUME NEW P, NEW c, NEW lo, NEW hi, Bounds(P, lo, hi), Queues(P, c, lo, hi),
           NEW s \in LoadSlots, c.LQ[s] # NoEntry
    PROVE  /\ c.LQ[s].instr \in lo + 1 .. hi
           /\ \E j \in 1 .. Len(P[c.LQ[s].instr].load) : P[c.LQ[s].instr].load[j] = c.LQ[s].address
           /\ c.LQ[s].address \in Address
<1> DEFINE n == c.LQ[s].instr
<1>1. LoadEntry(P, c, lo, hi, s)
  BY DEF Queues
<1>2. n \in lo + 1 .. hi
  BY <1>1, LoadEntryBounds
<1>3. \E j \in c.rob[n].source_added : P[n].load[j] = c.LQ[s].address
  BY <1>1, Zenon DEF LoadEntry
<1>4. InstrTyped(P, c, n, hi)
  BY <1>2 DEF Queues
<1> HIDE DEF n
<1>5. c.rob[n].source_added \subseteq 1 .. Len(P[n].load)
  BY <1>4 DEF InstrTyped
<1>6. PICK j \in 1 .. Len(P[n].load) : P[n].load[j] = c.LQ[s].address
  BY <1>3, <1>5
<1>7. P[n].load \in Seq(Address)
  BY <1>2, InBounds
<1>8. P[n].load[j] \in Address
  BY <1>7
<1> QED
  BY <1>2, <1>6, <1>8 DEF n

\* Two entries of n are for different loads of n.
LEMMA EntriesApart ==
    ASSUME NEW P, NEW c, NEW lo, NEW hi, Bounds(P, lo, hi), Queues(P, c, lo, hi), NEW n \in lo + 1 .. hi,
           \A i, j \in 1 .. Len(P[n].load) : P[n].load[i] = P[n].load[j] => i = j,
           NEW s \in EntriesOf(c, n), NEW t \in EntriesOf(c, n), c.LQ[s].address = c.LQ[t].address
    PROVE  s = t
<1>1. InstrTyped(P, c, n, hi) /\ n # 0
  BY InBounds DEF Queues
<1>2. ASSUME NEW x \in EntriesOf(c, n)
      PROVE  \E j \in 1 .. Len(P[n].load) : P[n].load[j] = c.LQ[x].address /\ c.rob[n].lq_index[j] = x
  <2>1. x \in LoadSlots /\ c.LQ[x].instr = n /\ LoadEntry(P, c, lo, hi, x)
    BY DEF EntriesOf, Queues
  <2>2. c.LQ[x] # NoEntry
    BY <1>1, <2>1 DEF NoEntry
  <2>3. \E j \in c.rob[n].source_added : P[n].load[j] = c.LQ[x].address /\ c.rob[n].lq_index[j] = x
    BY <2>1, <2>2, Zenon DEF LoadEntry
  <2> QED
    BY <1>1, <2>3 DEF InstrTyped
<1>3. PICK i \in 1 .. Len(P[n].load) : P[n].load[i] = c.LQ[s].address /\ c.rob[n].lq_index[i] = s
  BY <1>2
<1>4. PICK j \in 1 .. Len(P[n].load) : P[n].load[j] = c.LQ[t].address /\ c.rob[n].lq_index[j] = t
  BY <1>2
<1>5. i = j
  BY <1>3, <1>4
<1> QED
  BY <1>3, <1>4, <1>5

LEMMA LoadsOverAnswered ==
    ASSUME NEW P, NEW c, NEW z, NEW lo, NEW hi, Bounds(P, lo, hi), Queues(P, c, lo, hi), Tally(P, c, lo, hi),
           NEW S \in SUBSET LoadSlots, NEW v, LoadsOver(c, z, S, v), NEW n \in lo + 1 .. hi
    PROVE  AnsweredOnce(P, z, n)
<1> SUFFICES ASSUME \A i, j \in 1 .. Len(P[n].load) : P[n].load[i] = P[n].load[j] => i = j
             PROVE  /\ \A d \in z.data[n] : \E j \in z.rob[n].source_added : d[1] = P[n].load[j]
                    /\ \A s \in EntriesOf(z, n) : \A d \in z.data[n] : d[1] # z.LQ[s].address
  BY DEF AnsweredOnce
<1>1. n \in Ids /\ n # 0 /\ Shape(z)
  BY InBounds DEF LoadsOver
<1>2. /\ \A d \in c.data[n] : \E j \in c.rob[n].source_added : d[1] = P[n].load[j]
      /\ \A s \in EntriesOf(c, n) : \A d \in c.data[n] : d[1] # c.LQ[s].address
  BY DEF Tally, AnsweredOnce
<1>3. z.rob[n].source_added = c.rob[n].source_added
  <2>1. DOMAIN z.rob[n] = InstrFields
    BY <1>1 DEF Shape
  <2>2. z.rob[n] = [c.rob[n] EXCEPT !.num_mem_ops = @ - Cardinality(SlotsOf(c, S, n))]
    BY <1>1 DEF LoadsOver
  <2> QED
    BY <2>1, <2>2 DEF InstrFields
<1>4. ASSUME NEW d \in z.data[n]
      PROVE  d \in c.data[n] \/ \E s \in SlotsOf(c, S, n) : d = <<c.LQ[s].address, v[c.LQ[s].address]>>
  BY <1>1 DEF LoadsOver
<1>5. SlotsOf(c, S, n) \subseteq EntriesOf(c, n)
  BY DEF SlotsOf, EntriesOf
<1>6. ASSUME NEW s \in EntriesOf(c, n) PROVE \E j \in c.rob[n].source_added : c.LQ[s].address = P[n].load[j]
  <2>1. s \in LoadSlots /\ c.LQ[s].instr = n /\ LoadEntry(P, c, lo, hi, s)
    BY DEF EntriesOf, Queues
  <2>2. c.LQ[s] # NoEntry
    BY <1>1, <2>1 DEF NoEntry
  <2> QED
    BY <2>1, <2>2, Zenon DEF LoadEntry
<1>7. ASSUME NEW d \in z.data[n] PROVE \E j \in z.rob[n].source_added : d[1] = P[n].load[j]
  <2>1. CASE d \in c.data[n]
    BY <1>2, <1>3, <2>1
  <2>2. ASSUME NEW s \in SlotsOf(c, S, n), d = <<c.LQ[s].address, v[c.LQ[s].address]>>
        PROVE  \E j \in z.rob[n].source_added : d[1] = P[n].load[j]
    <3>1. d[1] = c.LQ[s].address
      BY <2>2
    <3> QED
      BY <1>3, <1>5, <1>6, <3>1
  <2> QED
    BY <1>4, <2>1, <2>2
<1>8. ASSUME NEW s \in EntriesOf(z, n) PROVE s \in EntriesOf(c, n) /\ s \notin S /\ z.LQ[s] = c.LQ[s]
  <2>1. s \in LoadSlots /\ z.LQ[s].instr = n /\ z.LQ[s] = IF s \in S THEN NoEntry ELSE c.LQ[s]
    BY DEF EntriesOf, LoadsOver
  <2>2. s \notin S
    BY <1>1, <2>1 DEF NoEntry
  <2> QED
    BY <2>1, <2>2 DEF EntriesOf
<1>9. ASSUME NEW s \in EntriesOf(z, n), NEW d \in z.data[n] PROVE d[1] # z.LQ[s].address
  <2>1. s \in EntriesOf(c, n) /\ s \notin S /\ z.LQ[s] = c.LQ[s]
    BY <1>8
  <2>2. CASE d \in c.data[n]
    BY <1>2, <2>1, <2>2
  <2>3. ASSUME NEW t \in SlotsOf(c, S, n), d = <<c.LQ[t].address, v[c.LQ[t].address]>>
        PROVE  d[1] # z.LQ[s].address
    <3>1. d[1] = c.LQ[t].address /\ t \in S /\ t \in EntriesOf(c, n)
      BY <1>5, <2>3 DEF SlotsOf
    <3>2. s # t
      BY <2>1, <3>1
    <3>3. c.LQ[s].address = c.LQ[t].address => s = t
      BY <2>1, <3>1, EntriesApart
    <3> QED
      BY <2>1, <3>1, <3>2, <3>3
  <2> QED
    BY <1>4, <2>2, <2>3
<1> QED
  BY <1>7, <1>9

LEMMA LoadsOverTally ==
    ASSUME NEW P, NEW c, NEW z, NEW lo, NEW hi, Bounds(P, lo, hi), Queues(P, c, lo, hi), Tally(P, c, lo, hi),
           NEW S \in SUBSET LoadSlots, NEW v, LoadsOver(c, z, S, v)
    PROVE  Tally(P, z, lo, hi)
<1> DEFINE over == [m \in Ids |-> Cardinality(SlotsOf(c, S, m))]
<1>1. lo + 1 .. hi \subseteq Ids /\ 0 \notin lo + 1 .. hi
  BY InBounds
<1>2. ASSUME NEW m
      PROVE  /\ IsFiniteSet(SlotsOf(c, S, m)) /\ Cardinality(SlotsOf(c, S, m)) \in Nat
             /\ SlotsOf(c, S, m) \subseteq EntriesOf(c, m)
  <2>1. SlotsOf(c, S, m) \in SUBSET LoadSlots /\ SlotsOf(c, S, m) \subseteq EntriesOf(c, m)
    BY DEF SlotsOf, EntriesOf
  <2> QED
    BY <2>1, SlotsAreFinite, FS_Subset, FS_CardinalityType
<1>3. ASSUME NEW m \in Ids, over[m] > 0
      PROVE  /\ m \in lo + 1 .. hi /\ HasMemory(P, m) /\ c.rob[m].executed # COMPLETED
             /\ over[m] <= c.rob[m].num_mem_ops
  <2>1. over[m] = Cardinality(SlotsOf(c, S, m))
    OBVIOUS
  <2>2. PICK s : s \in SlotsOf(c, S, m)
    BY <1>2, <1>3, <2>1, FS_EmptySet
  <2>3. s \in EntriesOf(c, m) /\ s \in LoadSlots /\ c.LQ[s].instr = m
    BY <2>2 DEF SlotsOf, EntriesOf
  <2>4. c.LQ[s] # NoEntry
    <3>1. NoEntry.instr = 0 /\ m # 0
      BY DEF NoEntry, Ids
    <3> QED
      BY <2>3, <3>1
  <2>5. m \in lo + 1 .. hi /\ \E j \in 1 .. Len(P[m].load) : P[m].load[j] = c.LQ[s].address
    BY <2>3, <2>4, EntryLoad
  <2>6. HasMemory(P, m)
    BY <2>5 DEF HasMemory
  <2>7. c.rob[m].executed # COMPLETED
    BY <2>3, <2>5 DEF Queues, Counted
  <2>8. /\ c.rob[m].num_mem_ops \in Nat /\ Cardinality(EntriesOf(c, m)) \in Nat /\ IsFiniteSet(EntriesOf(c, m))
        /\ Cardinality(Unexecuted(P, c, m)) \in Nat
        /\ Cardinality(EntriesOf(c, m)) + Cardinality(Unexecuted(P, c, m)) <= c.rob[m].num_mem_ops
    BY <2>5, <2>7, OperationsLeft
  <2>9. Cardinality(SlotsOf(c, S, m)) <= Cardinality(EntriesOf(c, m))
    BY <1>2, <2>8, FS_Subset
  <2>10. over[m] <= c.rob[m].num_mem_ops
    BY <1>2, <2>1, <2>8, <2>9
  <2> QED
    BY <2>5, <2>6, <2>7, <2>10
<1>4. over \in [Ids -> Nat]
  BY <1>2
<1>5. ASSUME NEW m \in lo + 1 .. hi
      PROVE  /\ z.rob[m].executed = c.rob[m].executed
             /\ z.rob[m].num_mem_ops = c.rob[m].num_mem_ops - over[m]
  <2>1. m \in Ids /\ DOMAIN z.rob[m] = InstrFields
    BY <1>1 DEF LoadsOver, Shape
  <2>2. z.rob[m] = [c.rob[m] EXCEPT !.num_mem_ops = c.rob[m].num_mem_ops - over[m]]
    BY <2>1 DEF LoadsOver
  <2>3. DOMAIN c.rob[m] = InstrFields
    BY <2>1, <2>2
  <2> HIDE DEF over
  <2> QED
    BY <2>2, <2>3 DEF InstrFields
<1>6. {m \in Ids : over[m] > 0 /\ c.rob[m].num_mem_ops = over[m]}
        = {m \in Ids : /\ Cardinality(SlotsOf(c, S, m)) > 0
                       /\ c.rob[m].num_mem_ops = Cardinality(SlotsOf(c, S, m))}
  OBVIOUS
<1>7. z.inflight_reg = c.inflight_reg
  BY DEF LoadsOver, CoreFields
<1>8. z.inflight_mem = c.inflight_mem + Cardinality({m \in Ids : over[m] > 0 /\ c.rob[m].num_mem_ops = over[m]})
  BY <1>6 DEF LoadsOver
<1> HIDE DEF over
<1>9. Over(P, c, z, lo, hi, over)
  BY <1>3, <1>4, <1>5, <1>7, <1>8 DEF Over
<1>10. InFlight(P, z, lo, hi)
  BY <1>9, InFlightOver DEF Tally
<1>11. \A n \in lo + 1 .. hi : AnsweredOnce(P, z, n)
  BY LoadsOverAnswered
<1> QED
  BY <1>10, <1>11 DEF Tally

LEMMA LoadEnteredTally ==
    ASSUME NEW c, NEW z, NEW lo, NEW hi, NEW n, NEW j, NEW slot, NEW p,
           LoadEnters(c, z, lo, hi, n, j, slot, p), Tally(program, c, lo, hi)
    PROVE  Tally(program, z, lo, hi)
<1> USE DEF LoadEnters
<1> DEFINE e == [instr |-> n, address |-> program[n].load[j], producer |-> p]
<1>0. lo + 1 .. hi \subseteq Ids /\ 0 \notin lo + 1 .. hi
  BY InBounds
<1>1. /\ z.inflight_reg = c.inflight_reg /\ z.inflight_mem = c.inflight_mem /\ z.data = c.data
      /\ z.LQ[slot] = e /\ \A s \in LoadSlots : s # slot => z.LQ[s] = c.LQ[s]
  <2>1. DOMAIN z.LQ = LoadSlots /\ z.data = c.data /\ z.inflight_reg = c.inflight_reg /\ z.inflight_mem = c.inflight_mem
    BY DEF LoadEntered, Shape, CoreFields
  <2>2. z.LQ = [c.LQ EXCEPT ![slot] = e]
    BY DEF LoadEntered
  <2>3. DOMAIN c.LQ = LoadSlots
    BY <2>1, <2>2
  <2> HIDE DEF e
  <2> QED
    BY <2>1, <2>2, <2>3
<1>2. e.instr = n /\ e.address = program[n].load[j]
  OBVIOUS
<1> HIDE DEF e
<1>3. ASSUME NEW m \in lo + 1 .. hi
      PROVE  /\ z.rob[m].executed = c.rob[m].executed /\ z.rob[m].num_mem_ops = c.rob[m].num_mem_ops
             /\ z.rob[m].source_added = IF m = n THEN c.rob[m].source_added \cup {j} ELSE c.rob[m].source_added
  <2>1. m \in Ids
    BY <1>0
  <2>2. CASE m = n
    BY <2>2 DEF LoadEntered, InstrFields
  <2>3. CASE m # n
    BY <2>1, <2>3 DEF LoadEntered
  <2> QED
    BY <2>2, <2>3
<1>4. InFlight(program, z, lo, hi)
  BY <1>1, <1>3, InFlightSame DEF Tally
<1>5. ASSUME NEW m \in lo + 1 .. hi,
             \A i, k \in 1 .. Len(program[m].load) : program[m].load[i] = program[m].load[k] => i = k
      PROVE  /\ \A d \in z.data[m] : \E i \in z.rob[m].source_added : d[1] = program[m].load[i]
             /\ \A s \in EntriesOf(z, m) : \A d \in z.data[m] : d[1] # z.LQ[s].address
  <2>1. /\ \A d \in c.data[m] : \E i \in c.rob[m].source_added : d[1] = program[m].load[i]
        /\ \A s \in EntriesOf(c, m) : \A d \in c.data[m] : d[1] # c.LQ[s].address
    BY <1>5 DEF Tally, AnsweredOnce
  <2>2. \A d \in z.data[m] : \E i \in z.rob[m].source_added : d[1] = program[m].load[i]
    BY <1>1, <1>3, <2>1, ZenonT(60)
  <2>3. ASSUME NEW s \in EntriesOf(z, m), NEW d \in z.data[m] PROVE d[1] # z.LQ[s].address
    <3>1. CASE s # slot
      <4>1. z.LQ[s] = c.LQ[s] /\ s \in EntriesOf(c, m)
        BY <1>1, <3>1 DEF EntriesOf
      <4> QED
        BY <1>1, <2>1, <4>1
    <3>2. CASE s = slot
      <4>1. m = n /\ z.LQ[s].address = program[n].load[j]
        BY <1>1, <1>2, <3>2 DEF EntriesOf
      <4>2. PICK i \in c.rob[n].source_added : d[1] = program[n].load[i]
        BY <1>1, <2>1, <4>1
      <4>3. i # j /\ i \in 1 .. Len(program[n].load)
        <5>1. InstrTyped(program, c, n, hi)
          BY DEF Queues
        <5> QED
          BY <4>2, <5>1 DEF InstrTyped
      <4> QED
        BY <1>5, <4>1, <4>2, <4>3
    <3> QED
      BY <3>1, <3>2
  <2> QED
    BY <2>2, <2>3
<1>6. \A m \in lo + 1 .. hi : AnsweredOnce(program, z, m)
  BY <1>5 DEF AnsweredOnce
<1> QED
  BY <1>4, <1>6 DEF Tally

-----------------------------------------------------------------------------
(* Steps that touch neither the load queue nor what was returned. *)

LEMMA NonePendingSame ==
    ASSUME NEW P, NEW c, NEW z, NEW lo \in Nat, NEW hi \in Nat, NEW n \in lo + 1 .. hi, NEW a,
           \A m \in lo + 1 .. hi : z.rob[m].destination_memory = c.rob[m].destination_memory,
           NonePending(P, c, lo, n, a)
    PROVE  NonePending(P, z, lo, n, a)
<1>1. \A m \in lo + 1 .. n - 1 : m \in lo + 1 .. hi
  OBVIOUS
<1> QED
  BY <1>1 DEF NonePending

LEMMA SameValues ==
    ASSUME NEW P, NEW c, NEW z, NEW lo, NEW hi, Bounds(P, lo, hi), Queues(P, c, lo, hi),
           Values(P, c, lo, hi), ValuesSame(c, z, lo, hi), Tally(P, z, lo, hi)
    PROVE  Values(P, z, lo, hi) /\ Kept(c, z, lo, hi)
<1>1. lo \in Nat /\ hi \in Nat /\ lo + 1 .. hi \subseteq Ids
  BY InBounds DEF Bounds
<1>2. ASSUME NEW s \in LoadSlots PROVE Sourced(P, z, lo, s)
  <2>1. z.LQ[s] = c.LQ[s] /\ Sourced(P, c, lo, s) /\ LoadEntry(P, c, lo, hi, s)
    BY DEF ValuesSame, Values, Queues
  <2>2. CASE c.LQ[s] = NoEntry
    BY <2>1, <2>2 DEF Sourced
  <2>3. CASE c.LQ[s] # NoEntry
    <3>1. c.LQ[s].instr \in lo + 1 .. hi
      BY <2>1, <2>3, LoadEntryBounds
    <3>2. c.LQ[s].producer = 0 => NonePending(P, z, lo, c.LQ[s].instr, c.LQ[s].address)
      BY <1>1, <2>1, <2>3, <3>1, NonePendingSame DEF Sourced, ValuesSame
    <3> QED
      BY <2>1, <2>3, <3>2 DEF Sourced
  <2> QED
    BY <2>2, <2>3
<1>3. ASSUME NEW n \in lo + 1 .. hi PROVE Correct(P, z, n) /\ Answered(P, z, n)
  <2>1. /\ Correct(P, c, n) /\ Answered(P, c, n)
        /\ z.rob[n].source_added = c.rob[n].source_added /\ z.data[n] = c.data[n] /\ z.LQ = c.LQ
    BY DEF Values, ValuesSame
  <2>2. EntriesOf(z, n) = EntriesOf(c, n)
    BY <2>1 DEF EntriesOf
  <2>3. Answered(P, z, n)
    <3> SUFFICES ASSUME NEW j \in z.rob[n].source_added
                 PROVE  \/ \E s \in EntriesOf(z, n) : z.LQ[s].address = P[n].load[j]
                        \/ \E v : <<P[n].load[j], v>> \in z.data[n]
      BY DEF Answered
    <3>1. \/ \E s \in EntriesOf(c, n) : c.LQ[s].address = P[n].load[j]
          \/ \E v : <<P[n].load[j], v>> \in c.data[n]
      BY <2>1 DEF Answered
    <3> QED
      BY <2>1, <2>2, <3>1
  <2>4. Correct(P, z, n)
    BY <2>1, Zenon DEF Correct
  <2> QED
    BY <2>3, <2>4
<1>4. \A n \in Ids : n > hi => z.data[n] = {}
  BY DEF Values, ValuesSame
<1>5. Kept(c, z, lo, hi)
  BY DEF Kept, ValuesSame
<1> QED
  BY <1>2, <1>3, <1>4, <1>5 DEF Values

-----------------------------------------------------------------------------
(* Loads that get their data. *)

\* v has for each of these entries what its load must return.
RightFor(P, c, S, v) ==
    \A s \in S : /\ c.LQ[s] # NoEntry
                  /\ IsLast(P, c.LQ[s].instr, c.LQ[s].address, v[c.LQ[s].address])

LEMMA LoadsOverValues ==
    ASSUME NEW P, NEW c, NEW z, NEW lo, NEW hi, Bounds(P, lo, hi), Queues(P, c, lo, hi),
           Values(P, c, lo, hi),
           NEW S \in SUBSET LoadSlots, NEW v, LoadsOver(c, z, S, v), RightFor(P, c, S, v)
    PROVE  Values(P, z, lo, hi) /\ Kept(c, z, lo, hi)
<1>0. lo \in Nat /\ hi \in Nat /\ lo + 1 .. hi \subseteq Ids /\ Shape(z) /\ Ids \subseteq Nat
  BY InBounds DEF Bounds, LoadsOver, Ids
<1>1. /\ \A s \in S : z.LQ[s] = NoEntry
      /\ \A s \in LoadSlots \ S : z.LQ[s] = c.LQ[s]
      /\ \A m \in Ids :
            z.data[m] = c.data[m] \cup {<<c.LQ[s].address, v[c.LQ[s].address]>> : s \in SlotsOf(c, S, m)}
  BY DEF LoadsOver
<1>2. ASSUME NEW m \in lo + 1 .. hi
      PROVE  /\ z.rob[m].source_added = c.rob[m].source_added
             /\ z.rob[m].destination_memory = c.rob[m].destination_memory
  <2>1. m \in Ids /\ DOMAIN z.rob[m] = InstrFields
    BY <1>0 DEF Shape
  <2>2. z.rob[m] = [c.rob[m] EXCEPT !.num_mem_ops = @ - Cardinality(SlotsOf(c, S, m))]
    BY <2>1 DEF LoadsOver
  <2>3. DOMAIN c.rob[m] = InstrFields
    BY <2>1, <2>2
  <2> QED
    BY <2>2, <2>3 DEF InstrFields
<1>3. \A s \in S : c.LQ[s].instr \in lo + 1 .. hi
  BY EntryLoad DEF RightFor
<1>4. \A m : m \notin lo + 1 .. hi => SlotsOf(c, S, m) = {}
  BY <1>3 DEF SlotsOf
<1>5. ASSUME NEW s \in LoadSlots PROVE Sourced(P, z, lo, s)
  <2>1. CASE z.LQ[s] = NoEntry
    BY <2>1 DEF Sourced
  <2>2. CASE z.LQ[s] # NoEntry
    <3>1. z.LQ[s] = c.LQ[s]
      BY <1>1, <2>2
    <3>2. Sourced(P, c, lo, s) /\ c.LQ[s].instr \in lo + 1 .. hi
      BY <2>2, <3>1, EntryLoad DEF Values
    <3>3. NonePending(P, c, lo, c.LQ[s].instr, c.LQ[s].address) => NonePending(P, z, lo, c.LQ[s].instr, c.LQ[s].address)
      BY <1>0, <1>2, <3>2, NonePendingSame
    <3> QED
      BY <2>2, <3>1, <3>2, <3>3 DEF Sourced
  <2> QED
    BY <2>1, <2>2
<1>6. ASSUME NEW n \in lo + 1 .. hi PROVE Correct(P, z, n)
  <2>1. n \in Ids /\ Correct(P, c, n)
    BY <1>0 DEF Values
  <2>2. ASSUME NEW s \in SlotsOf(c, S, n)
        PROVE  LET d == <<c.LQ[s].address, v[c.LQ[s].address]>>
               IN  \E j \in 1 .. Len(P[n].load) : \E w : d = <<P[n].load[j], w>> /\ IsLast(P, n, P[n].load[j], w)
    <3>1. s \in S /\ c.LQ[s].instr = n
      BY DEF SlotsOf
    <3>2. s \in LoadSlots /\ c.LQ[s] # NoEntry /\ IsLast(P, n, c.LQ[s].address, v[c.LQ[s].address])
      BY <3>1 DEF RightFor
    <3>3. PICK j \in 1 .. Len(P[n].load) : P[n].load[j] = c.LQ[s].address
      BY <3>1, <3>2, EntryLoad
    <3> QED
      BY <3>2, <3>3
  <2>3. \A d \in z.data[n] : d \in c.data[n] \/ \E s \in SlotsOf(c, S, n) : d = <<c.LQ[s].address, v[c.LQ[s].address]>>
    BY <1>1, <2>1
  <2> QED
    BY <2>1, <2>2, <2>3, ZenonT(60) DEF Correct
<1>7. ASSUME NEW n \in lo + 1 .. hi PROVE Answered(P, z, n)
  <2>1. n \in Ids /\ Answered(P, c, n) /\ z.rob[n].source_added = c.rob[n].source_added
    BY <1>0, <1>2 DEF Values
  <2>2. ASSUME NEW j \in c.rob[n].source_added, NEW s \in EntriesOf(c, n), c.LQ[s].address = P[n].load[j]
        PROVE  \/ \E t \in EntriesOf(z, n) : z.LQ[t].address = P[n].load[j]
               \/ \E w : <<P[n].load[j], w>> \in z.data[n]
    <3>1. s \in LoadSlots /\ c.LQ[s].instr = n
      BY DEF EntriesOf
    <3>2. CASE s \in S
      <4>1. s \in SlotsOf(c, S, n)
        BY <3>1, <3>2 DEF SlotsOf
      <4>2. <<c.LQ[s].address, v[c.LQ[s].address]>> \in z.data[n]
        BY <1>1, <2>1, <4>1
      <4> QED
        BY <2>2, <4>2
    <3>3. CASE s \notin S
      <4>1. z.LQ[s] = c.LQ[s]
        BY <1>1, <3>1, <3>3
      <4>2. s \in EntriesOf(z, n)
        BY <3>1, <4>1 DEF EntriesOf
      <4> QED
        BY <2>2, <4>1, <4>2
    <3> QED
      BY <3>2, <3>3
  <2>3. c.data[n] \subseteq z.data[n]
    BY <1>1, <2>1
  <2> QED
    BY <2>1, <2>2, <2>3, ZenonT(60) DEF Answered
<1>8. ASSUME NEW m \in Ids, m \notin lo + 1 .. hi PROVE z.data[m] = c.data[m]
  <2>1. SlotsOf(c, S, m) = {}
    BY <1>4, <1>8
  <2>2. {<<c.LQ[s].address, v[c.LQ[s].address]>> : s \in SlotsOf(c, S, m)} = {}
    BY <2>1
  <2> QED
    BY <1>1, <2>2
<1>9. \A n \in Ids : n > hi => z.data[n] = {}
  <2>1. \A n \in Ids : n > hi => n \notin lo + 1 .. hi
    BY <1>0
  <2> QED
    BY <1>8, <2>1 DEF Values
<1>10. Kept(c, z, lo, hi)
  BY <1>2, <1>8 DEF Kept
<1>11. Tally(P, z, lo, hi)
  <2>1. Tally(P, c, lo, hi)
    BY DEF Values
  <2> QED
    BY <2>1, LoadsOverTally
<1> QED
  BY <1>5, <1>6, <1>7, <1>9, <1>10, <1>11 DEF Values

-----------------------------------------------------------------------------
(* A load that enters. *)

\* The closest store not written is the last one in the trace, and without one the
\* memory holds the value or will hold it.
LEMMA ProducerIsLast ==
    ASSUME Order, NEW c, NEW mem, InOrderWrites(program, c, retired, dispatched, mem), NEW n \in ROB, NEW a
    PROVE  LET p == Closest(StoreProducers(c, n, a))
           IN  /\ p # 0 => IsLast(program, n, a, p)
               /\ p = 0 => NonePending(program, c, retired, n, a)
<1> DEFINE p == Closest(StoreProducers(c, n, a))
<1>0. /\ retired \in Nat /\ dispatched \in Nat /\ n \in Nat /\ retired < n /\ n <= dispatched
      /\ \A m : m \in ROB <=> m \in Nat /\ retired < m /\ m <= dispatched
  BY RobInTrace DEF Order
<1>1. /\ p = 0 <=> StoreProducers(c, n, a) = {}
      /\ p # 0 => p \in StoreProducers(c, n, a) /\ p \in ROB /\ p < n
      /\ \A l \in StoreProducers(c, n, a) : l <= p
  BY ProducerIsEarlier
<1> HIDE DEF p
<1>2. ASSUME p = 0 PROVE NonePending(program, c, retired, n, a)
  <2> SUFFICES ASSUME NEW m \in retired + 1 .. n - 1, NEW k \in c.rob[m].destination_memory, program[m].store[k] = a
               PROVE  FALSE
    BY DEF NonePending
  <2>1. m \in ROB /\ m < n
    BY <1>0
  <2>2. m \in StoreProducers(c, n, a)
    BY <2>1 DEF StoreProducers
  <2> QED
    BY <1>1, <1>2, <2>2
<1>3. ASSUME p # 0 PROVE IsLast(program, n, a, p)
  <2>1. p \in ROB /\ p < n /\ p \in Nat
    BY <1>0, <1>1, <1>3
  <2>2. p \in 1 .. Len(program) /\ p \in retired + 1 .. dispatched
    BY <1>0, <2>1, RobInTrace
  <2>3. PICK k \in c.rob[p].destination_memory : program[p].store[k] = a
    BY <1>1, <1>3 DEF StoreProducers
  <2>4. k \in 1 .. Len(program[p].store)
    <3>1. Len(program[p].store) \in Nat
      BY <2>2, InstructionInTrace
    <3>2. CASE p = retired + 1
      <4>1. retired < dispatched
        BY <1>0
      <4>2. PICK w \in 0 .. Len(program[p].store) : c.rob[p].destination_memory = w + 1 .. Len(program[p].store)
        BY <3>2, <4>1 DEF InOrderWrites
      <4> QED
        BY <2>3, <3>1, <4>2
    <3>3. CASE p # retired + 1
      <4>1. p \in retired + 2 .. dispatched
        BY <1>0, <2>1, <3>3
      <4> QED
        BY <2>3, <4>1 DEF InOrderWrites
    <3> QED
      BY <3>2, <3>3
  <2>5. ASSUME NEW l \in 1 .. n - 1, StoresTo(program, l, a) PROVE l <= p
    <3> SUFFICES ASSUME p < l PROVE FALSE
      BY <1>0, <2>1
    <3>1. l \in retired + 2 .. dispatched /\ l \in ROB /\ l < n
      BY <1>0, <2>1
    <3>2. c.rob[l].destination_memory = 1 .. Len(program[l].store)
      BY <3>1 DEF InOrderWrites
    <3>3. l \in StoreProducers(c, n, a)
      BY <2>5, <3>1, <3>2 DEF StoresTo, StoreProducers
    <3>4. l <= p
      BY <1>1, <3>3
    <3> QED
      BY <2>1, <3>4
  <2>6. StoresTo(program, p, a) /\ p \in 0 .. n - 1
    BY <1>0, <2>1, <2>3, <2>4 DEF StoresTo
  <2> QED
    BY <2>5, <2>6 DEF IsLast
<1> QED
  BY <1>2, <1>3 DEF p

LEMMA LoadEnteredValues ==
    ASSUME NEW c, NEW z, NEW lo, NEW hi, NEW n, NEW j, NEW slot, NEW p,
           LoadEnters(c, z, lo, hi, n, j, slot, p), Values(program, c, lo, hi),
           p # 0 => IsLast(program, n, program[n].load[j], p),
           p = 0 => NonePending(program, c, lo, n, program[n].load[j])
    PROVE  Values(program, z, lo, hi) /\ Kept(c, z, lo, hi)
<1> DEFINE a == program[n].load[j]
           e == [instr |-> n, address |-> a, producer |-> p]
<1> USE DEF LoadEnters
<1>0. lo \in Nat /\ hi \in Nat /\ lo + 1 .. hi \subseteq Ids
  BY InBounds DEF Bounds
<1>1. /\ z.LQ[slot] = e /\ \A s \in LoadSlots : s # slot => z.LQ[s] = c.LQ[s]
      /\ Shape(z) /\ z.data = c.data
  <2>1. DOMAIN z.LQ = LoadSlots /\ z.data = c.data /\ Shape(z)
    BY DEF LoadEntered, Shape, CoreFields
  <2>2. z.LQ = [c.LQ EXCEPT ![slot] = e]
    BY DEF LoadEntered
  <2>3. DOMAIN c.LQ = LoadSlots
    BY <2>1, <2>2
  <2> HIDE DEF e
  <2> QED
    BY <2>1, <2>2, <2>3
<1>2. ASSUME NEW m \in lo + 1 .. hi
      PROVE  /\ z.rob[m].destination_memory = c.rob[m].destination_memory
             /\ z.rob[m].source_added = IF m = n THEN c.rob[m].source_added \cup {j} ELSE c.rob[m].source_added
  <2>1. m \in Ids
    BY <1>0
  <2>2. CASE m = n
    BY <2>2 DEF LoadEntered, InstrFields
  <2>3. CASE m # n
    BY <2>1, <2>3 DEF LoadEntered
  <2> QED
    BY <2>2, <2>3
<1>3. e.instr = n /\ e.address = a /\ e.producer = p
  OBVIOUS
<1> HIDE DEF e, a
<1>4. ASSUME NEW s \in LoadSlots PROVE Sourced(program, z, lo, s)
  <2>1. CASE s = slot
    <3>1. p = 0 => NonePending(program, z, lo, n, a)
      BY <1>0, <1>2, NonePendingSame DEF a
    <3> QED
      BY <1>1, <1>3, <2>1, <3>1 DEF Sourced, a
  <2>2. CASE s # slot
    <3>1. z.LQ[s] = c.LQ[s] /\ Sourced(program, c, lo, s)
      BY <1>1, <2>2 DEF Values
    <3>2. CASE c.LQ[s] = NoEntry
      BY <3>1, <3>2 DEF Sourced
    <3>3. CASE c.LQ[s] # NoEntry
      <4>1. c.LQ[s].instr \in lo + 1 .. hi
        BY <3>3, EntryLoad
      <4>2. NonePending(program, c, lo, c.LQ[s].instr, c.LQ[s].address)
               => NonePending(program, z, lo, c.LQ[s].instr, c.LQ[s].address)
        <5>1. lo \in Nat /\ hi \in Nat
          BY <1>0
        <5>2. \A m \in lo + 1 .. hi : z.rob[m].destination_memory = c.rob[m].destination_memory
          BY <1>2
        <5> QED
          BY ONLY <4>1, <5>1, <5>2, NonePendingSame
      <4> QED
        BY <3>1, <3>3, <4>2 DEF Sourced
    <3> QED
      BY <3>2, <3>3
  <2> QED
    BY <2>1, <2>2
<1>5. \A m \in lo + 1 .. hi : Correct(program, z, m)
  BY <1>1 DEF Values, Correct
<1>6. ASSUME NEW m \in lo + 1 .. hi PROVE Answered(program, z, m)
  <2>1. Answered(program, c, m)
    BY DEF Values
  <2>2. \A s \in EntriesOf(c, m) : s \in EntriesOf(z, m) /\ z.LQ[s] = c.LQ[s]
    <3>1. NoEntry.instr = 0 /\ m # 0
      BY <1>0 DEF NoEntry
    <3> QED
      BY <1>1, <3>1 DEF EntriesOf
  <2>3. slot \in EntriesOf(z, n)
    BY <1>1, <1>3 DEF EntriesOf
  <2>4. ASSUME NEW i \in z.rob[m].source_added
        PROVE  \/ \E s \in EntriesOf(z, m) : z.LQ[s].address = program[m].load[i]
               \/ \E v : <<program[m].load[i], v>> \in z.data[m]
    <3>1. CASE i \in c.rob[m].source_added
      BY <1>1, <2>1, <2>2, <3>1, ZenonT(60) DEF Answered
    <3>2. CASE i \notin c.rob[m].source_added
      <4>1. m = n /\ i = j
        BY <1>2, <3>2
      <4> QED
        BY <1>1, <1>3, <2>3, <4>1 DEF a
    <3> QED
      BY <3>1, <3>2
  <2> QED
    BY <2>4 DEF Answered
<1>7. \A m \in Ids : m > hi => z.data[m] = {}
  BY <1>1 DEF Values
<1>8. Kept(c, z, lo, hi)
  BY <1>1, <1>2 DEF Kept
<1>9. Tally(program, z, lo, hi)
  <2>1. Tally(program, c, lo, hi)
    BY DEF Values
  <2> QED
    BY <2>1, LoadEnteredTally
<1> QED
  BY <1>4, <1>5, <1>6, <1>7, <1>8, <1>9 DEF Values

-----------------------------------------------------------------------------
(* do_memory_scheduling. *)

\* All that holds of the core c between the steps of the loops.
Sound(c, d, l, mem) ==
    /\ Shape(c) /\ QueuesHeld(program, c, d, l, retired, dispatched)
    /\ InOrderWrites(program, c, retired, dispatched, mem) /\ Values(program, c, retired, dispatched)

LEMMA AddLoadValues ==
    ASSUME Order, NEW c, NEW d, NEW l, NEW mem, Sound(c, d, l, mem),
           NEW n \in ROB, NEW j \in 1 .. Len(program[n].load)
    PROVE  LET z == AddLoad(c, n, j)
           IN  Values(program, z, retired, dispatched) /\ Kept(c, z, retired, dispatched)
<1> DEFINE P == program
           a == program[n].load[j]
           slot == FreeSlot(c.LQ)
           p == Closest(StoreProducers(c, n, a))
           e == WithLoad(c, n, j, slot, p)
           f == WithDependent(e, n, p)
           z == AddLoad(c, n, j)
           Goal(x) == Values(P, x, retired, dispatched) /\ Kept(c, x, retired, dispatched)
<1>0. /\ Bounds(P, retired, dispatched) /\ n \in Ids /\ ROB = retired + 1 .. dispatched /\ ROB \subseteq Ids
      /\ Shape(c) /\ Queues(P, c, retired, dispatched) /\ Values(P, c, retired, dispatched)
      /\ InOrderWrites(P, c, retired, dispatched, mem)
  BY RobInTrace, SMTT(60) DEF Order, Bounds, ROB, Sound, QueuesHeld
<1>1. Goal(c)
  BY <1>0 DEF Kept
<1> SUFFICES ASSUME z # c PROVE Goal(z)
  BY <1>1
<1>2. /\ j \notin c.rob[n].source_added /\ ~ AllValid(c.LQ)
      /\ \/ p = 0 /\ z = [e EXCEPT !.RTL0 = Append(@, slot)]
         \/ p # 0 /\ z = Forwarded(f, {slot}, p)
         \/ p # 0 /\ z = f
  BY AddLoadCases
<1>3. slot \in LoadSlots /\ c.LQ[slot] = NoEntry
  BY <1>0, <1>2, FreeSlotIsFree, SizeAssumption DEF Shape, LoadSlots
<1>4. p # 0 => p \in ROB /\ p \in Ids /\ p < n
  BY ProducerIsEarlier
<1>5. p = 0 \/ p \in retired + 1 .. n - 1
  BY <1>0, <1>4 DEF Order, Ids
<1>6. LoadEntered(c, e, n, j, slot, p)
  BY <1>0, WithLoadFields
<1>7. /\ p # 0 => IsLast(P, n, a, p)
      /\ p = 0 => NonePending(P, c, retired, n, a)
  BY <1>0, ProducerIsLast
<1> HIDE DEF p, slot, e, f, z
<1>8. LoadEnters(c, e, retired, dispatched, n, j, slot, p)
  BY <1>0, <1>2, <1>3, <1>5, <1>6 DEF LoadEnters
<1>9. Queues(P, e, retired, dispatched)
  BY <1>8, LoadEnteredKeeps
<1>10. Goal(e)
  BY <1>0, <1>7, <1>8, LoadEnteredValues
<1>11. Shape(e) /\ e.LQ[slot] = [instr |-> n, address |-> a, producer |-> p]
  <2>1. e.LQ[slot] = [instr |-> n, address |-> program[n].load[j], producer |-> p]
    BY <1>8, LoadEnteredKeeps
  <2> QED
    BY <1>6, <2>1, Zenon DEF LoadEntered
<1>12. CASE p = 0 /\ z = [e EXCEPT !.RTL0 = Append(@, slot)]
  <2>1. /\ z.LQ = e.LQ /\ z.data = e.data /\ z.rob = e.rob
        /\ z.inflight_reg = e.inflight_reg /\ z.inflight_mem = e.inflight_mem
    BY <1>11, <1>12 DEF Shape, CoreFields
  <2>2. ValuesSame(e, z, retired, dispatched) /\ TallySame(P, e, z, retired, dispatched)
    BY <2>1 DEF ValuesSame, TallySame
  <2>3. Tally(P, z, retired, dispatched)
    BY <1>10, <2>2, SameTally
  <2> QED
    BY <1>0, <1>9, <1>10, <2>2, <2>3, SameValues, KeptTransitive
<1>13. CASE p # 0
  <2>1. DependentEntered(e, f, n, p)
    BY <1>4, <1>11, <1>13, WithDependentFields DEF f
  <2>2. /\ Shape(f) /\ f.LQ = e.LQ /\ f.data = e.data
        /\ f.inflight_reg = e.inflight_reg /\ f.inflight_mem = e.inflight_mem
    BY <2>1 DEF DependentEntered, CoreFields
  <2>3. ASSUME NEW m \in ROB
        PROVE  /\ f.rob[m].source_added = e.rob[m].source_added
               /\ f.rob[m].destination_memory = e.rob[m].destination_memory
               /\ f.rob[m].num_mem_ops = e.rob[m].num_mem_ops /\ f.rob[m].executed = e.rob[m].executed
    <3>1. m \in Ids
      BY RobInTrace
    <3> QED
      BY <2>1, <3>1 DEF DependentEntered, InstrFields
  <2>4. ValuesSame(e, f, retired, dispatched) /\ TallySame(P, e, f, retired, dispatched)
    BY <1>0, <2>2, <2>3 DEF ValuesSame, TallySame
  <2>5. Goal(f)
    <3>1. Tally(P, f, retired, dispatched)
      BY <1>10, <2>4, SameTally
    <3> QED
      BY <1>0, <1>9, <1>10, <2>4, <3>1, SameValues, KeptTransitive
  <2>6. Queues(P, f, retired, dispatched)
    <3>1. QueuesHeld(P, c, d, l, retired, dispatched)
      BY DEF Sound
    <3>2. LET q == e.rob[p].memory_instrs_depend_on_me
          IN  /\ q \in Seq(p + 1 .. dispatched) /\ Append(q, n) \in Seq(p + 1 .. dispatched)
              /\ Range(q) \subseteq Range(Append(q, n))
      <4> DEFINE q == e.rob[p].memory_instrs_depend_on_me
      <4>1. q \in Seq(p + 1 .. dispatched)
        BY <1>0, <1>4, <1>9, <1>13 DEF Queues, InstrTyped
      <4>2. n \in p + 1 .. dispatched
        BY <1>0, <1>4, <1>13 DEF Ids, Order
      <4> HIDE DEF q
      <4>3. /\ Append(q, n) \in Seq(p + 1 .. dispatched)
            /\ \A i \in DOMAIN q : i \in DOMAIN Append(q, n) /\ Append(q, n)[i] = q[i]
        BY <4>1, <4>2
      <4> QED
        BY <4>1, <4>3 DEF Range, q
    <3>3. ASSUME NEW m \in ROB
          PROVE  /\ f.rob[m].memory_instrs_depend_on_me \in Seq(m + 1 .. dispatched)
                 /\ Range(e.rob[m].memory_instrs_depend_on_me) \subseteq Range(f.rob[m].memory_instrs_depend_on_me)
                 /\ \A g \in InstrFields \ {"memory_instrs_depend_on_me"} : f.rob[m][g] = e.rob[m][g]
      <4>1. CASE m = p
        BY <2>1, <3>2, <4>1 DEF DependentEntered
      <4>2. CASE m # p
        <5>1. f.rob[m] = e.rob[m]
          BY <1>0, <2>1, <4>2 DEF DependentEntered
        <5>2. e.rob[m].memory_instrs_depend_on_me \in Seq(m + 1 .. dispatched)
          BY <1>0, <1>9 DEF Queues, InstrTyped
        <5> QED
          BY <5>1, <5>2
      <4> QED
        BY <4>1, <4>2
    <3>4. f.SQ = e.SQ /\ QueuesTyped(f)
      <4>1. QueuesTyped(e)
        BY <1>9 DEF Queues
      <4> QED
        BY <2>1, <4>1 DEF DependentEntered, CoreFields, QueuesTyped
    <3>5. QueuesSame(e, f, retired, dispatched)
      <4>1. ASSUME NEW m \in ROB
            PROVE  /\ f.rob[m].source_added = e.rob[m].source_added
                   /\ f.rob[m].destination_added = e.rob[m].destination_added
                   /\ f.rob[m].destination_memory = e.rob[m].destination_memory
                   /\ f.rob[m].lq_index = e.rob[m].lq_index
                   /\ f.rob[m].sq_index = e.rob[m].sq_index
                   /\ f.rob[m].num_mem_ops = e.rob[m].num_mem_ops
                   /\ f.rob[m].executed = e.rob[m].executed
        BY <3>3 DEF InstrFields
      <4> HIDE DEF f, e
      <4>2. \A m \in retired + 1 .. dispatched : m \in ROB
        BY <1>0
      <4> QED
        BY <2>2, <3>3, <3>4, <4>1, <4>2 DEF QueuesSame
    <3> QED
      BY <1>0, <1>9, <3>4, <3>5, SameQueuesKeep
  <2>7. CASE z = f
    BY <2>5, <2>7
  <2>8. CASE z = Forwarded(f, {slot}, p)
    <3> DEFINE v == [x \in Address |-> p]
               S == {slot}
    <3>1. a \in Address
      <4>1. n \in 1 .. Len(program)
        BY RobInTrace
      <4>2. program[n].load \in Seq(Address)
        BY <4>1, InstructionInTrace
      <4> QED
        BY <4>2
    <3>2. z = Loaded(f, S, v)
      BY <2>8 DEF Forwarded
    <3>3. v[a] = p
      BY <3>1
    <3> HIDE DEF v
    <3>4. LoadsOver(f, z, S, v)
      BY <1>3, <2>2, <3>2, LoadedFields
    <3>5. RightFor(P, f, S, v)
      <4>1. f.LQ[slot].instr = n /\ f.LQ[slot].address = a
        BY <1>11, <2>2
      <4>2. f.LQ[slot] # NoEntry
        BY <1>0, <4>1 DEF NoEntry, Ids
      <4> QED
        BY <1>7, <1>13, <3>3, <4>1, <4>2 DEF RightFor
    <3> HIDE DEF S
    <3>6. S \in SUBSET LoadSlots
      BY <1>3 DEF S
    <3> QED
      BY <1>0, <2>5, <2>6, <3>4, <3>5, <3>6, LoadsOverValues, KeptTransitive
  <2> QED
    BY <1>2, <1>13, <2>7, <2>8
<1> QED
  BY <1>2, <1>12, <1>13

LEMMA AddLoadSound ==
    ASSUME Order, NEW c, NEW d, NEW l, NEW mem, Sound(c, d, l, mem),
           NEW n \in ROB, NEW j \in 1 .. Len(program[n].load)
    PROVE  Sound(AddLoad(c, n, j), d, l, mem) /\ Kept(c, AddLoad(c, n, j), retired, dispatched)
<1> DEFINE z == AddLoad(c, n, j)
<1>1. Values(program, z, retired, dispatched) /\ Kept(c, z, retired, dispatched)
  BY AddLoadValues
<1>2. QueuesHeld(program, z, d, l, retired, dispatched) /\ Shape(z)
  BY AddLoadKeeps DEF Sound
<1> HIDE DEF z
<1>3. InOrderWrites(program, z, retired, dispatched, mem)
  BY <1>1, KeptWrites DEF Sound, Order
<1> QED
  BY <1>1, <1>2, <1>3 DEF Sound, z

LEMMA AddStoreSound ==
    ASSUME Order, NEW c, NEW d, NEW l, NEW mem, Sound(c, d, l, mem),
           NEW n \in ROB, NEW k \in 1 .. Len(program[n].store)
    PROVE  Sound(AddStore(c, n, k), d, l, mem) /\ Kept(c, AddStore(c, n, k), retired, dispatched)
<1> DEFINE z == AddStore(c, n, k)
           slot == FreeSlot(c.SQ)
<1>1. QueuesHeld(program, z, d, l, retired, dispatched) /\ Shape(z)
  BY AddStoreKeeps DEF Sound
<1>2. ValuesSame(c, z, retired, dispatched) /\ TallySame(program, c, z, retired, dispatched)
  <2>1. CASE z = c
    BY <2>1 DEF ValuesSame, TallySame
  <2>2. CASE z # c
    <3>1. z = WithStore(c, n, k, slot)
      BY <2>2, AddStoreCases
    <3>2. StoreEntered(c, z, n, k, slot)
      BY <3>1, RobInTrace, WithStoreFields DEF Sound
    <3> HIDE DEF z, slot
    <3>3. /\ z.LQ = c.LQ /\ z.data = c.data
          /\ z.inflight_reg = c.inflight_reg /\ z.inflight_mem = c.inflight_mem
      BY <3>2 DEF StoreEntered, CoreFields
    <3>4. ASSUME NEW m \in ROB
          PROVE  /\ z.rob[m].source_added = c.rob[m].source_added
                 /\ z.rob[m].destination_memory = c.rob[m].destination_memory
                 /\ z.rob[m].num_mem_ops = c.rob[m].num_mem_ops /\ z.rob[m].executed = c.rob[m].executed
      <4>1. m \in Ids
        BY RobInTrace
      <4> QED
        BY <3>2, <4>1 DEF StoreEntered, InstrFields
    <3> QED
      BY <3>3, <3>4 DEF ValuesSame, TallySame, ROB
  <2> QED
    BY <2>1, <2>2
<1>3. /\ Bounds(program, retired, dispatched) /\ Queues(program, c, retired, dispatched)
      /\ Values(program, c, retired, dispatched)
  BY DEF Order, Bounds, Sound, QueuesHeld
<1> HIDE DEF z
<1>4. Values(program, z, retired, dispatched) /\ Kept(c, z, retired, dispatched)
  BY <1>2, <1>3, SameTally, SameValues
<1>5. InOrderWrites(program, z, retired, dispatched, mem)
  BY <1>4, KeptWrites DEF Sound, Order
<1> QED
  BY <1>1, <1>4, <1>5 DEF Sound, z

LEMMA LoadsAddedSound ==
    ASSUME Order, NEW c, NEW d, NEW l, NEW mem, Sound(c, d, l, mem), NEW n \in ROB
    PROVE  Sound(LoadsAdded(c, n), d, l, mem) /\ Kept(c, LoadsAdded(c, n), retired, dispatched)
<1>1. n \in Ids /\ n \in 1 .. Len(program)
  BY RobInTrace
<1>2. Len(program[n].load) \in Nat
  BY <1>1, InstructionInTrace
<1>3. PICK f : LoadRun(c, n, f)
  BY <1>2, LoadsAddedSteps
<1>4. /\ f[0] = c
      /\ \A j \in 1 .. Len(program[n].load) : f[j] = AddLoad(f[j - 1], n, j)
      /\ LoadsAdded(c, n) = f[Len(program[n].load)]
  BY <1>3 DEF LoadRun
<1> DEFINE L == Len(program[n].load)
           Good(i) == Sound(f[i], d, l, mem) /\ Kept(c, f[i], retired, dispatched)
           S == {i \in Nat : i <= L => Good(i)}
<1>5. 0 \in S
  BY <1>4 DEF Kept
<1>6. ASSUME NEW i \in Nat, i \in S PROVE i + 1 \in S
  <2> SUFFICES ASSUME i + 1 <= L PROVE Good(i + 1)
    OBVIOUS
  <2>1. Good(i)
    BY <1>2, <1>6
  <2>2. i + 1 \in 1 .. L /\ (i + 1) - 1 = i
    BY <1>2
  <2>3. f[i + 1] = AddLoad(f[i], n, i + 1)
    BY <1>4, <2>2
  <2> HIDE DEF S
  <2> QED
    BY <2>1, <2>2, <2>3, AddLoadSound, KeptTransitive
<1>7. L \in S
  <2> HIDE DEF S
  <2> QED
    BY <1>2, <1>5, <1>6, SetInduction
<1> QED
  BY <1>2, <1>4, <1>7

LEMMA StoresAddedSound ==
    ASSUME Order, NEW c, NEW d, NEW l, NEW mem, Sound(c, d, l, mem), NEW n \in ROB
    PROVE  Sound(StoresAdded(c, n), d, l, mem) /\ Kept(c, StoresAdded(c, n), retired, dispatched)
<1>1. n \in Ids /\ n \in 1 .. Len(program)
  BY RobInTrace
<1>2. Len(program[n].store) \in Nat
  BY <1>1, InstructionInTrace
<1>3. PICK f : StoreRun(c, n, f)
  BY <1>2, StoresAddedSteps
<1>4. /\ f[0] = c
      /\ \A k \in 1 .. Len(program[n].store) : f[k] = AddStore(f[k - 1], n, k)
      /\ StoresAdded(c, n) = f[Len(program[n].store)]
  BY <1>3 DEF StoreRun
<1> DEFINE L == Len(program[n].store)
           Good(i) == Sound(f[i], d, l, mem) /\ Kept(c, f[i], retired, dispatched)
           S == {i \in Nat : i <= L => Good(i)}
<1>5. 0 \in S
  BY <1>4 DEF Kept
<1>6. ASSUME NEW i \in Nat, i \in S PROVE i + 1 \in S
  <2> SUFFICES ASSUME i + 1 <= L PROVE Good(i + 1)
    OBVIOUS
  <2>1. Good(i)
    BY <1>2, <1>6
  <2>2. i + 1 \in 1 .. L /\ (i + 1) - 1 = i
    BY <1>2
  <2>3. f[i + 1] = AddStore(f[i], n, i + 1)
    BY <1>4, <2>2
  <2> HIDE DEF S
  <2> QED
    BY <2>1, <2>2, <2>3, AddStoreSound, KeptTransitive
<1>7. L \in S
  <2> HIDE DEF S
  <2> QED
    BY <1>2, <1>5, <1>6, SetInduction
<1> QED
  BY <1>2, <1>4, <1>7

LEMMA MemoryScheduledValues ==
    ASSUME Order, NEW c, NEW d, NEW l, NEW mem, Sound(c, d, l, mem), NEW n \in ROB, IsMemory(n)
    PROVE  LET z == MemoryScheduled(c, n)
           IN  Values(program, z, retired, dispatched) /\ Kept(c, z, retired, dispatched)
<1> DEFINE e == StoresAdded(LoadsAdded(c, n), n)
           z == MemoryScheduled(c, n)
<1>1. Sound(e, d, l, mem) /\ Kept(c, e, retired, dispatched)
  BY LoadsAddedSound, StoresAddedSound, KeptTransitive
<1>2. /\ SameQueues(e, z, retired, dispatched)
      /\ z.data = e.data /\ z.inflight_reg = e.inflight_reg /\ z.inflight_mem = e.inflight_mem
      /\ \A m \in ROB : m # n => z.rob[m] = e.rob[m]
      /\ \A m \in ROB : z.rob[m].executed = COMPLETED <=> e.rob[m].executed = COMPLETED
  BY <1>1, MemoryScheduledTail DEF Sound
<1>3. Bounds(program, retired, dispatched)
  BY DEF Order, Bounds
<1> HIDE DEF e, z
<1>4. ValuesSame(e, z, retired, dispatched)
  BY <1>2 DEF SameQueues, ValuesSame
<1>5. TallySame(program, e, z, retired, dispatched)
  <2>1. ASSUME NEW m \in retired + 1 .. dispatched
        PROVE  z.rob[m].executed = e.rob[m].executed \/ HasMemory(program, m)
    BY <1>2 DEF IsMemory, HasMemory, ROB
  <2>2. \A m \in retired + 1 .. dispatched :
           /\ z.rob[m].num_mem_ops = e.rob[m].num_mem_ops
           /\ z.rob[m].executed = COMPLETED <=> e.rob[m].executed = COMPLETED
    BY <1>2 DEF SameQueues, ROB
  <2> QED
    BY <1>2, <2>1, <2>2 DEF TallySame
<1>6. Values(program, z, retired, dispatched) /\ Kept(e, z, retired, dispatched)
  BY <1>1, <1>3, <1>4, <1>5, SameTally, SameValues DEF Sound, QueuesHeld
<1> QED
  BY <1>1, <1>6, KeptTransitive DEF z

-----------------------------------------------------------------------------
(* execute_store and handle_memory_return. *)

\* The count of n goes down by one, and to the instructions in flight when it is 0.
LEMMA StoreDoneTally ==
    ASSUME NEW P, NEW c, NEW b, NEW lo, NEW hi, NEW n, NEW k, NEW slot,
           StoreExecutes(P, c, b, lo, hi, n, k, slot), Values(P, c, lo, hi)
    PROVE  Tally(P, b, lo, hi)
<1> USE DEF StoreExecutes
<1> DEFINE over == [m \in Ids |-> OneIf(m = n)]
<1>1. lo + 1 .. hi \subseteq Ids /\ n \in Ids /\ StoreDone(c, b, n, slot)
  BY InBounds
<1>2. over \in [Ids -> Nat] /\ over[n] = 1 /\ \A m \in Ids : over[m] > 0 <=> m = n
  BY <1>1 DEF OneIf
<1>3. c.rob[n].executed # COMPLETED /\ HasMemory(P, n) /\ k \in Unexecuted(P, c, n)
  <2>1. InstrTyped(P, c, n, hi) /\ Counted(P, c, n)
    BY DEF Queues
  <2>2. k \in c.rob[n].destination_added /\ k \in c.rob[n].destination_memory /\ k \in 1 .. Len(P[n].store)
    BY <2>1 DEF LiveStores, InstrTyped
  <2>3. ~ Executed(c, n, k)
    BY DEF Executed
  <2>4. c.rob[n].executed # COMPLETED
    BY <2>1, <2>2, <2>3 DEF Counted
  <2> QED
    BY <2>2, <2>3, <2>4 DEF HasMemory, Unexecuted
<1>4. c.rob[n].num_mem_ops \in Nat /\ 1 <= c.rob[n].num_mem_ops
  <2>1. /\ c.rob[n].num_mem_ops \in Nat /\ Cardinality(EntriesOf(c, n)) \in Nat
        /\ Cardinality(Unexecuted(P, c, n)) \in Nat /\ IsFiniteSet(Unexecuted(P, c, n))
        /\ Cardinality(EntriesOf(c, n)) + Cardinality(Unexecuted(P, c, n)) <= c.rob[n].num_mem_ops
    BY <1>3, OperationsLeft
  <2>2. Cardinality(Unexecuted(P, c, n)) # 0
    BY <1>3, <2>1, FS_EmptySet
  <2> QED
    BY <2>1, <2>2
<1>5. {m \in Ids : over[m] > 0 /\ c.rob[m].num_mem_ops = over[m]} = {m \in Ids : m = n /\ c.rob[m].num_mem_ops = 1}
  BY <1>2
<1>6. ASSUME NEW m \in lo + 1 .. hi
      PROVE  /\ b.rob[m].executed = c.rob[m].executed /\ b.rob[m].source_added = c.rob[m].source_added
             /\ b.rob[m].num_mem_ops = c.rob[m].num_mem_ops - over[m]
  BY <1>1 DEF StoreDone, InstrFields
<1>7. /\ b.inflight_reg = c.inflight_reg
      /\ b.inflight_mem = c.inflight_mem + Cardinality({m \in Ids : over[m] > 0 /\ c.rob[m].num_mem_ops = over[m]})
      /\ b.LQ = c.LQ /\ b.data = c.data
  BY <1>1, <1>5 DEF StoreDone
<1> HIDE DEF over
<1>8. Over(P, c, b, lo, hi, over)
  BY <1>2, <1>3, <1>4, <1>6, <1>7 DEF Over
<1>9. InFlight(P, c, lo, hi) /\ \A m \in lo + 1 .. hi : AnsweredOnce(P, c, m)
  BY DEF Values, Tally
<1>10. InFlight(P, b, lo, hi)
  BY <1>8, <1>9, InFlightOver
<1>11. ASSUME NEW m \in lo + 1 .. hi PROVE AnsweredOnce(P, b, m)
  BY <1>6, <1>7, <1>9, AnsweredOnceSame
<1> QED
  BY <1>10, <1>11 DEF Tally

LEMMA ExecuteStoreValues ==
    ASSUME LsqStanding, ValueInv, ExecuteStore
    PROVE  Values(program, core', retired, dispatched) /\ Kept(core, core', retired, dispatched)
<1> DEFINE P == program
           slot == Head(core.RTS1)
           z == core'
<1>1. /\ Bounds(P, retired, dispatched) /\ Queues(P, core, retired, dispatched)
      /\ Values(P, core, retired, dispatched) /\ retired + 1 .. dispatched \subseteq Ids /\ 0 \notin retired + 1 .. dispatched
  BY InBounds DEF LsqStanding, LsqInv, QueuesHeld, ValueInv
<1>2. PICK b, n, k, S : StoreForwards(core, b, z, n, k, slot, S)
  BY ExecuteStoreForwards
<1> DEFINE v == [x \in Address |-> n]
<1> HIDE DEF slot, z, v
<1>3. /\ StoreExecutes(P, core, b, retired, dispatched, n, k, slot)
      /\ S \in SUBSET LoadSlots /\ \A s \in S : core.LQ[s] # NoEntry /\ core.LQ[s].producer = n
      /\ LoadsOver(b, z, S, v)
  BY <1>2, Zenon DEF StoreForwards, v
<1>4. n \in retired + 1 .. dispatched /\ StoreDone(core, b, n, slot)
  BY <1>3 DEF StoreExecutes
<1>5. Queues(P, b, retired, dispatched)
  BY <1>3, StoreDoneKeeps DEF ButForwarded
<1>6. ValuesSame(core, b, retired, dispatched)
  BY <1>1, <1>4 DEF StoreDone, ValuesSame, InstrFields
<1>7. Values(P, b, retired, dispatched) /\ Kept(core, b, retired, dispatched)
  <2>1. Tally(P, b, retired, dispatched)
    BY <1>1, <1>3, StoreDoneTally
  <2> QED
    BY <1>1, <1>6, <2>1, SameValues
<1>8. RightFor(P, b, S, v)
  <2> SUFFICES ASSUME NEW s \in S
               PROVE  b.LQ[s] # NoEntry /\ IsLast(P, b.LQ[s].instr, b.LQ[s].address, v[b.LQ[s].address])
    BY DEF RightFor
  <2>1. b.LQ = core.LQ
    BY <1>4 DEF StoreDone
  <2>2. /\ s \in LoadSlots /\ core.LQ[s] # NoEntry /\ core.LQ[s].producer = n /\ n # 0
        /\ Sourced(P, core, retired, s)
    BY <1>1, <1>3, <1>4 DEF Values
  <2>3. core.LQ[s].address \in Address
    BY <1>1, <2>2, EntryLoad
  <2>4. v[core.LQ[s].address] = n
    BY <2>3 DEF v
  <2> QED
    BY <2>1, <2>2, <2>4 DEF Sourced
<1>9. Values(P, z, retired, dispatched) /\ Kept(b, z, retired, dispatched)
  BY <1>1, <1>3, <1>5, <1>7, <1>8, LoadsOverValues
<1> QED
  BY <1>7, <1>9, KeptTransitive DEF z

\* When no store before n to a is left to be written, the memory holds what n must read.
LEMMA MemoryIsRight ==
    ASSUME NEW P, NEW c, NEW lo, NEW hi, Bounds(P, lo, hi), NEW mem, InOrderWrites(P, c, lo, hi, mem),
           NEW n \in lo + 1 .. hi, NEW a \in Address, NonePending(P, c, lo, n, a),
           c.rob[n].destination_memory = 1 .. Len(P[n].store)
    PROVE  IsLast(P, n, a, mem[a])
<1>1. lo \in Nat /\ hi \in Nat /\ n \in Nat /\ lo < hi /\ lo + 1 <= n
  BY DEF Bounds
<1>2. ASSUME NEW l \in lo + 2 .. n - 1 PROVE ~ StoresTo(P, l, a)
  <2>1. l \in lo + 2 .. hi /\ l \in lo + 1 .. n - 1
    BY <1>1
  <2>2. c.rob[l].destination_memory = 1 .. Len(P[l].store)
    BY <2>1 DEF InOrderWrites
  <2> QED
    BY <2>1, <2>2 DEF NonePending, StoresTo
<1>3. CASE Written(P, c, lo + 1, a)
  <2>1. mem[a] = lo + 1
    BY <1>1, <1>3 DEF InOrderWrites
  <2>2. n # lo + 1
    BY <1>3 DEF Written
  <2>3. StoresTo(P, lo + 1, a)
    BY <1>3 DEF Written, StoresTo
  <2>4. ASSUME NEW l \in 1 .. n - 1, StoresTo(P, l, a) PROVE l <= lo + 1
    BY <1>1, <1>2, <2>4
  <2> QED
    BY <1>1, <2>1, <2>2, <2>3, <2>4 DEF IsLast
<1>4. CASE ~ Written(P, c, lo + 1, a)
  <2>1. IsLast(P, lo + 1, a, mem[a])
    BY <1>4 DEF InOrderWrites
  <2>2. lo + 1 # n => ~ StoresTo(P, lo + 1, a)
    <3> SUFFICES ASSUME lo + 1 # n, NEW k \in 1 .. Len(P[lo + 1].store), P[lo + 1].store[k] = a PROVE FALSE
      BY DEF StoresTo
    <3>1. k \in c.rob[lo + 1].destination_memory
      BY <1>4 DEF Written
    <3>2. lo + 1 \in lo + 1 .. n - 1
      BY <1>1
    <3> QED
      BY <3>1, <3>2 DEF NonePending
  <2>3. ASSUME NEW l \in 1 .. n - 1, StoresTo(P, l, a) PROVE l \in 1 .. (lo + 1) - 1
    BY <1>1, <1>2, <2>2, <2>3
  <2>4. mem[a] \in 0 .. n - 1
    BY <1>1, <2>1 DEF IsLast
  <2> QED
    BY <2>1, <2>3, <2>4 DEF IsLast
<1> QED
  BY <1>3, <1>4

LEMMA DataReturnedValues ==
    ASSUME LsqStanding, ValueInv, DataReturned
    PROVE  Values(program, core', retired, dispatched) /\ Kept(core, core', retired, dispatched)
<1> DEFINE P == program
           z == core'
<1>1. /\ Bounds(P, retired, dispatched) /\ Queues(P, core, retired, dispatched) /\ Shape(core)
      /\ Values(P, core, retired, dispatched) /\ InOrderWrites(P, core, retired, dispatched, memory)
  BY DEF LsqStanding, LsqInv, QueuesHeld, ValueInv
<1>2. PICK slot \in l1d : z = Loaded(core, {slot}, memory)
  BY DEF DataReturned
<1> DEFINE S == {slot}
           n == core.LQ[slot].instr
           a == core.LQ[slot].address
<1> HIDE DEF z
<1>3. slot \in LoadSlots /\ core.LQ[slot] # NoEntry /\ core.LQ[slot].producer = 0
  BY AwaitedLoad
<1>4. LoadsOver(core, z, S, memory)
  BY <1>1, <1>2, <1>3, LoadedFields
<1>5. n \in retired + 1 .. dispatched /\ a \in Address
  BY <1>1, <1>3, EntryLoad
<1>6. NonePending(P, core, retired, n, a)
  BY <1>1, <1>3 DEF Values, Sourced
<1>7. core.rob[n].destination_memory = 1 .. Len(P[n].store)
  <2>1. slot \in EntriesOf(core, n) /\ Counted(P, core, n)
    BY <1>1, <1>3, <1>5 DEF EntriesOf, Queues
  <2> HIDE DEF n
  <2> QED
    BY <2>1 DEF Counted
<1>8. IsLast(P, n, a, memory[a])
  <2> HIDE DEF n, a
  <2> QED
    BY <1>1, <1>5, <1>6, <1>7, MemoryIsRight
<1>9. RightFor(P, core, S, memory)
  BY <1>3, <1>8 DEF RightFor
<1>10. S \in SUBSET LoadSlots
  BY <1>3
<1> HIDE DEF S
<1> QED
  BY <1>1, <1>4, <1>9, <1>10, LoadsOverValues DEF z

-----------------------------------------------------------------------------
(* retire_rob. *)

\* What the L1D has not accepted of n's stores is a final part of them.
LEMMA RefusedIsFinal ==
    ASSUME NEW L \in Nat, NEW w \in 0 .. L, NEW R \in SUBSET (w + 1 .. L), R # {},
           \A k \in (w + 1 .. L) \ R, i \in R : k < i
    PROVE  \E v \in w .. L : R = v + 1 .. L
<1>1. R \in SUBSET Nat
  OBVIOUS
<1>2. PICK r \in R : \A i \in R : r <= i
  BY <1>1, LeastNatural
<1>3. r - 1 \in w .. L /\ (r - 1) + 1 = r
  BY <1>2
<1>4. \A k \in r .. L : k \in R
  <2> SUFFICES ASSUME NEW k \in r .. L, k \notin R PROVE FALSE
    OBVIOUS
  <2>1. k \in (w + 1 .. L) \ R
    BY <1>2
  <2> QED
    BY <1>2, <2>1
<1>5. R = r .. L
  <2>1. \A i \in R : i \in r .. L
    BY <1>2
  <2> QED
    BY <1>4, <2>1
<1> QED
  BY <1>3, <1>5

LEMMA RetireValues ==
    ASSUME LsqStanding, ValueInv, NEW n, NEW refused, RetiresFirst(n, refused)
    PROVE  Values(program, core', retired', dispatched)
<1> DEFINE P == program
           c == core
           z == core'
           lo == retired
           hi == dispatched
           low == retired'
<1>1. /\ Bounds(P, lo, hi) /\ Queues(P, c, lo, hi) /\ Values(P, c, lo, hi)
      /\ lo \in Nat /\ hi \in Nat /\ lo + 1 .. hi \subseteq Ids
  BY InBounds DEF LsqStanding, LsqInv, QueuesHeld, ValueInv, Bounds
<1>2. /\ n = lo + 1 /\ refused \subseteq c.rob[n].destination_memory
      /\ Accepted(c, z, n, lo, hi, refused) /\ low = IF refused = {} THEN n ELSE lo
  BY DEF RetiresFirst
<1> HIDE DEF c, z, lo, hi, low
<1>3. /\ z.LQ = c.LQ /\ z.data = c.data
      /\ \A m \in lo + 1 .. hi : m # n => z.rob[m] = c.rob[m]
      /\ refused # {} => /\ z.rob[n].destination_memory = refused
                         /\ z.rob[n].source_added = c.rob[n].source_added
                         /\ z.rob[n].executed = c.rob[n].executed
      /\ z.inflight_reg = c.inflight_reg /\ z.inflight_mem = c.inflight_mem
  BY <1>2 DEF Accepted, InstrFields
<1>4. \A m \in low + 1 .. hi : /\ m \in lo + 1 .. hi
                               /\ z.rob[m].destination_memory \subseteq c.rob[m].destination_memory
                               /\ z.rob[m].source_added = c.rob[m].source_added
  <2>1. CASE refused = {}
    <3>1. \A m \in low + 1 .. hi : m \in lo + 1 .. hi /\ m # n
      BY <1>1, <1>2, <2>1
    <3> QED
      BY <1>3, <3>1
  <2>2. CASE refused # {}
    BY <1>2, <1>3, <2>2
  <2> QED
    BY <2>1, <2>2
<1>5. ASSUME NEW s \in LoadSlots PROVE Sourced(P, z, low, s)
  <2>1. Sourced(P, c, lo, s) /\ z.LQ[s] = c.LQ[s]
    BY <1>1, <1>3 DEF Values
  <2>2. CASE c.LQ[s] = NoEntry
    BY <2>1, <2>2 DEF Sourced
  <2>3. CASE c.LQ[s] # NoEntry
    <3> DEFINE i == c.LQ[s].instr
               a == c.LQ[s].address
    <3>1. i \in lo + 1 .. hi
      BY <1>1, <2>3, EntryLoad
    <3> HIDE DEF i, a
    <3>2. \A m \in low + 1 .. i - 1 : m \in lo + 1 .. i - 1 /\ m \in low + 1 .. hi
      BY <1>1, <1>2, <3>1
    <3>3. NonePending(P, c, lo, i, a) => NonePending(P, z, low, i, a)
      BY <1>4, <3>2 DEF NonePending
    <3> QED
      BY <2>1, <2>3, <3>3 DEF Sourced, i, a
  <2> QED
    BY <2>2, <2>3
<1>6. ASSUME NEW m \in low + 1 .. hi PROVE Correct(P, z, m) /\ Answered(P, z, m)
  <2>1. /\ Correct(P, c, m) /\ Answered(P, c, m)
        /\ z.rob[m].source_added = c.rob[m].source_added
    BY <1>1, <1>4 DEF Values
  <2>2. EntriesOf(z, m) = EntriesOf(c, m)
    BY <1>3 DEF EntriesOf
  <2>3. Answered(P, z, m)
    <3> SUFFICES ASSUME NEW j \in z.rob[m].source_added
                 PROVE  \/ \E s \in EntriesOf(z, m) : z.LQ[s].address = P[m].load[j]
                        \/ \E v : <<P[m].load[j], v>> \in z.data[m]
      BY DEF Answered
    <3>1. \/ \E s \in EntriesOf(c, m) : c.LQ[s].address = P[m].load[j]
          \/ \E v : <<P[m].load[j], v>> \in c.data[m]
      BY <2>1 DEF Answered
    <3> QED
      BY <1>3, <2>2, <3>1
  <2>4. Correct(P, z, m)
    BY <1>3, <2>1, Zenon DEF Correct
  <2> QED
    BY <2>3, <2>4
<1>7. \A m \in Ids : m > hi => z.data[m] = {}
  BY <1>1, <1>3 DEF Values
<1>8. Tally(P, z, low, hi)
  <2>1. c.rob[n].executed = COMPLETED
    BY DEF RetiresFirst, c
  <2>2. \A m : m \in low + 1 .. hi <=> m \in lo + 1 .. hi /\ (refused = {} => m # n)
    BY <1>1, <1>2
  <2>3. ASSUME NEW m
        PROVE  /\ m \in RegisterOnes(P, z, low, hi) <=> m \in RegisterOnes(P, c, lo, hi)
               /\ m \in MemoryOnes(P, z, low, hi) <=> m \in MemoryOnes(P, c, lo, hi)
    <3>1. CASE m = n
      BY <1>3, <2>1, <2>2, <3>1 DEF RegisterOnes, MemoryOnes, INFLIGHT, COMPLETED
    <3>2. CASE m # n
      BY <1>3, <2>2, <3>2 DEF RegisterOnes, MemoryOnes
    <3> QED
      BY <3>1, <3>2
  <2>4. RegisterOnes(P, z, low, hi) = RegisterOnes(P, c, lo, hi) /\ MemoryOnes(P, z, low, hi) = MemoryOnes(P, c, lo, hi)
    BY <2>3
  <2>5. InFlight(P, c, lo, hi) /\ \A m \in lo + 1 .. hi : AnsweredOnce(P, c, m)
    BY <1>1 DEF Values, Tally
  <2>6. ASSUME NEW m \in low + 1 .. hi PROVE AnsweredOnce(P, z, m)
    BY <1>3, <1>4, <2>5, AnsweredOnceSame
  <2> QED
    BY <1>3, <2>4, <2>5, <2>6 DEF Tally, InFlight
<1>9. Values(P, z, low, hi)
  BY <1>5, <1>6, <1>7, <1>8 DEF Values
<1> QED
  BY <1>9 DEF z, low, hi

LEMMA RetireWrites ==
    ASSUME LsqStanding, ValueInv, NEW n, NEW refused, RetiresFirst(n, refused)
    PROVE  InOrderWrites(program, core', retired', dispatched, memory')
<1> DEFINE P == program
           c == core
           z == core'
           lo == retired
           hi == dispatched
           low == retired'
           mem == memory
           new == memory'
           L == Len(P[n].store)
           accepted == c.rob[n].destination_memory \ refused
           Takes(a) == \E k \in accepted : P[n].store[k] = a
<1>1. /\ Bounds(P, lo, hi) /\ InOrderWrites(P, c, lo, hi, mem)
      /\ lo \in Nat /\ hi \in Nat /\ lo + 1 .. hi \subseteq 1 .. Len(P)
  BY InBounds DEF LsqStanding, ValueInv, Bounds
<1>2. /\ n = lo + 1 /\ lo < hi /\ refused \subseteq c.rob[n].destination_memory
      /\ Accepted(c, z, n, lo, hi, refused) /\ low = IF refused = {} THEN n ELSE lo
      /\ \A k \in accepted, i \in refused : k < i
      /\ \A a \in Address : new[a] = IF Takes(a) THEN n ELSE mem[a]
  BY DEF RetiresFirst
<1> SUFFICES InOrderWrites(P, z, low, hi, new)
  OBVIOUS
<1> HIDE DEF c, z, lo, hi, low, mem, new
<1>3. /\ \A m \in lo + 1 .. hi : m # n => z.rob[m] = c.rob[m]
      /\ refused # {} => z.rob[n].destination_memory = refused
  BY <1>2 DEF Accepted
<1>4. n \in 1 .. Len(P) /\ L \in Nat /\ n \in Nat
  <2>1. n \in lo + 1 .. hi
    BY <1>1, <1>2
  <2> QED
    BY <1>1, <2>1, InBounds
<1>5. PICK w \in 0 .. L : c.rob[n].destination_memory = w + 1 .. L
  BY <1>1, <1>2 DEF InOrderWrites
<1>6. /\ refused \subseteq 1 .. L /\ accepted \subseteq 1 .. L
      /\ c.rob[n].destination_memory \subseteq 1 .. L
  BY <1>2, <1>4, <1>5
<1>7. \A m \in lo + 2 .. hi : z.rob[m].destination_memory = 1 .. Len(P[m].store)
  <2>1. \A m \in lo + 2 .. hi : m \in lo + 1 .. hi /\ m # n
    BY <1>1, <1>2
  <2> QED
    BY <1>1, <1>3, <2>1 DEF InOrderWrites
<1>8. CASE refused # {}
  <2>1. low = lo /\ z.rob[n].destination_memory = refused
    BY <1>2, <1>3, <1>8
  <2>2. \E v \in 0 .. L : refused = v + 1 .. L
    <3>0. /\ refused \in SUBSET (w + 1 .. L)
          /\ \A k \in (w + 1 .. L) \ refused, i \in refused : k < i
      BY <1>2, <1>5
    <3> HIDE DEF L
    <3>1. PICK v \in w .. L : refused = v + 1 .. L
      BY <1>4, <1>8, <3>0, RefusedIsFinal
    <3> QED
      BY <1>4, <3>1
  <2>3. ASSUME NEW a \in Address
        PROVE  IF lo < hi /\ Written(P, z, n, a) THEN new[a] = n ELSE IsLast(P, n, a, new[a])
    <3>1. Written(P, z, n, a) <=> Written(P, c, n, a) \/ Takes(a)
      <4>1. \A k \in 1 .. L : k \notin refused <=> k \notin c.rob[n].destination_memory \/ k \in accepted
        BY <1>2
      <4>2. accepted \subseteq 1 .. L
        BY <1>6
      <4> HIDE DEF accepted
      <4> QED
        BY <2>1, <4>1, <4>2 DEF Written
    <3>2. Written(P, c, n, a) => mem[a] = n
      BY <1>1, <1>2 DEF InOrderWrites
    <3>3. ~ Written(P, c, n, a) => IsLast(P, n, a, mem[a])
      BY <1>1, <1>2 DEF InOrderWrites
    <3> HIDE DEF Takes
    <3> QED
      BY <1>2, <3>1, <3>2, <3>3
  <2> HIDE DEF L, Takes, accepted
  <2> QED
    BY <1>2, <1>7, <2>1, <2>2, <2>3 DEF InOrderWrites, L
<1>9. CASE refused = {}
  <2>1. low = n /\ accepted = c.rob[n].destination_memory
    BY <1>2, <1>9
  <2>2. \A m \in n + 2 .. hi : z.rob[m].destination_memory = 1 .. Len(P[m].store)
    BY <1>1, <1>2, <1>7
  <2>3. n < hi => z.rob[n + 1].destination_memory = 1 .. Len(P[n + 1].store)
    BY <1>1, <1>2, <1>7
  <2>4. n < hi => \E v \in 0 .. Len(P[n + 1].store) : z.rob[n + 1].destination_memory = v + 1 .. Len(P[n + 1].store)
    <3>1. n < hi => Len(P[n + 1].store) \in Nat
      <4>1. n < hi => n + 1 \in lo + 1 .. hi
        BY <1>1, <1>2
      <4> QED
        BY <1>1, <4>1, InBounds
    <3>2. n < hi => 0 \in 0 .. Len(P[n + 1].store) /\ 0 + 1 = 1
      BY <3>1
    <3> QED
      BY <2>3, <3>2
  <2>5. ASSUME NEW a \in Address
        PROVE  IF n < hi /\ Written(P, z, n + 1, a) THEN new[a] = n + 1 ELSE IsLast(P, n + 1, a, new[a])
    <3>1. n < hi => ~ Written(P, z, n + 1, a)
      BY <2>3 DEF Written
    <3>2. IsLast(P, n + 1, a, new[a])
      <4>1. CASE StoresTo(P, n, a)
        <5>1. PICK k \in 1 .. L : P[n].store[k] = a
          BY <4>1 DEF StoresTo
        <5>2. new[a] = n
          <6>1. k \notin accepted => Written(P, c, n, a)
            BY <2>1, <5>1 DEF Written
          <6>2. Written(P, c, n, a) => mem[a] = n
            BY <1>1, <1>2 DEF InOrderWrites
          <6>3. k \in accepted => Takes(a)
            BY <5>1
          <6> HIDE DEF Takes, accepted
          <6> QED
            BY <1>2, <6>1, <6>2, <6>3
        <5> QED
          BY <1>4, <4>1, <5>2 DEF IsLast
      <4>2. CASE ~ StoresTo(P, n, a)
        <5>1. ~ Written(P, c, n, a) /\ ~ Takes(a)
          BY <1>6, <4>2 DEF Written, StoresTo
        <5>2. IsLast(P, n, a, mem[a])
          BY <1>1, <1>2, <5>1 DEF InOrderWrites
        <5>3. new[a] = mem[a]
          BY <1>2, <5>1
        <5>4. \A l \in 1 .. (n + 1) - 1 : StoresTo(P, l, a) => l \in 1 .. n - 1
          BY <1>4, <4>2
        <5> QED
          BY <1>4, <5>2, <5>3, <5>4 DEF IsLast
      <4> QED
        BY <4>1, <4>2
    <3> QED
      BY <3>1, <3>2
  <2> QED
    BY <2>1, <2>2, <2>4, <2>5 DEF InOrderWrites
<1> QED
  BY <1>8, <1>9

-----------------------------------------------------------------------------
(* dispatch_instruction and the other stages. *)

LEMMA DispatchValues ==
    ASSUME LsqStanding, ValueInv, Dispatch
    PROVE  /\ Values(program, core', retired, dispatched')
           /\ InOrderWrites(program, core', retired, dispatched', memory)
<1> DEFINE P == program
           c == core
           z == core'
           lo == retired
           hi == dispatched
           x == dispatched + 1
<1>1. /\ Bounds(P, lo, hi) /\ Queues(P, c, lo, hi) /\ Values(P, c, lo, hi)
      /\ InOrderWrites(P, c, lo, hi, memory)
      /\ lo \in Nat /\ hi \in Nat /\ lo <= hi /\ lo + 1 .. hi \subseteq Ids /\ Ids \subseteq Nat
  BY InBounds DEF LsqStanding, LsqInv, QueuesHeld, ValueInv, Bounds, Ids
<1>2. Dispatched(P, c, z, lo, hi, x) /\ dispatched' = x /\ x <= Len(P)
  BY DispatchEnters
<1>3. /\ z.LQ = c.LQ /\ z.data = c.data /\ \A m \in lo + 1 .. hi : z.rob[m] = c.rob[m]
      /\ z.rob[x].source_added = {} /\ z.rob[x].destination_memory = 1 .. Len(P[x].store)
      /\ z.rob[x].executed = None /\ z.rob[x].num_mem_ops = Len(P[x].load) + Len(P[x].store)
      /\ z.inflight_reg = c.inflight_reg /\ z.inflight_mem = c.inflight_mem
  BY <1>2 DEF Dispatched
<1> SUFFICES Values(P, z, lo, x) /\ InOrderWrites(P, z, lo, x, memory)
  BY <1>2
<1> HIDE DEF c, z, lo
<1>4. /\ x \in Ids /\ x > hi /\ Len(P[x].store) \in Nat /\ x \in 1 .. Len(P)
      /\ \A m : m \in lo + 1 .. x <=> m \in lo + 1 .. hi \/ m = x
  <2>1. Len(P) \in Nat /\ MaxLength \in Nat /\ Len(P) <= MaxLength
    BY <1>1, SizeAssumption DEF Bounds
  <2>2. x \in 1 .. Len(P)
    BY <1>1, <1>2, <2>1
  <2>3. Len(P[x].store) \in Nat
    BY <1>1, <2>2, InBounds
  <2> QED
    BY <1>1, <2>1, <2>2, <2>3 DEF Ids
<1> HIDE DEF hi, x
<1>5. ASSUME NEW s \in LoadSlots PROVE Sourced(P, z, lo, s)
  <2>1. Sourced(P, c, lo, s) /\ z.LQ[s] = c.LQ[s]
    BY <1>1, <1>3 DEF Values
  <2>2. CASE c.LQ[s] = NoEntry
    BY <2>1, <2>2 DEF Sourced
  <2>3. CASE c.LQ[s] # NoEntry
    <3>1. c.LQ[s].instr \in lo + 1 .. hi
      BY <1>1, <2>3, EntryLoad
    <3>2. NonePending(P, c, lo, c.LQ[s].instr, c.LQ[s].address) => NonePending(P, z, lo, c.LQ[s].instr, c.LQ[s].address)
      <4>1. \A m \in lo + 1 .. hi : z.rob[m].destination_memory = c.rob[m].destination_memory
        BY <1>3
      <4> QED
        BY <1>1, <3>1, <4>1, NonePendingSame
    <3> QED
      BY <2>1, <2>3, <3>2 DEF Sourced
  <2> QED
    BY <2>2, <2>3
<1>6. ASSUME NEW m \in lo + 1 .. x PROVE Correct(P, z, m) /\ Answered(P, z, m)
  <2>1. CASE m \in lo + 1 .. hi
    <3>1. Correct(P, c, m) /\ Answered(P, c, m) /\ z.rob[m] = c.rob[m]
      BY <1>1, <1>3, <2>1 DEF Values
    <3>2. EntriesOf(z, m) = EntriesOf(c, m)
      BY <1>3 DEF EntriesOf
    <3>3. Answered(P, z, m)
      <4> SUFFICES ASSUME NEW j \in z.rob[m].source_added
                   PROVE  \/ \E s \in EntriesOf(z, m) : z.LQ[s].address = P[m].load[j]
                          \/ \E v : <<P[m].load[j], v>> \in z.data[m]
        BY DEF Answered
      <4>1. \/ \E s \in EntriesOf(c, m) : c.LQ[s].address = P[m].load[j]
            \/ \E v : <<P[m].load[j], v>> \in c.data[m]
        BY <3>1 DEF Answered
      <4> QED
        BY <1>3, <3>2, <4>1
    <3>4. Correct(P, z, m)
      BY <1>3, <3>1, Zenon DEF Correct
    <3> QED
      BY <3>3, <3>4
  <2>2. CASE m = x
    <3>1. z.data[x] = {} /\ z.rob[x].source_added = {}
      BY <1>1, <1>3, <1>4 DEF Values
    <3> QED
      BY <2>2, <3>1 DEF Correct, Answered
  <2> QED
    BY <1>4, <2>1, <2>2
<1>7. \A m \in Ids : m > x => z.data[m] = {}
  <2> SUFFICES ASSUME NEW m \in Ids, m > x PROVE z.data[m] = {}
    OBVIOUS
  <2>1. m > hi
    BY <1>1, <1>4
  <2> QED
    BY <1>1, <1>3, <2>1 DEF Values
<1>11. Tally(P, z, lo, x)
  <2>1. InFlight(P, c, lo, hi) /\ \A m \in lo + 1 .. hi : AnsweredOnce(P, c, m)
    BY <1>1 DEF Values, Tally
  <2>2. x \notin lo + 1 .. hi /\ (HasMemory(P, x) => z.rob[x].num_mem_ops # 0)
    <3>1. P[x].load \in Seq(Address) /\ P[x].store \in Seq(Address)
      BY <1>1, <1>4, InBounds
    <3>2. \A q \in Seq(Address) : Len(q) \in Nat /\ (q # <<>> => Len(q) # 0)
      OBVIOUS
    <3>3. HasMemory(P, x) => Len(P[x].load) + Len(P[x].store) # 0
      <4>1. /\ Len(P[x].load) \in Nat /\ (P[x].load # <<>> => Len(P[x].load) # 0)
            /\ Len(P[x].store) \in Nat /\ (P[x].store # <<>> => Len(P[x].store) # 0)
        BY <3>1, <3>2, Zenon
      <4>2. \A a, b \in Nat : a # 0 \/ b # 0 => a + b # 0
        OBVIOUS
      <4>3. HasMemory(P, x) => Len(P[x].load) # 0 \/ Len(P[x].store) # 0
        BY <4>1, Zenon DEF HasMemory
      <4> QED
        BY <4>1, <4>2, <4>3, Zenon
    <3>4. lo \in Nat /\ hi \in Nat /\ x \in Nat /\ x > hi
      BY <1>1, <1>4
    <3>5. x \notin lo + 1 .. hi
      BY <3>4
    <3> QED
      BY <1>3, <3>3, <3>5
  <2>3. ASSUME NEW m
        PROVE  /\ m \in RegisterOnes(P, z, lo, x) <=> m \in RegisterOnes(P, c, lo, hi)
               /\ m \in MemoryOnes(P, z, lo, x) <=> m \in MemoryOnes(P, c, lo, hi)
    <3>1. CASE m = x
      <4>1. z.rob[x].executed # INFLIGHT
        BY <1>3 DEF INFLIGHT, None
      <4> QED
        BY <2>2, <3>1, <4>1 DEF RegisterOnes, MemoryOnes
    <3>2. CASE m # x
      BY <1>3, <1>4, <3>2 DEF RegisterOnes, MemoryOnes
    <3> QED
      BY <3>1, <3>2
  <2>4. RegisterOnes(P, z, lo, x) = RegisterOnes(P, c, lo, hi) /\ MemoryOnes(P, z, lo, x) = MemoryOnes(P, c, lo, hi)
    BY <2>3
  <2>5. ASSUME NEW m \in lo + 1 .. x PROVE AnsweredOnce(P, z, m)
    <3>1. CASE m \in lo + 1 .. hi
      BY <1>3, <2>1, <3>1, AnsweredOnceSame
    <3>2. CASE m = x
      <4>1. z.data[x] = {}
        BY <1>1, <1>3, <1>4 DEF Values
      <4> QED
        BY <3>2, <4>1 DEF AnsweredOnce
    <3> QED
      BY <1>4, <3>1, <3>2
  <2> QED
    BY <1>3, <2>1, <2>4, <2>5 DEF Tally, InFlight
<1>8. \A m \in lo + 2 .. x : z.rob[m].destination_memory = 1 .. Len(P[m].store)
  <2> SUFFICES ASSUME NEW m \in lo + 2 .. x PROVE z.rob[m].destination_memory = 1 .. Len(P[m].store)
    OBVIOUS
  <2>0. m \in lo + 1 .. x
    BY <1>1, <1>4 DEF Ids
  <2>1. m = x \/ (m \in lo + 1 .. hi /\ m \in lo + 2 .. hi)
    <3>1. m = x \/ m \in lo + 1 .. hi
      BY <1>4, <2>0
    <3> QED
      BY <1>1, <1>4, <3>1 DEF Ids
  <2> QED
    BY <1>1, <1>3, <2>1 DEF InOrderWrites
<1>9. CASE lo < hi
  <2>1. z.rob[lo + 1] = c.rob[lo + 1]
    BY <1>1, <1>3, <1>9
  <2>2. \A a : Written(P, z, lo + 1, a) <=> Written(P, c, lo + 1, a)
    BY <2>1 DEF Written
  <2>3. lo < x
    BY <1>1, <1>4 DEF Ids
  <2>4. InOrderWrites(P, z, lo, x, memory)
    BY <1>1, <1>8, <1>9, <2>1, <2>2, <2>3 DEF InOrderWrites
  <2> QED
    BY <1>5, <1>6, <1>7, <1>11, <2>4 DEF Values
<1>10. CASE lo = hi
  <2>1. x = lo + 1 /\ ~ lo < hi
    BY <1>1, <1>10 DEF x, hi
  <2>2. z.rob[lo + 1].destination_memory = 0 + 1 .. Len(P[lo + 1].store) /\ 0 \in 0 .. Len(P[lo + 1].store)
    BY <1>3, <1>4, <2>1
  <2>3. \A a : ~ Written(P, z, lo + 1, a)
    BY <1>3, <2>1 DEF Written
  <2>4. InOrderWrites(P, z, lo, x, memory)
    BY <1>1, <1>8, <2>1, <2>2, <2>3 DEF InOrderWrites
  <2> QED
    BY <1>5, <1>6, <1>7, <1>11, <2>4 DEF Values
<1> QED
  BY <1>1, <1>9, <1>10

\* A step that neither brings an instruction to the ROB nor writes.
Inside == \/ Fetch \/ Schedule \/ Execute \/ ScheduleMemory
          \/ TranslateStore \/ TranslateLoad \/ DataTranslated \/ ExecuteStore \/ ExecuteLoad \/ DataReturned
          \/ Complete \/ UNCHANGED vars

LEMMA RobOnlyTally ==
    ASSUME LsqStanding, ValueInv, RobOnly(core, core'),
           \/ CountsSame(core, core')
           \/ \E h : Issued(core, core', h)
           \/ \E x \in ROB : Finished(core, core', x) /\ core.rob[x].num_mem_ops = 0
    PROVE  Tally(program, core', retired, dispatched)
<1> DEFINE P == program
           c == core
           z == core'
           RC == RegisterOnes(P, c, retired, dispatched)
           RZ == RegisterOnes(P, z, retired, dispatched)
           MC == MemoryOnes(P, c, retired, dispatched)
           MZ == MemoryOnes(P, z, retired, dispatched)
<1>1. /\ ROB = retired + 1 .. dispatched /\ IsFiniteSet(ROB)
      /\ z.LQ = c.LQ /\ z.data = c.data
      /\ \A m \in ROB : z.rob[m].source_added = c.rob[m].source_added /\ z.rob[m].num_mem_ops = c.rob[m].num_mem_ops
      /\ \A m \in ROB : HasMemory(P, m) <=> IsMemory(m)
  BY RobInTrace DEF RobOnly, LsqStanding, HasMemory, IsMemory
<1>2. ASSUME NEW m \in retired + 1 .. dispatched PROVE AnsweredOnce(P, z, m)
  <2>1. AnsweredOnce(P, c, m)
    BY DEF ValueInv, Values, Tally
  <2> QED
    BY <1>1, <2>1, AnsweredOnceSame
<1>3. c.inflight_reg = Cardinality(RC) /\ c.inflight_mem = Cardinality(MC)
  BY DEF ValueInv, Values, Tally, InFlight
<1>4. /\ RC = {m \in ROB : ~ IsMemory(m) /\ c.rob[m].executed = INFLIGHT}
      /\ RZ = {m \in ROB : ~ IsMemory(m) /\ z.rob[m].executed = INFLIGHT}
      /\ MC = {m \in ROB : IsMemory(m) /\ c.rob[m].num_mem_ops = 0 /\ c.rob[m].executed # COMPLETED}
      /\ MZ = {m \in ROB : IsMemory(m) /\ z.rob[m].num_mem_ops = 0 /\ z.rob[m].executed # COMPLETED}
  BY <1>1 DEF RegisterOnes, MemoryOnes
<1>5. IsFiniteSet(RC) /\ IsFiniteSet(MC)
  <2>1. RC \subseteq ROB /\ MC \subseteq ROB
    BY <1>4
  <2> QED
    BY <1>1, <2>1, FS_Subset
<1>6. Cardinality(RC) \in Nat /\ Cardinality(MC) \in Nat
  BY <1>5, FS_CardinalityType
<1> SUFFICES z.inflight_reg = Cardinality(RZ) /\ z.inflight_mem = Cardinality(MZ)
  BY <1>2 DEF Tally, InFlight
<1> HIDE DEF c, z, RC, RZ, MC, MZ
<1>7. CASE CountsSame(c, z)
  <2>1. RZ = RC /\ MZ = MC
    BY <1>1, <1>4, <1>7 DEF CountsSame
  <2> QED
    BY <1>3, <1>7, <2>1 DEF CountsSame
<1>8. ASSUME NEW h, Issued(c, z, h) PROVE z.inflight_reg = Cardinality(RZ) /\ z.inflight_mem = Cardinality(MZ)
  <2>1. RZ = RC \cup {h} /\ h \notin RC
    BY <1>1, <1>4, <1>8 DEF Issued, None, INFLIGHT
  <2>2. MZ = MC
    BY <1>1, <1>4, <1>8 DEF Issued
  <2>3. Cardinality(RC \cup {h}) = Cardinality(RC) + 1
    BY <1>5, <2>1, FS_AddElement
  <2> QED
    BY <1>3, <1>8, <2>1, <2>2, <2>3 DEF Issued
<1>9. ASSUME NEW x \in ROB, Finished(c, z, x), c.rob[x].num_mem_ops = 0
      PROVE  z.inflight_reg = Cardinality(RZ) /\ z.inflight_mem = Cardinality(MZ)
  <2>1. CASE IsMemory(x)
    <3>1. MZ = MC \ {x} /\ x \in MC
      BY <1>1, <1>4, <1>9, <2>1 DEF Finished, INFLIGHT, COMPLETED
    <3>2. RZ = RC
      BY <1>1, <1>4, <1>9, <2>1 DEF Finished
    <3>3. Cardinality(MC \ {x}) = Cardinality(MC) - 1
      BY <1>5, <3>1, FS_RemoveElement
    <3> QED
      BY <1>3, <1>9, <2>1, <3>1, <3>2, <3>3 DEF Finished
  <2>2. CASE ~ IsMemory(x)
    <3>1. RZ = RC \ {x} /\ x \in RC
      BY <1>1, <1>4, <1>9, <2>2 DEF Finished, INFLIGHT, COMPLETED
    <3>2. MZ = MC
      BY <1>1, <1>4, <1>9, <2>2 DEF Finished
    <3>3. Cardinality(RC \ {x}) = Cardinality(RC) - 1
      BY <1>5, <3>1, FS_RemoveElement
    <3> QED
      BY <1>3, <1>9, <2>2, <3>1, <3>2, <3>3 DEF Finished
  <2> QED
    BY <2>1, <2>2
<1> QED
  BY <1>7, <1>8, <1>9 DEF c, z

LEMMA RobOnlyValues ==
    ASSUME LsqStanding, ValueInv, RobOnly(core, core'), Tally(program, core', retired, dispatched)
    PROVE  Values(program, core', retired, dispatched) /\ Kept(core, core', retired, dispatched)
<1>1. ValuesSame(core, core', retired, dispatched)
  BY DEF RobOnly, ValuesSame, LsqStanding
<1> QED
  BY <1>1, SameValues DEF LsqStanding, LsqInv, QueuesHeld, ValueInv

LEMMA MovesOnlyValues ==
    ASSUME LsqStanding, ValueInv, TranslateStore \/ TranslateLoad \/ DataTranslated \/ ExecuteLoad
    PROVE  Values(program, core', retired, dispatched) /\ Kept(core, core', retired, dispatched)
<1>1. DOMAIN core = CoreFields
  BY DEF LsqStanding, Shape
<1>2. /\ core'.LQ = core.LQ /\ core'.rob = core.rob /\ core'.data = core.data
      /\ core'.inflight_reg = core.inflight_reg /\ core'.inflight_mem = core.inflight_mem
  <2>1. CASE TranslateStore
    BY <1>1, <2>1 DEF TranslateStore, CoreFields
  <2>2. CASE TranslateLoad
    BY <1>1, <2>2 DEF TranslateLoad, CoreFields
  <2>3. CASE DataTranslated
    <3>1. PICK e : core' = IF e.queue = "SQ" THEN [core EXCEPT !.RTS1 = Append(@, e.slot)]
                           ELSE [core EXCEPT !.RTL1 = Append(@, e.slot)]
      BY <2>3 DEF DataTranslated
    <3> QED
      BY <1>1, <3>1 DEF CoreFields
  <2>4. CASE ExecuteLoad
    BY <1>1, <2>4 DEF ExecuteLoad, CoreFields
  <2> QED
    BY <2>1, <2>2, <2>3, <2>4
<1>3. ValuesSame(core, core', retired, dispatched)
  BY <1>2 DEF ValuesSame
<1>4. Tally(program, core', retired, dispatched)
  <2>1. TallySame(program, core, core', retired, dispatched)
    BY <1>2 DEF TallySame
  <2> QED
    BY <1>3, <2>1, SameTally DEF ValueInv
<1> QED
  BY <1>3, <1>4, SameValues DEF LsqStanding, LsqInv, QueuesHeld, ValueInv

LEMMA InsideValues ==
    ASSUME Registers, LsqStanding, ValueInv, Inside
    PROVE  /\ Values(program, core', retired, dispatched) /\ Kept(core, core', retired, dispatched)
           /\ UNCHANGED <<program, retired, dispatched, memory>>
<1>1. UNCHANGED <<program, retired, dispatched, memory>>
  <2>1. CASE Fetch \/ UNCHANGED vars
    BY <2>1 DEF Fetch, FetchNext, InitInstruction, CheckDib, TranslateFetch, Translated, FetchInstruction,
               Fetched, PromoteToDecode, DecodeInstruction, ResumeFetch, vars, backVars, fetchVars
  <2>2. CASE Schedule \/ Execute \/ ScheduleMemory
    BY <2>2, SMTT(60) DEF Schedule, Execute, ScheduleMemory, fetchVars
  <2>3. CASE TranslateStore \/ TranslateLoad \/ ExecuteStore \/ ExecuteLoad
    BY <2>3 DEF TranslateStore, TranslateLoad, ExecuteStore, ExecuteLoad, fetchVars
  <2>4. CASE DataTranslated \/ DataReturned
    BY <2>4, ZenonT(60) DEF DataTranslated, DataReturned, fetchVars
  <2>5. CASE Complete
    BY <2>5, Zenon DEF Complete
  <2> QED
    BY <2>1, <2>2, <2>3, <2>4, <2>5, SMTT(60) DEF Inside
<1>2. CASE Fetch \/ UNCHANGED vars
  BY <1>1, <1>2, FetchRobOnly, RobOnlyTally, RobOnlyValues
<1>3. CASE Schedule
  BY <1>1, <1>3, ScheduleRobOnly, RobOnlyTally, RobOnlyValues
<1>4. CASE Execute
  BY <1>1, <1>4, ExecuteRobOnly, RobOnlyTally, RobOnlyValues
<1>5. CASE ScheduleMemory
  <2>1. PICK n \in ROB : IsMemory(n) /\ core' = MemoryScheduled(core, n)
    BY <1>5 DEF ScheduleMemory
  <2>2. Sound(core, dtlb, l1d, memory) /\ Order
    BY DEF Sound, LsqStanding, LsqInv, ValueInv
  <2> QED
    BY <1>1, <2>1, <2>2, MemoryScheduledValues
<1>6. CASE TranslateStore \/ TranslateLoad \/ DataTranslated \/ ExecuteLoad
  BY <1>1, <1>6, MovesOnlyValues
<1>7. CASE ExecuteStore
  BY <1>1, <1>7, ExecuteStoreValues
<1>8. CASE DataReturned
  BY <1>1, <1>8, DataReturnedValues
<1>9. CASE Complete
  <2>1. PICK x \in ROB : Completes(x) /\ core.rob[x].num_mem_ops = 0
    BY <1>9, Zenon DEF Complete, Completes
  <2> QED
    BY <1>1, <2>1, CompleteRobOnly, RobOnlyTally, RobOnlyValues
<1> QED
  BY <1>2, <1>3, <1>4, <1>5, <1>6, <1>7, <1>8, <1>9 DEF Inside

LEMMA ValueInit == Init => ValueInv
<1> SUFFICES ASSUME Init PROVE ValueInv
  OBVIOUS
<1>1. core = NewCore /\ retired = 0 /\ dispatched = 0 /\ memory = [a \in Address |-> 0]
  BY DEF Init
<1>2. (\A s \in LoadSlots : core.LQ[s] = NoEntry) /\ \A n \in Ids : core.data[n] = {}
  BY <1>1 DEF NewCore
<1>3. \A a : IsLast(program, 0 + 1, a, 0)
  BY DEF IsLast
<1>4. InOrderWrites(program, core, 0, 0, memory)
  BY <1>1, <1>3 DEF InOrderWrites
<1>5. Tally(program, core, 0, 0)
  <2>1. \A m : m \notin 0 + 1 .. 0
    OBVIOUS
  <2>2. RegisterOnes(program, core, 0, 0) = {} /\ MemoryOnes(program, core, 0, 0) = {}
    BY <2>1 DEF RegisterOnes, MemoryOnes
  <2>3. core.inflight_reg = 0 /\ core.inflight_mem = 0
    BY <1>1 DEF NewCore
  <2> QED
    BY <2>1, <2>2, <2>3, FS_EmptySet DEF Tally, InFlight
<1>6. Values(program, core, 0, 0)
  BY <1>2, <1>5 DEF Values, Sourced
<1> QED
  BY <1>1, <1>4, <1>6 DEF ValueInv

LEMMA ValueStep ==
    ASSUME Registers, LsqInv, ValueInv, [Next]_vars
    PROVE  ValueInv'
<1>0. LsqStanding
  BY LsqStands
<1>1. CASE Inside
  <2>1. /\ Values(program, core', retired, dispatched) /\ Kept(core, core', retired, dispatched)
        /\ UNCHANGED <<program, retired, dispatched, memory>>
    BY <1>0, <1>1, InsideValues
  <2>2. InOrderWrites(program, core', retired, dispatched, memory)
    BY <1>0, <2>1, KeptWrites DEF ValueInv, LsqStanding, Bounds
  <2> QED
    BY <2>1, <2>2 DEF ValueInv
<1>2. CASE Dispatch
  <2>1. UNCHANGED <<program, retired, memory>>
    BY <1>2 DEF Dispatch, fetchVars
  <2> QED
    BY <1>0, <1>2, <2>1, DispatchValues DEF ValueInv
<1>3. CASE Retire
  <2>1. UNCHANGED <<program, dispatched>>
    BY <1>3 DEF Retire
  <2>2. PICK refused : RetiresFirst(retired + 1, refused)
    BY <1>0, <1>3, RetireAccepts
  <2>3. /\ Values(program, core', retired', dispatched)
        /\ InOrderWrites(program, core', retired', dispatched, memory')
    BY <1>0, <2>2, RetireValues, RetireWrites
  <2> QED
    BY <2>1, <2>3 DEF ValueInv
<1> QED
  BY <1>1, <1>2, <1>3 DEF Next, Inside


-----------------------------------------------------------------------------
(* The core's steps are the sequential machine's, or none of them. *)

\* How many stores of the instruction at the head of the ROB are in the memory, and what
\* the instructions that have left it have read.
WroteOfNext ==
    IF ROB = {} THEN 0 ELSE Len(program[retired + 1].store) - Cardinality(core.rob[retired + 1].destination_memory)
ReadsOfRetired == [n \in 1 .. retired |-> core.data[n]]
SequentialVars == <<program, retired, WroteOfNext, memory, ReadsOfRetired>>

LEMMA LastStoreIs ==
    ASSUME NEW n, NEW a, NEW m, n \in Nat, IsLast(program, n, a, m)
    PROVE  Sequential!LastStore(n, a) = m
<1> DEFINE before == {l \in 1 .. n - 1 : Sequential!Stores(l, a)}
<1>1. before = {l \in 1 .. n - 1 : StoresTo(program, l, a)}
  BY DEF Sequential!Stores, StoresTo
<1>2. m \in 0 .. n - 1 /\ (m # 0 => StoresTo(program, m, a)) /\ \A l \in before : l <= m
  BY <1>1 DEF IsLast
<1>3. CASE m = 0
  <2>1. before = {}
    BY <1>2, <1>3
  <2> QED
    BY <1>3, <2>1 DEF Sequential!LastStore
<1>4. CASE m # 0
  <2>1. m \in before
    BY <1>1, <1>2, <1>4
  <2>2. \A x \in before : (\A l \in before : l <= x) => x = m
    BY <1>2, <2>1
  <2>3. (CHOOSE x \in before : \A l \in before : l <= x) = m
    <3> HIDE DEF before
    <3> QED
      BY <1>2, <2>1, <2>2
  <2> QED
    BY <2>1, <2>3 DEF Sequential!LastStore
<1> QED
  BY <1>3, <1>4

LEMMA WroteSoFar ==
    ASSUME NEW L \in Nat, NEW w \in 0 .. L
    PROVE  L - Cardinality(w + 1 .. L) = w
<1>1. Cardinality(w + 1 .. L) = IF w + 1 > L THEN 0 ELSE L - (w + 1) + 1
  BY FS_Interval
<1> QED
  BY <1>1

\* Of the head of the ROB, the stores past the first WroteOfNext ones are left.
LEMMA WroteOfHead ==
    ASSUME LsqStanding, ValueInv, retired < dispatched
    PROVE  /\ WroteOfNext \in 0 .. Len(program[retired + 1].store)
           /\ core.rob[retired + 1].destination_memory = WroteOfNext + 1 .. Len(program[retired + 1].store)
<1> DEFINE L == Len(program[retired + 1].store)
<1>1. /\ retired \in Nat /\ dispatched \in Nat /\ retired + 1 \in 1 .. Len(program)
      /\ ROB = retired + 1 .. dispatched
  BY DEF LsqStanding, Bounds
<1>2. L \in Nat
  BY <1>1, InBounds DEF LsqStanding
<1>3. PICK w \in 0 .. L : core.rob[retired + 1].destination_memory = w + 1 .. L
  BY DEF ValueInv, InOrderWrites
<1>4. ROB # {}
  BY <1>1, SMTT(60)
<1>5. WroteOfNext = w
  BY <1>2, <1>3, <1>4, WroteSoFar DEF WroteOfNext
<1> QED
  BY <1>3, <1>5

LEMMA InitSequential == Init => Sequential!Init
<1> SUFFICES ASSUME Init PROVE Sequential!Init
  OBVIOUS
<1>1. retired = 0 /\ dispatched = 0 /\ memory = [a \in Address |-> 0]
  BY DEF Init
<1>2. ROB = {}
  BY <1>1 DEF ROB
<1>3. [n \in 1 .. retired |-> core.data[n]] = <<>>
  BY <1>1
<1> QED
  BY <1>1, <1>2, <1>3 DEF Sequential!Init

\* Nothing the sequential machine has changes with the head of the ROB and what it has read.
LEMMA SequentialStutters ==
    ASSUME LsqStanding, UNCHANGED <<program, retired, memory>>,
           \A n \in 1 .. retired : core'.data[n] = core.data[n],
           WroteOfNext' = WroteOfNext
    PROVE  UNCHANGED SequentialVars
<1>1. ReadsOfRetired' = ReadsOfRetired
  BY DEF ReadsOfRetired
<1> QED
  BY <1>1 DEF SequentialVars

LEMMA InsideStutters ==
    ASSUME Registers, LsqStanding, ValueInv, Inside
    PROVE  UNCHANGED SequentialVars
<1>1. /\ Kept(core, core', retired, dispatched)
      /\ UNCHANGED <<program, retired, dispatched, memory>>
  BY InsideValues
<1>2. retired \in Nat /\ dispatched \in Nat /\ 1 .. retired \subseteq Ids /\ ROB = retired + 1 .. dispatched
  BY SizeAssumption DEF LsqStanding, Bounds, Ids
<1>3. \A n \in 1 .. retired : core'.data[n] = core.data[n]
  BY <1>1, <1>2 DEF Kept
<1>4. ROB' = ROB
  BY <1>1 DEF ROB
<1>5. WroteOfNext' = WroteOfNext
  <2>1. CASE ROB = {}
    BY <1>4, <2>1 DEF WroteOfNext
  <2>2. CASE ROB # {}
    <3>1. retired + 1 \in retired + 1 .. dispatched
      BY <1>2, <2>2
    <3>2. core'.rob[retired + 1].destination_memory = core.rob[retired + 1].destination_memory
      BY <1>1, <3>1 DEF Kept
    <3> QED
      BY <1>1, <1>4, <3>2 DEF WroteOfNext
  <2> QED
    BY <2>1, <2>2
<1> QED
  BY <1>1, <1>3, <1>5, SequentialStutters

LEMMA DispatchStutters ==
    ASSUME LsqStanding, ValueInv, Dispatch
    PROVE  UNCHANGED SequentialVars
<1>1. UNCHANGED <<program, retired, memory>>
  BY DEF Dispatch, fetchVars
<1>2. /\ Dispatched(program, core, core', retired, dispatched, dispatched + 1) /\ dispatched' = dispatched + 1
      /\ dispatched + 1 <= Len(program)
  BY DispatchEnters
<1>3. /\ retired \in Nat /\ dispatched \in Nat /\ retired <= dispatched
      /\ ROB = retired + 1 .. dispatched /\ ROB' = retired + 1 .. dispatched + 1
  BY <1>1, <1>2 DEF LsqStanding, Bounds, ROB
<1>4. core'.data = core.data
  BY <1>2 DEF Dispatched
<1>5. retired + 1 \in ROB'
  BY <1>3
<1>6. WroteOfNext' = WroteOfNext
  <2>1. CASE retired = dispatched
    <3>1. core'.rob[retired + 1].destination_memory = 1 .. Len(program[retired + 1].store)
      BY <1>2, <2>1 DEF Dispatched
    <3>2. Len(program[retired + 1].store) \in Nat
      <4>1. retired + 1 \in 1 .. Len(program) /\ Bounds(program, retired, dispatched)
        BY <1>2, <1>3, <2>1 DEF LsqStanding, Bounds
      <4> QED
        BY <4>1, InBounds
    <3>3. WroteOfNext' = 0
      BY <1>1, <1>5, <3>1, <3>2, WroteSoFar DEF WroteOfNext
    <3>4. ROB = {}
      BY <1>3, <2>1
    <3> QED
      BY <3>3, <3>4 DEF WroteOfNext
  <2>2. CASE retired < dispatched
    <3>1. retired + 1 \in ROB
      BY <1>3, <2>2
    <3>2. core'.rob[retired + 1] = core.rob[retired + 1]
      BY <1>2, <1>3, <3>1 DEF Dispatched
    <3> QED
      BY <1>1, <1>5, <3>1, <3>2 DEF WroteOfNext
  <2> QED
    BY <1>3, <2>1, <2>2
<1> QED
  BY <1>1, <1>4, <1>6, SequentialStutters

\* An instruction that has completed has read what it reads in the trace's order.
LEMMA CompletedReads ==
    ASSUME LsqStanding, ValueInv, NEW n \in ROB, core.rob[n].executed = COMPLETED
    PROVE  core.data[n] = Sequential!Reads(n)
<1>1. /\ n \in retired + 1 .. dispatched /\ n \in Nat /\ n \in 1 .. Len(program)
      /\ Counted(program, core, n)
      /\ Correct(program, core, n) /\ Answered(program, core, n)
  BY InBounds DEF LsqStanding, LsqInv, QueuesHeld, Queues, ValueInv, Values
<1>2. Unadded(program, core, n) = {} /\ EntriesOf(core, n) = {}
  BY <1>1 DEF Counted
<1> DEFINE load == program[n].load
<1>3. ASSUME NEW d \in core.data[n] PROVE d \in Sequential!Reads(n)
  <2>1. PICK j \in 1 .. Len(load) : \E v : d = <<load[j], v>> /\ IsLast(program, n, load[j], v)
    BY <1>1 DEF Correct
  <2>3. PICK v : d = <<load[j], v>> /\ IsLast(program, n, load[j], v)
    BY <2>1
  <2>2. Sequential!LastStore(n, load[j]) = v
    BY <1>1, <2>3, LastStoreIs
  <2> QED
    BY <2>2, <2>3 DEF Sequential!Reads
<1>4. ASSUME NEW j \in 1 .. Len(load) PROVE <<load[j], Sequential!LastStore(n, load[j])>> \in core.data[n]
  <2>1. j \in core.rob[n].source_added
    BY <1>2 DEF Unadded
  <2>2. PICK v : <<load[j], v>> \in core.data[n]
    BY <1>1, <1>2, <2>1 DEF Answered
  <2>3. PICK i \in 1 .. Len(load) : \E u : <<load[j], v>> = <<load[i], u>> /\ IsLast(program, n, load[i], u)
    BY <1>1, <2>2 DEF Correct
  <2>4. Sequential!LastStore(n, load[j]) = v
    BY <1>1, <2>3, LastStoreIs
  <2> QED
    BY <2>2, <2>4
<1>5. Sequential!Reads(n) \subseteq core.data[n]
  BY <1>4 DEF Sequential!Reads
<1> QED
  BY <1>3, <1>5

LEMMA AppendReads ==
    ASSUME NEW n \in Nat, NEW f, NEW g, \A i \in 1 .. n : g[i] = f[i]
    PROVE  [i \in 1 .. n + 1 |-> g[i]] = Append([i \in 1 .. n |-> f[i]], g[n + 1])
<1> DEFINE S == {g[i] : i \in 1 .. n + 1}
           s == [i \in 1 .. n |-> f[i]]
<1>1. s \in [1 .. n -> S]
  OBVIOUS
<1>2. s \in Seq(S) /\ Len(s) = n
  BY <1>1
<1>3. g[n + 1] \in S
  OBVIOUS
<1>4. /\ Append(s, g[n + 1]) \in Seq(S) /\ Len(Append(s, g[n + 1])) = n + 1
      /\ \A i \in 1 .. n : Append(s, g[n + 1])[i] = s[i]
      /\ Append(s, g[n + 1])[n + 1] = g[n + 1]
  <2> HIDE DEF S, s
  <2> QED
    BY <1>2, <1>3
<1>5. Append(s, g[n + 1]) \in [1 .. n + 1 -> S]
  <2> HIDE DEF S, s
  <2>1. \A t \in Seq(S) : t \in [1 .. Len(t) -> S]
    OBVIOUS
  <2> QED
    BY <1>4, <2>1
<1>6. \A i \in 1 .. n + 1 : Append(s, g[n + 1])[i] = g[i]
  BY <1>4
<1> HIDE DEF S, s
<1>7. Append(s, g[n + 1]) = [i \in 1 .. n + 1 |-> g[i]]
  BY <1>5, <1>6
<1> QED
  BY <1>7 DEF s

LEMMA RetireImplements ==
    ASSUME LsqStanding, ValueInv, Retire
    PROVE  Sequential!Next
<1> DEFINE n == retired + 1
           L == Len(program[n].store)
           w == WroteOfNext
<1>1. PICK refused : RetiresFirst(n, refused)
  BY RetireAccepts
<1>2. UNCHANGED <<program, dispatched>>
  BY DEF Retire
<1>3. /\ retired \in Nat /\ dispatched \in Nat /\ retired < dispatched /\ n \in 1 .. Len(program)
      /\ ROB = n .. dispatched /\ n \in ROB /\ retired < Len(program) /\ core.rob[n].executed = COMPLETED
  BY <1>1 DEF LsqStanding, Bounds, RetiresFirst
<1>4. L \in Nat
  BY <1>3, InBounds DEF LsqStanding
<1>5. w \in 0 .. L /\ core.rob[n].destination_memory = w + 1 .. L
  BY <1>3, WroteOfHead
<1>6. WroteOfNext = IF ROB = {} THEN 0 ELSE L - Cardinality(core.rob[n].destination_memory)
  BY DEF WroteOfNext
<1>7. /\ refused \subseteq w + 1 .. L
      /\ \A k \in (w + 1 .. L) \ refused, i \in refused : k < i
      /\ memory' = [a \in Address |-> IF \E k \in (w + 1 .. L) \ refused : program[n].store[k] = a THEN n ELSE memory[a]]
      /\ retired' = IF refused = {} THEN n ELSE retired
      /\ Accepted(core, core', n, retired, dispatched, refused)
  BY <1>1, <1>5, Zenon DEF RetiresFirst
<1>8. core'.data = core.data
  BY <1>7 DEF Accepted
<1> HIDE DEF w, L, n
<1>9. ASSUME NEW m \in w .. L, refused = m + 1 .. L, Sequential!Step(m) PROVE Sequential!Next
  <2>1. m \in WroteOfNext .. Len(program[retired + 1].store)
    BY <1>9 DEF w, L, n
  <2>2. retired < Len(program)
    BY <1>3
  <2> QED
    BY <1>9, <2>1, <2>2, Zenon DEF Sequential!Next, WroteOfNext
<1>10. ASSUME NEW m \in w .. L, refused = m + 1 .. L
       PROVE  memory' = [a \in Address |-> IF a \in {program[n].store[k] : k \in w + 1 .. m} THEN n ELSE memory[a]]
  <2>1. (w + 1 .. L) \ refused = w + 1 .. m
    BY <1>4, <1>5, <1>10
  <2> QED
    BY <1>7, <2>1
<1>11. CASE refused # {}
  <2>1. PICK m \in w .. L : refused = m + 1 .. L
    BY <1>4, <1>5, <1>7, <1>11, RefusedIsFinal
  <2>2. m < L /\ m \in 0 .. L
    BY <1>4, <1>5, <1>11, <2>1
  <2>3. retired' = retired
    BY <1>7, <1>11
  <2>4. core'.rob[n].destination_memory = m + 1 .. L
    BY <1>7, <1>11, <2>1 DEF Accepted
  <2>5. WroteOfNext' = m
    <3>1. ROB' # {}
      BY <1>2, <1>3, <2>3 DEF ROB
    <3>2. WroteOfNext' = L - Cardinality(core'.rob[n].destination_memory)
      BY <1>2, <2>3, <3>1 DEF WroteOfNext, n, L
    <3> QED
      BY <1>4, <2>2, <2>4, <3>2, WroteSoFar
  <2>6. ReadsOfRetired' = ReadsOfRetired
    BY <1>8, <2>3 DEF ReadsOfRetired
  <2>7. Sequential!Step(m)
    BY <1>2, <1>10, <2>1, <2>2, <2>3, <2>5, <2>6 DEF Sequential!Step, WroteOfNext, ReadsOfRetired, w, n, L
  <2> QED
    BY <1>9, <2>1, <2>7
<1>12. CASE refused = {}
  <2>1. PICK m \in w .. L : m = L /\ refused = m + 1 .. L
    BY <1>4, <1>5, <1>12
  <2>2. retired' = n
    BY <1>7, <1>12
  <2>3. WroteOfNext' = 0
    <3>1. CASE ROB' = {}
      BY <3>1 DEF WroteOfNext
    <3>2. CASE ROB' # {}
      <4>1. n + 1 \in retired + 1 .. dispatched /\ n + 1 # n /\ n + 1 \in retired + 2 .. dispatched
        BY <1>2, <1>3, <2>2, <3>2 DEF ROB, n
      <4>2. core'.rob[n + 1] = core.rob[n + 1]
        BY <1>7, <4>1 DEF Accepted
      <4>3. core.rob[n + 1].destination_memory = 1 .. Len(program[n + 1].store)
        BY <4>1 DEF ValueInv, InOrderWrites
      <4>4. Len(program[n + 1].store) \in Nat
        BY <4>1, InBounds DEF LsqStanding
      <4>5. WroteOfNext' = Len(program[n + 1].store) - Cardinality(1 .. Len(program[n + 1].store))
        BY <1>2, <2>2, <3>2, <4>2, <4>3 DEF WroteOfNext
      <4> QED
        BY <4>4, <4>5, WroteSoFar
    <3> QED
      BY <3>1, <3>2
  <2>4. core.data[n] = Sequential!Reads(n)
    BY <1>3, CompletedReads
  <2>5. ReadsOfRetired' = Append(ReadsOfRetired, core.data[n])
    <3>1. ReadsOfRetired' = [i \in 1 .. retired + 1 |-> core.data[i]]
      BY <1>8, <2>2 DEF ReadsOfRetired, n
    <3>2. ReadsOfRetired = [i \in 1 .. retired |-> core.data[i]]
      BY DEF ReadsOfRetired
    <3>3. [i \in 1 .. retired + 1 |-> core.data[i]] = Append([i \in 1 .. retired |-> core.data[i]], core.data[retired + 1])
      BY <1>3, AppendReads
    <3> QED
      BY <3>1, <3>2, <3>3 DEF n
  <2>6. Sequential!Step(m)
    BY <1>2, <1>10, <2>1, <2>2, <2>3, <2>4, <2>5 DEF Sequential!Step, WroteOfNext, ReadsOfRetired, w, n, L
  <2> QED
    BY <1>9, <2>1, <2>6
<1> QED
  BY <1>11, <1>12

LEMMA NextSequential ==
    Registers /\ LsqInv /\ ValueInv /\ [Next]_vars => [Sequential!Next]_SequentialVars
<1> SUFFICES ASSUME Registers, LsqInv, ValueInv, [Next]_vars PROVE Sequential!Next \/ UNCHANGED SequentialVars
  OBVIOUS
<1>0. LsqStanding
  BY LsqStands
<1>1. CASE Inside
  BY <1>0, <1>1, InsideStutters
<1>2. CASE Dispatch
  BY <1>0, <1>2, DispatchStutters
<1>3. CASE Retire
  BY <1>0, <1>3, RetireImplements
<1> QED
  BY <1>1, <1>2, <1>3 DEF Next, Inside

\* Every load returns what the last store before it in the trace wrote, wherever it got
\* it from, and the stores reach the L1D once and in the order of the trace, whatever it
\* refuses (add_load_queue, execute_store, handle_memory_return, retire_rob).
THEOREM CoreImplementsSequentialMachine == Spec => ImplementsSequentialMachine
<1>1. Init => Registers /\ LsqInv /\ ValueInv
  BY RegistersInit, LsqInit, ValueInit
<1>2. Registers /\ LsqInv /\ ValueInv /\ [Next]_vars => Registers' /\ LsqInv' /\ ValueInv'
  BY RegistersStep, LsqStep, ValueStep
<1>3. Registers /\ LsqInv /\ ValueInv /\ [Next]_vars => [Sequential!Next]_SequentialVars
  BY NextSequential
<1> QED
  BY <1>1, <1>2, <1>3, InitSequential, PTL
     DEF Spec, ImplementsSequentialMachine, Sequential!Spec, SequentialVars, WroteOfNext, ReadsOfRetired

-----------------------------------------------------------------------------
(* The counts that complete instructions. *)

\* The addresses of n's loads are all different.
LoadsApart(P, n) == \A i, j \in 1 .. Len(P[n].load) : P[n].load[i] = P[n].load[j] => i = j

LEMMA DisjointSizes ==
    ASSUME NEW S, IsFiniteSet(S), NEW A, NEW B, A \cup B = S, A \cap B = {}
    PROVE  /\ Cardinality(S) = Cardinality(A) + Cardinality(B)
           /\ Cardinality(A) \in Nat /\ Cardinality(B) \in Nat /\ IsFiniteSet(A) /\ IsFiniteSet(B)
<1>1. IsFiniteSet(A) /\ IsFiniteSet(B)
  BY FS_Subset
<1>2. Cardinality(A) \in Nat /\ Cardinality(B) \in Nat
  BY <1>1, FS_CardinalityType
<1>3. Cardinality(A \cup B) = Cardinality(A) + Cardinality(B) - Cardinality(A \cap B)
  BY <1>1, FS_Union
<1>4. Cardinality(A \cap B) = 0
  BY FS_EmptySet
<1> QED
  BY <1>1, <1>2, <1>3, <1>4

\* A load that has entered the queue is there or has returned, and each place holds one.
LEMMA LoadsReturned ==
    ASSUME NEW P, NEW c, NEW lo, NEW hi, Bounds(P, lo, hi), Queues(P, c, lo, hi), Values(P, c, lo, hi),
           NEW n \in lo + 1 .. hi, LoadsApart(P, n)
    PROVE  Len(P[n].load) - Cardinality(c.data[n]) = Cardinality(Unadded(P, c, n)) + Cardinality(EntriesOf(c, n))
<1> DEFINE A == c.rob[n].source_added
           D == c.data[n]
           E == EntriesOf(c, n)
           L == Len(P[n].load)
           load == P[n].load
           inQueue == {j \in A : \E s \in E : c.LQ[s].address = load[j]}
           back == A \ inQueue
<1>1. /\ L \in Nat /\ A \subseteq 1 .. L
      /\ Correct(P, c, n) /\ Answered(P, c, n) /\ AnsweredOnce(P, c, n)
      /\ \A i, j \in 1 .. L : load[i] = load[j] => i = j
  <2>1. n \in 1 .. Len(P)
    BY InBounds
  <2>2. InstrTyped(P, c, n, hi)
    BY DEF Queues
  <2>3. Correct(P, c, n) /\ Answered(P, c, n) /\ AnsweredOnce(P, c, n)
    BY DEF Values, Tally
  <2> QED
    BY <2>1, <2>2, <2>3, InBounds DEF InstrTyped, LoadsApart
<1>2. \A d \in D : /\ \E j \in A : d[1] = load[j]
                   /\ \A s \in E : d[1] # c.LQ[s].address
  BY <1>1, Zenon DEF AnsweredOnce
<1>3. \A s \in E : \E j \in A : load[j] = c.LQ[s].address /\ c.rob[n].lq_index[j] = s
  <2> SUFFICES ASSUME NEW s \in E
               PROVE  \E j \in A : load[j] = c.LQ[s].address /\ c.rob[n].lq_index[j] = s
    OBVIOUS
  <2>1. s \in LoadSlots /\ c.LQ[s].instr = n
    BY DEF EntriesOf
  <2>2. NoEntry.instr = 0 /\ n # 0
    BY InBounds DEF NoEntry
  <2>3. LoadEntry(P, c, lo, hi, s) /\ c.LQ[s] # NoEntry
    BY <2>1, <2>2 DEF Queues
  <2> QED
    BY <2>1, <2>3 DEF LoadEntry
<1>4. \A j \in A : j \in inQueue \/ \E v : <<load[j], v>> \in D
  BY <1>1, Zenon DEF Answered
<1>5. \A d, e \in D : d[1] = e[1] => d = e
  <2> SUFFICES ASSUME NEW d \in D, NEW e \in D, d[1] = e[1] PROVE d = e
    OBVIOUS
  <2>1. PICK i \in 1 .. L : \E v : d = <<load[i], v>> /\ IsLast(P, n, load[i], v)
    BY <1>1 DEF Correct
  <2>2. PICK v : d = <<load[i], v>> /\ IsLast(P, n, load[i], v)
    BY <2>1
  <2>3. PICK j \in 1 .. L : \E w : e = <<load[j], w>> /\ IsLast(P, n, load[j], w)
    BY <1>1 DEF Correct
  <2>4. PICK w : e = <<load[j], w>> /\ IsLast(P, n, load[j], w)
    BY <2>3
  <2>5. load[i] = load[j]
    BY <2>2, <2>4
  <2>6. v = w
    <3>1. v \in 0 .. n - 1 /\ w \in 0 .. n - 1 /\ n \in Nat
      BY <2>2, <2>4, InBounds DEF IsLast, Ids
    <3>2. w # 0 => w <= v
      BY <2>2, <2>4, <2>5, <3>1 DEF IsLast
    <3>3. v # 0 => v <= w
      BY <2>2, <2>4, <2>5, <3>1 DEF IsLast
    <3> QED
      BY <3>1, <3>2, <3>3
  <2> QED
    BY <2>2, <2>4, <2>5, <2>6
<1> HIDE DEF A, D, E, L, load
<1>6. IsFiniteSet(1 .. L) /\ Cardinality(1 .. L) = L
  BY <1>1, FS_Interval
<1>7. /\ L = Cardinality(A) + Cardinality((1 .. L) \ A) /\ IsFiniteSet(A)
      /\ Cardinality((1 .. L) \ A) \in Nat
  <2>1. A \cup ((1 .. L) \ A) = 1 .. L /\ A \cap ((1 .. L) \ A) = {}
    BY <1>1
  <2>2. \A S, B : A \cup B = S /\ A \cap B = {} /\ IsFiniteSet(S) =>
                 /\ Cardinality(S) = Cardinality(A) + Cardinality(B)
                 /\ Cardinality(B) \in Nat /\ IsFiniteSet(A)
    <3> SUFFICES ASSUME NEW S, NEW B, A \cup B = S, A \cap B = {}, IsFiniteSet(S)
                 PROVE  /\ Cardinality(S) = Cardinality(A) + Cardinality(B)
                        /\ Cardinality(B) \in Nat /\ IsFiniteSet(A)
      OBVIOUS
    <3> QED
      BY DisjointSizes
  <2>3. /\ Cardinality(1 .. L) = Cardinality(A) + Cardinality((1 .. L) \ A)
        /\ Cardinality((1 .. L) \ A) \in Nat /\ IsFiniteSet(A)
    BY <1>6, <2>1, <2>2, Zenon
  <2> QED
    BY <1>6, <2>3, Zenon
<1>8. /\ Cardinality(A) = Cardinality(inQueue) + Cardinality(back) /\ IsFiniteSet(inQueue) /\ IsFiniteSet(back)
      /\ Cardinality(inQueue) \in Nat /\ Cardinality(back) \in Nat
  <2>1. inQueue \cup back = A /\ inQueue \cap back = {}
    OBVIOUS
  <2> HIDE DEF inQueue, back
  <2> QED
    BY <1>7, <2>1, DisjointSizes
<1>9. Cardinality(E) = Cardinality(inQueue)
  <2> DEFINE f == [j \in inQueue |-> c.rob[n].lq_index[j]]
  <2>1. ASSUME NEW j \in inQueue PROVE f[j] \in E /\ c.LQ[f[j]].address = load[j]
    <3>1. PICK s \in E : c.LQ[s].address = load[j]
      BY <2>1
    <3>2. PICK i \in A : load[i] = c.LQ[s].address /\ c.rob[n].lq_index[i] = s
      BY <1>3
    <3>3. i = j
      BY <1>1, <3>1, <3>2
    <3> QED
      BY <3>1, <3>2, <3>3
  <2>2. f \in [inQueue -> E]
    BY <2>1
  <2>3. \A i, j \in inQueue : f[i] = f[j] => i = j
    <3> SUFFICES ASSUME NEW i \in inQueue, NEW j \in inQueue, f[i] = f[j] PROVE i = j
      BY ZenonT(60)
    <3>1. load[i] = load[j] /\ i \in 1 .. L /\ j \in 1 .. L
      <4>1. c.LQ[f[i]].address = load[i] /\ c.LQ[f[j]].address = load[j]
        BY <2>1, ZenonT(60)
      <4> QED
        BY <1>1, <4>1, ZenonT(60)
    <3> QED
      BY <1>1, <3>1
  <2>4. \A s \in E : \E j \in inQueue : f[j] = s
    BY <1>3
  <2> HIDE DEF f, inQueue
  <2> QED
    BY <1>8, <2>2, <2>3, <2>4, SameSize
<1>10. Cardinality(D) = Cardinality(back)
  <2> DEFINE f == [j \in back |-> CHOOSE d \in D : d[1] = load[j]]
  <2>1. ASSUME NEW j \in back PROVE f[j] \in D /\ f[j][1] = load[j]
    <3>1. PICK v : <<load[j], v>> \in D
      BY <1>4
    <3>2. \E d \in D : d[1] = load[j]
      BY <3>1
    <3> QED
      BY <3>2
  <2>2. f \in [back -> D]
    BY <2>1
  <2>3. \A i, j \in back : f[i] = f[j] => i = j
    <3> SUFFICES ASSUME NEW i \in back, NEW j \in back, f[i] = f[j] PROVE i = j
      OBVIOUS
    <3>1. load[i] = load[j] /\ i \in 1 .. L /\ j \in 1 .. L
      <4>1. f[i][1] = load[i] /\ f[j][1] = load[j]
        BY <2>1
      <4> QED
        BY <1>1, <4>1
    <3> QED
      BY <1>1, <3>1
  <2>4. ASSUME NEW d \in D PROVE \E j \in back : f[j] = d
    <3>1. PICK j \in A : d[1] = load[j]
      BY <1>2
    <3>2. j \in back
      BY <1>2, <3>1
    <3> QED
      BY <1>5, <2>1, <3>1, <3>2
  <2> HIDE DEF f, back, inQueue
  <2> QED
    BY <1>8, <2>2, <2>3, <2>4, SameSize
<1> HIDE DEF inQueue, back
<1>11. L - Cardinality(D) = Cardinality((1 .. L) \ A) + Cardinality(E)
  BY <1>1, <1>7, <1>8, <1>9, <1>10
<1> QED
  BY <1>11 DEF A, D, E, L, Unadded

\* The tracers write what an instruction reads as a set (WriteToSet, cvp2champsim).
DistinctLoads == \A t \in Traces : \A n \in 1 .. Len(t.code) : LoadsApart(t.code, n)

TraceIsApart == \A n \in 1 .. Len(program) : LoadsApart(program, n)

LEMMA CountersFollow ==
    ASSUME Registers, LsqInv, ValueInv, TraceIsApart
    PROVE  CountersAgree
<1>0. LsqStanding
  BY LsqStands
<1>1. /\ Bounds(program, retired, dispatched) /\ Queues(program, core, retired, dispatched)
      /\ Values(program, core, retired, dispatched) /\ ROB = retired + 1 .. dispatched
  BY <1>0 DEF LsqStanding, LsqInv, QueuesHeld, ValueInv
<1>2. ASSUME NEW n \in ROB, core.rob[n].executed # COMPLETED
      PROVE  core.rob[n].num_mem_ops = (Len(program[n].load) - Cardinality(core.data[n]))
                                          + Cardinality({k \in StoresOf(n) : ~ StoreExecuted(n, k)})
  <2>1. n \in retired + 1 .. dispatched /\ n \in 1 .. Len(program)
    BY <1>1, InBounds
  <2>2. core.rob[n].num_mem_ops = Cardinality(Unadded(program, core, n)) + Cardinality(EntriesOf(core, n))
                                    + Cardinality(Unexecuted(program, core, n))
    BY <1>1, <1>2, <2>1 DEF Queues, Counted
  <2>3. Len(program[n].load) - Cardinality(core.data[n])
           = Cardinality(Unadded(program, core, n)) + Cardinality(EntriesOf(core, n))
    BY <1>1, <2>1, LoadsReturned DEF TraceIsApart
  <2>4. Unexecuted(program, core, n) = {k \in StoresOf(n) : ~ StoreExecuted(n, k)}
    <3>1. StoresOf(n) = 1 .. Len(program[n].store)
      BY <1>0, <2>1, InstructionInTrace DEF LsqStanding
    <3> QED
      BY <3>1 DEF Unexecuted, Executed, StoreExecuted
  <2> QED
    BY <2>2, <2>3, <2>4
<1>3. /\ RegisterOnes(program, core, retired, dispatched)
             = {n \in ROB : ~ IsMemory(n) /\ core.rob[n].executed = INFLIGHT}
      /\ MemoryOnes(program, core, retired, dispatched)
             = {n \in ROB : IsMemory(n) /\ core.rob[n].num_mem_ops = 0 /\ core.rob[n].executed # COMPLETED}
  BY <1>1 DEF RegisterOnes, MemoryOnes, HasMemory, IsMemory
<1> QED
  BY <1>1, <1>2, <1>3 DEF CountersAgree, Values, Tally, InFlight

LEMMA TraceStays ==
    ASSUME Registers, LsqInv, ValueInv, [Next]_vars
    PROVE  program' = program
<1>0. LsqStanding
  BY LsqStands
<1>1. CASE Inside
  BY <1>0, <1>1, InsideValues
<1>2. CASE Dispatch
  BY <1>2 DEF Dispatch, fetchVars
<1>3. CASE Retire
  BY <1>3 DEF Retire
<1> QED
  BY <1>1, <1>2, <1>3 DEF Next, Inside

\* num_mem_ops counts the loads of an instruction without data and its stores not yet
\* executed, and the two inflight counters the instructions that
\* complete_inflight_instruction will find, for every trace in which no instruction
\* loads from an address twice.
THEOREM CoreCountersAgree ==
    ASSUME DistinctLoads
    PROVE  Spec => []CountersAgree
<1>1. Init => Registers /\ LsqInv /\ ValueInv
  BY RegistersInit, LsqInit, ValueInit
<1>2. Registers /\ LsqInv /\ ValueInv /\ [Next]_vars => Registers' /\ LsqInv' /\ ValueInv'
  BY RegistersStep, LsqStep, ValueStep
<1>3. Init => TraceIsApart
  <2> SUFFICES ASSUME Init PROVE TraceIsApart
    OBVIOUS
  <2>1. PICK t \in Traces : program = t.code
    BY DEF Init, FetchInit
  <2> QED
    BY <2>1 DEF TraceIsApart, DistinctLoads
<1>4. TraceIsApart /\ Registers /\ LsqInv /\ ValueInv /\ [Next]_vars => TraceIsApart'
  BY TraceStays DEF TraceIsApart, LoadsApart
<1>5. Registers /\ LsqInv /\ ValueInv /\ TraceIsApart => CountersAgree
  BY CountersFollow
<1> QED
  BY <1>1, <1>2, <1>3, <1>4, <1>5, PTL DEF Spec

=============================================================================
