------------------------ MODULE OutOfOrderCoreProofs ------------------------
(***************************************************************************)
(* Proofs about OutOfOrderCore, for every set of traces and every size of  *)
(* the buffers.                                                            *)
(***************************************************************************)
EXTENDS OutOfOrderCore, NaturalsInduction, WellFoundedInduction, FiniteSetTheorems, TLAPS

-----------------------------------------------------------------------------
(* Induction, from the well-foundedness of < on the naturals. *)

NatLess == {p \in Nat \X Nat : p[1] < p[2]}

LEMMA LeastNatural ==
    ASSUME NEW T \in SUBSET Nat, T # {}
    PROVE  \E x \in T : \A y \in T : x <= y
<1>1. IsWellFoundedOn(NatLess, Nat)
  BY NatLessThanWellFounded DEF OpToRel, NatLess
<1>2. PICK x \in T : \A y \in T : <<y, x>> \notin NatLess
  BY <1>1, WFMin
<1>3. ASSUME NEW y \in T PROVE x <= y
  <2>1. x \in Nat /\ y \in Nat
    OBVIOUS
  <2>2. y < x => <<y, x>> \in NatLess
    BY <2>1 DEF NatLess
  <2>3. ~ (y < x)
    BY <1>2, <2>2
  <2> QED
    BY <2>1, <2>3
<1> QED
  BY <1>3

LEMMA SetInduction ==
    ASSUME NEW S, 0 \in S, \A i \in Nat : i \in S => i + 1 \in S
    PROVE  \A i \in Nat : i \in S
<1> SUFFICES ASSUME Nat \ S # {} PROVE FALSE
  OBVIOUS
<1>1. PICK x \in Nat \ S : \A y \in Nat \ S : x <= y
  BY LeastNatural
<1>2. x - 1 \in Nat /\ x - 1 \notin Nat \ S
  BY <1>1
<1> QED
  BY <1>1, <1>2

LEMMA FirstIsLeast ==
    ASSUME NEW S \in SUBSET Nat, S # {}
    PROVE  First(S) \in S /\ \A m \in S : First(S) <= m
BY LeastNatural DEF First

\* A set of numbers has an enumeration in order.
LEMMA Enumerable ==
    ASSUME NEW S \in SUBSET Nat, IsFiniteSet(S)
    PROVE  \E q \in [1 .. Cardinality(S) -> S] :
              /\ \A i, j \in 1 .. Cardinality(S) : i < j => q[i] < q[j]
              /\ \A s \in S : \E i \in 1 .. Cardinality(S) : q[i] = s
<1> DEFINE P(n) == \A U \in SUBSET Nat : IsFiniteSet(U) /\ Cardinality(U) = n =>
                      \E q \in [1 .. n -> U] :
                          /\ \A i, j \in 1 .. n : i < j => q[i] < q[j]
                          /\ \A s \in U : \E i \in 1 .. n : q[i] = s
<1>1. P(0)
  <2> SUFFICES ASSUME NEW U \in SUBSET Nat, IsFiniteSet(U), Cardinality(U) = 0
               PROVE  \E q \in [1 .. 0 -> U] :
                          /\ \A i, j \in 1 .. 0 : i < j => q[i] < q[j]
                          /\ \A s \in U : \E i \in 1 .. 0 : q[i] = s
    OBVIOUS
  <2>1. U = {}
    BY FS_EmptySet
  <2> WITNESS [i \in 1 .. 0 |-> 0] \in [1 .. 0 -> U]
  <2> QED
    BY <2>1
<1>2. ASSUME NEW n \in Nat, P(n) PROVE P(n + 1)
  <2> SUFFICES ASSUME NEW U \in SUBSET Nat, IsFiniteSet(U), Cardinality(U) = n + 1
               PROVE  \E q \in [1 .. n + 1 -> U] :
                          /\ \A i, j \in 1 .. n + 1 : i < j => q[i] < q[j]
                          /\ \A s \in U : \E i \in 1 .. n + 1 : q[i] = s
    OBVIOUS
  <2>1. U # {}
    BY FS_EmptySet
  <2>2. PICK x \in U : \A y \in U : x <= y
    BY <2>1, LeastNatural
  <2>3. IsFiniteSet(U \ {x}) /\ Cardinality(U \ {x}) = n
    <3>1. IsFiniteSet(U \ {x}) /\ Cardinality(U \ {x}) = Cardinality(U) - 1
      BY <2>2, FS_RemoveElement
    <3> QED
      BY <3>1
  <2>4. PICK q \in [1 .. n -> U \ {x}] :
                /\ \A i, j \in 1 .. n : i < j => q[i] < q[j]
                /\ \A s \in U \ {x} : \E i \in 1 .. n : q[i] = s
    BY <1>2, <2>3
  <2> DEFINE f == [i \in 1 .. n + 1 |-> IF i = 1 THEN x ELSE q[i - 1]]
  <2>5. f \in [1 .. n + 1 -> U]
    BY <2>4
  <2>6. ASSUME NEW i \in 1 .. n + 1, NEW j \in 1 .. n + 1, i < j PROVE f[i] < f[j]
    <3>1. f[j] = q[j - 1] /\ j - 1 \in 1 .. n
      BY <2>6
    <3>2. CASE i = 1
      <4>1. f[i] = x /\ q[j - 1] \in U /\ q[j - 1] # x
        BY <2>4, <3>1, <3>2
      <4>2. q[j - 1] \in Nat /\ x \in Nat /\ x <= q[j - 1]
        BY <2>2, <4>1
      <4> HIDE DEF f
      <4> QED
        BY <3>1, <4>1, <4>2
    <3>3. CASE i # 1
      <4>1. f[i] = q[i - 1] /\ i - 1 \in 1 .. n /\ i - 1 < j - 1
        BY <2>6, <3>3
      <4> QED
        BY <2>4, <3>1, <4>1
    <3> QED
      BY <3>2, <3>3
  <2>7. ASSUME NEW s \in U PROVE \E i \in 1 .. n + 1 : f[i] = s
    <3>1. CASE s = x
      BY <3>1
    <3>2. CASE s # x
      <4>1. PICK i \in 1 .. n : q[i] = s
        BY <2>4, <3>2
      <4>2. i + 1 \in 1 .. n + 1 /\ f[i + 1] = s
        BY <4>1
      <4> QED
        BY <4>2
    <3> QED
      BY <3>1, <3>2
  <2> QED
    BY <2>5, <2>6, <2>7
<1> HIDE DEF P
<1>3. \A n \in Nat : P(n)
  <2> DEFINE T == {i \in Nat : P(i)}
  <2>1. 0 \in T /\ \A i \in Nat : i \in T => i + 1 \in T
    BY <1>1, <1>2
  <2> HIDE DEF T
  <2>2. \A i \in Nat : i \in T
    BY <2>1, SetInduction
  <2> QED
    BY <2>2 DEF T
<1>4. Cardinality(S) \in Nat /\ P(Cardinality(S))
  BY <1>3, FS_CardinalityType
<1> QED
  BY <1>4 DEF P

-----------------------------------------------------------------------------
(* The loops of do_memory_scheduling. *)

\* What upTo of LoadsAdded is: the cores after each of the loads.
LoadRun(c, n, f) ==
    /\ f[0] = c
    /\ \A j \in 1 .. Len(program[n].load) : f[j] = AddLoad(f[j - 1], n, j)
    /\ LoadsAdded(c, n) = f[Len(program[n].load)]

LEMMA LoadsAddedSteps ==
    ASSUME NEW c, NEW n, Len(program[n].load) \in Nat
    PROVE  \E f : LoadRun(c, n, f)
<1> DEFINE L == Len(program[n].load)
           G(l, g) == g = [j \in 0 .. l |-> IF j = 0 THEN c ELSE AddLoad(g[j - 1], n, j)]
           T == {l \in Nat : \E g : G(l, g)}
<1>1. 0 \in T
  <2>1. G(0, [j \in 0 .. 0 |-> c])
    OBVIOUS
  <2> QED
    BY <2>1
<1>2. ASSUME NEW l \in Nat, l \in T PROVE l + 1 \in T
  <2>1. PICK g : G(l, g)
    BY <1>2
  <2> DEFINE h == [j \in 0 .. l + 1 |-> IF j = 0 THEN c ELSE AddLoad(g[j - 1], n, j)]
  <2>2. \A j \in 0 .. l : h[j] = g[j]
    BY <2>1
  <2>3. ASSUME NEW j \in 1 .. l + 1 PROVE h[j] = AddLoad(h[j - 1], n, j)
    <3>1. h[j] = AddLoad(g[j - 1], n, j)
      OBVIOUS
    <3> HIDE DEF h
    <3>2. h[j - 1] = g[j - 1]
      <4>1. j - 1 \in 0 .. l
        OBVIOUS
      <4> QED
        BY <2>2, <4>1, Zenon
    <3> QED
      BY <3>1, <3>2, Zenon
  <2>4. h[0] = c /\ h = [j \in 0 .. l + 1 |-> h[j]]
    OBVIOUS
  <2>5. G(l + 1, h)
    <3> HIDE DEF h
    <3>1. ASSUME NEW j \in 0 .. l + 1
          PROVE  h[j] = IF j = 0 THEN c ELSE AddLoad(h[j - 1], n, j)
      <4>1. CASE j = 0
        BY <2>4, <4>1
      <4>2. CASE j # 0
        <5>1. j \in 1 .. l + 1
          BY <4>2
        <5> QED
          BY <2>3, <4>2, <5>1, Zenon
      <4> QED
        BY <4>1, <4>2
    <3> QED
      BY <2>4, <3>1
  <2> HIDE DEF G, h
  <2>6. l + 1 \in Nat /\ \E z : G(l + 1, z)
    BY <2>5
  <2> QED
    BY <2>6
<1>3. \A l \in Nat : l \in T
  <2> HIDE DEF T
  <2> QED
    BY <1>1, <1>2, SetInduction
<1>4. \E g : G(L, g)
  BY <1>3
<1> DEFINE f == CHOOSE g : G(L, g)
<1>5. G(L, f)
  BY <1>4
<1>6. LoadsAdded(c, n) = f[L]
  BY DEF LoadsAdded
<1> HIDE DEF f
<1>7. f[0] = c /\ \A j \in 1 .. L : f[j] = AddLoad(f[j - 1], n, j)
  BY <1>5, SMTT(60)
<1> QED
  BY <1>6, <1>7 DEF LoadRun

\* What upTo of StoresAdded is: the cores after each of the stores.
StoreRun(c, n, f) ==
    /\ f[0] = c
    /\ \A k \in 1 .. Len(program[n].store) : f[k] = AddStore(f[k - 1], n, k)
    /\ StoresAdded(c, n) = f[Len(program[n].store)]

LEMMA StoresAddedSteps ==
    ASSUME NEW c, NEW n, Len(program[n].store) \in Nat
    PROVE  \E f : StoreRun(c, n, f)
<1> DEFINE L == Len(program[n].store)
           G(l, g) == g = [k \in 0 .. l |-> IF k = 0 THEN c ELSE AddStore(g[k - 1], n, k)]
           T == {l \in Nat : \E g : G(l, g)}
<1>1. 0 \in T
  <2>1. G(0, [k \in 0 .. 0 |-> c])
    OBVIOUS
  <2> QED
    BY <2>1
<1>2. ASSUME NEW l \in Nat, l \in T PROVE l + 1 \in T
  <2>1. PICK g : G(l, g)
    BY <1>2
  <2> DEFINE h == [k \in 0 .. l + 1 |-> IF k = 0 THEN c ELSE AddStore(g[k - 1], n, k)]
  <2>2. \A k \in 0 .. l : h[k] = g[k]
    BY <2>1
  <2>3. ASSUME NEW k \in 1 .. l + 1 PROVE h[k] = AddStore(h[k - 1], n, k)
    <3>1. h[k] = AddStore(g[k - 1], n, k)
      OBVIOUS
    <3> HIDE DEF h
    <3>2. h[k - 1] = g[k - 1]
      <4>1. k - 1 \in 0 .. l
        OBVIOUS
      <4> QED
        BY <2>2, <4>1, Zenon
    <3> QED
      BY <3>1, <3>2, Zenon
  <2>4. h[0] = c /\ h = [k \in 0 .. l + 1 |-> h[k]]
    OBVIOUS
  <2>5. G(l + 1, h)
    <3> HIDE DEF h
    <3>1. ASSUME NEW k \in 0 .. l + 1
          PROVE  h[k] = IF k = 0 THEN c ELSE AddStore(h[k - 1], n, k)
      <4>1. CASE k = 0
        BY <2>4, <4>1
      <4>2. CASE k # 0
        <5>1. k \in 1 .. l + 1
          BY <4>2
        <5> QED
          BY <2>3, <4>2, <5>1, Zenon
      <4> QED
        BY <4>1, <4>2
    <3> QED
      BY <2>4, <3>1
  <2> HIDE DEF G, h
  <2>6. l + 1 \in Nat /\ \E z : G(l + 1, z)
    BY <2>5
  <2> QED
    BY <2>6
<1>3. \A l \in Nat : l \in T
  <2> HIDE DEF T
  <2> QED
    BY <1>1, <1>2, SetInduction
<1>4. \E g : G(L, g)
  BY <1>3
<1> DEFINE f == CHOOSE g : G(L, g)
<1>5. G(L, f)
  BY <1>4
<1>6. StoresAdded(c, n) = f[L]
  BY DEF StoresAdded
<1> HIDE DEF f
<1>7. f[0] = c /\ \A k \in 1 .. L : f[k] = AddStore(f[k - 1], n, k)
  BY <1>5, SMTT(60)
<1> QED
  BY <1>6, <1>7 DEF StoreRun

-----------------------------------------------------------------------------
(* The records the core is made of. *)

CoreFields == {"rob", "LQ", "SQ", "RTL0", "RTL1", "RTS0", "RTS1", "STA",
               "ready_to_execute", "inflight_reg", "inflight_mem", "data"}

InstrFields == {"scheduled", "executed", "num_reg_dependent", "num_mem_ops",
                "source_added", "destination_added", "destination_memory",
                "registers_instrs_depend_on_me", "memory_instrs_depend_on_me",
                "lq_index", "sq_index"}

Shape(c) ==
    /\ DOMAIN c = CoreFields
    /\ DOMAIN c.rob = Ids /\ \A m \in Ids : DOMAIN c.rob[m] = InstrFields
    /\ DOMAIN c.LQ = LoadSlots /\ DOMAIN c.SQ = StoreSlots /\ DOMAIN c.data = Ids

\* d has the dependences through registers that c has, and at most n has begun to
\* enter the load and store queues in between.
SameRegisters(c, d, n) ==
    /\ Shape(d)
    /\ d.ready_to_execute = c.ready_to_execute /\ d.inflight_reg = c.inflight_reg
    /\ \A m \in Ids :
          /\ d.rob[m].scheduled = c.rob[m].scheduled
          /\ d.rob[m].executed = c.rob[m].executed
          /\ d.rob[m].num_reg_dependent = c.rob[m].num_reg_dependent
          /\ d.rob[m].registers_instrs_depend_on_me = c.rob[m].registers_instrs_depend_on_me
          /\ m # n => /\ d.rob[m].source_added = c.rob[m].source_added
                      /\ d.rob[m].destination_added = c.rob[m].destination_added

LEMMA SameRegistersTransitive ==
    ASSUME NEW c, NEW d, NEW e, NEW n, SameRegisters(c, d, n), SameRegisters(d, e, n)
    PROVE  SameRegisters(c, e, n)
BY DEF SameRegisters

\* How many members of ops are operations of m.
OverOf(ops, m) == Cardinality({op \in ops : op.instr = m})

\* The instructions of which ops are the last ones.
Finishing(c, ops) == {m \in Ids : OverOf(ops, m) > 0 /\ c.rob[m].num_mem_ops = OverOf(ops, m)}

LEMMA PerformedFields ==
    ASSUME NEW c, NEW ops, Shape(c)
    PROVE  /\ Shape(Performed(c, ops))
           /\ \A f \in CoreFields \ {"rob", "inflight_mem"} : Performed(c, ops)[f] = c[f]
           /\ \A m \in Ids : Performed(c, ops).rob[m] = [c.rob[m] EXCEPT !.num_mem_ops = @ - OverOf(ops, m)]
           /\ Performed(c, ops).inflight_mem = c.inflight_mem + Cardinality(Finishing(c, ops))
<1> DEFINE Over(m) == OverOf(ops, m)
           last == {m \in Ids : Over(m) > 0 /\ c.rob[m].num_mem_ops = Over(m)}
           R == [m \in Ids |-> [c.rob[m] EXCEPT !.num_mem_ops = @ - Over(m)]]
           M == c.inflight_mem + Cardinality(last)
           b == [c EXCEPT !.rob = R]
           d == Performed(c, ops)
<1>1. d = [b EXCEPT !.inflight_mem = M]
  <2>1. d = [c EXCEPT !.rob = R, !.inflight_mem = M]
    BY DEF Performed, OverOf
  <2> HIDE DEF R, M, d
  <2> QED
    BY <2>1 DEF Shape, CoreFields
<1>2. DOMAIN R = Ids /\ \A m \in Ids : R[m] = [c.rob[m] EXCEPT !.num_mem_ops = @ - Over(m)]
  OBVIOUS
<1> HIDE DEF R, M, d, Over, last
<1>3. /\ DOMAIN d = CoreFields /\ d.rob = R /\ d.inflight_mem = M
      /\ \A f \in CoreFields \ {"rob", "inflight_mem"} : d[f] = c[f]
  BY <1>1 DEF Shape, CoreFields
<1>4. d.LQ = c.LQ /\ d.SQ = c.SQ /\ d.data = c.data
  BY <1>3 DEF CoreFields
<1>5. \A m \in Ids : DOMAIN R[m] = InstrFields
  BY <1>2 DEF Shape
<1>6. Shape(d)
  BY <1>2, <1>3, <1>4, <1>5 DEF Shape
<1> QED
  BY <1>2, <1>3, <1>6 DEF d, Over, last, M, Finishing

LEMMA PerformedRegisters ==
    ASSUME NEW c, NEW ops, NEW n, Shape(c)
    PROVE  SameRegisters(c, Performed(c, ops), n)
<1> DEFINE d == Performed(c, ops)
<1>1. /\ Shape(d)
      /\ \A f \in CoreFields \ {"rob", "inflight_mem"} : d[f] = c[f]
      /\ \A m \in Ids : d.rob[m] = [c.rob[m] EXCEPT !.num_mem_ops = @ - OverOf(ops, m)]
  BY PerformedFields
<1> HIDE DEF d
<1>2. d.ready_to_execute = c.ready_to_execute /\ d.inflight_reg = c.inflight_reg
  BY <1>1 DEF CoreFields
<1>3. \A m \in Ids : DOMAIN c.rob[m] = InstrFields
  BY DEF Shape
<1> QED
  BY <1>1, <1>2, <1>3 DEF SameRegisters, InstrFields, d

LEMMA LoadedRegisters ==
    ASSUME NEW c, NEW slots, NEW value, NEW n, Shape(c)
    PROVE  SameRegisters(c, Loaded(c, slots, value), n)
<1> DEFINE ops == {[instr |-> c.LQ[s].instr, slot |-> s] : s \in slots}
           p == Performed(c, ops)
           d == Loaded(c, slots, value)
<1>1. SameRegisters(c, p, n)
  BY PerformedRegisters
<1> HIDE DEF ops
<1>2. /\ DOMAIN d = DOMAIN p /\ d.rob = p.rob /\ d.ready_to_execute = p.ready_to_execute
      /\ d.inflight_reg = p.inflight_reg /\ d.SQ = p.SQ
      /\ DOMAIN d.LQ = LoadSlots /\ DOMAIN d.data = Ids
  <2>1. DOMAIN p = CoreFields
    BY <1>1 DEF SameRegisters, Shape
  <2> HIDE DEF p
  <2> QED
    BY <2>1 DEF Loaded, CoreFields, ops, p
<1> HIDE DEF d, p
<1> QED
  BY <1>1, <1>2 DEF SameRegisters, Shape, d

LEMMA ForwardedRegisters ==
    ASSUME NEW c, NEW slots, NEW store, NEW n, Shape(c)
    PROVE  SameRegisters(c, Forwarded(c, slots, store), n)
BY LoadedRegisters, Zenon DEF Forwarded

-----------------------------------------------------------------------------
(* add_load_queue and add_store_queue, step by step. *)

\* The closest of the producers, 0 when there is none.
Closest(producers) == IF producers = {} THEN 0 ELSE CHOOSE m \in producers : \A l \in producers : l <= m

\* The core with the entry for source j of n in a slot of the load queue.
WithLoad(c, n, j, slot, producer) ==
    [c EXCEPT !.LQ[slot] = [instr |-> n, address |-> program[n].load[j], producer |-> producer],
              !.rob[n].source_added = @ \cup {j},
              !.rob[n].lq_index[j] = slot]

\* The core with n on the list of the producer.
WithDependent(c, n, producer) ==
    [c EXCEPT !.rob[producer].memory_instrs_depend_on_me = Append(@, n)]

WithStore(c, n, k, slot) ==
    [c EXCEPT !.SQ[slot] = [instr |-> n, address |-> program[n].store[k], fetched |-> FALSE],
              !.rob[n].destination_added = @ \cup {k},
              !.rob[n].sq_index[k] = slot,
              !.STA = Tail(@),
              !.RTS0 = Append(@, slot)]

LEMMA AddLoadCases ==
    ASSUME NEW c, NEW n, NEW j
    PROVE  \/ AddLoad(c, n, j) = c /\ (j \in c.rob[n].source_added \/ AllValid(c.LQ))
           \/ /\ j \notin c.rob[n].source_added /\ ~ AllValid(c.LQ)
              /\ LET a == program[n].load[j]
                     slot == FreeSlot(c.LQ)
                     producer == Closest(StoreProducers(c, n, a))
                     added == WithLoad(c, n, j, slot, producer)
                     waiting == WithDependent(added, n, producer)
                 IN  \/ producer = 0 /\ AddLoad(c, n, j) = [added EXCEPT !.RTL0 = Append(@, slot)]
                     \/ /\ producer # 0 /\ WillForward(c, producer, a)
                        /\ AddLoad(c, n, j) = Forwarded(waiting, {slot}, producer)
                     \/ producer # 0 /\ ~ WillForward(c, producer, a) /\ AddLoad(c, n, j) = waiting
BY ZenonT(60) DEF AddLoad, Closest, WithLoad, WithDependent

LEMMA AddStoreCases ==
    ASSUME NEW c, NEW n, NEW k
    PROVE  \/ AddStore(c, n, k) = c /\ (k \in c.rob[n].destination_added \/ AllValid(c.SQ) \/ ~ HasTurn(c, n))
           \/ /\ k \notin c.rob[n].destination_added /\ ~ AllValid(c.SQ)
              /\ AddStore(c, n, k) = WithStore(c, n, k, FreeSlot(c.SQ))
BY DEF AddStore, WithStore

\* d is c with the entry for source j of n in a slot of the load queue.
LoadEntered(c, d, n, j, slot, producer) ==
    /\ Shape(d)
    /\ \A f \in CoreFields \ {"rob", "LQ"} : d[f] = c[f]
    /\ d.LQ = [c.LQ EXCEPT ![slot] = [instr |-> n, address |-> program[n].load[j], producer |-> producer]]
    /\ \A m \in Ids : m # n => d.rob[m] = c.rob[m]
    /\ d.rob[n].source_added = c.rob[n].source_added \cup {j}
    /\ d.rob[n].lq_index = [c.rob[n].lq_index EXCEPT ![j] = slot]
    /\ \A f \in InstrFields \ {"source_added", "lq_index"} : d.rob[n][f] = c.rob[n][f]

LEMMA WithLoadFields ==
    ASSUME NEW c, NEW n \in Ids, NEW j, NEW slot, NEW producer, Shape(c)
    PROVE  LoadEntered(c, WithLoad(c, n, j, slot, producer), n, j, slot, producer)
<1> DEFINE L == [c.LQ EXCEPT ![slot] = [instr |-> n, address |-> program[n].load[j], producer |-> producer]]
           S == c.rob[n].source_added \cup {j}
           x == [c.rob[n].lq_index EXCEPT ![j] = slot]
           i == [[c.rob[n] EXCEPT !.source_added = S] EXCEPT !.lq_index = x]
           R == [c.rob EXCEPT ![n] = i]
           d == WithLoad(c, n, j, slot, producer)
<1>1. d = [[c EXCEPT !.LQ = L] EXCEPT !.rob = R]
  <2>1. /\ "LQ" \in DOMAIN c /\ "rob" \in DOMAIN c /\ n \in DOMAIN c.rob
        /\ "source_added" \in DOMAIN c.rob[n] /\ "lq_index" \in DOMAIN c.rob[n]
    BY DEF Shape, CoreFields, InstrFields
  <2> QED
    BY <2>1 DEF WithLoad
<1>2. /\ DOMAIN R = Ids /\ R[n] = i /\ \A m \in Ids : m # n => R[m] = c.rob[m]
  BY DEF Shape
<1>3. /\ DOMAIN i = InstrFields /\ i.source_added = S /\ i.lq_index = x
      /\ \A f \in InstrFields \ {"source_added", "lq_index"} : i[f] = c.rob[n][f]
  BY DEF Shape, InstrFields
<1>4. DOMAIN L = LoadSlots
  BY DEF Shape
<1> HIDE DEF L, S, x, i, R, d
<1>5. /\ DOMAIN d = CoreFields /\ d.LQ = L /\ d.rob = R
      /\ \A f \in CoreFields \ {"rob", "LQ"} : d[f] = c[f]
  BY <1>1 DEF Shape, CoreFields
<1>6. d.SQ = c.SQ /\ d.data = c.data
  BY <1>5 DEF CoreFields
<1>7. Shape(d)
  BY <1>2, <1>3, <1>4, <1>5, <1>6 DEF Shape
<1> QED
  BY <1>2, <1>3, <1>5, <1>7 DEF d, L, S, x, LoadEntered

\* d is c with n on the list of p.
DependentEntered(c, d, n, p) ==
    /\ Shape(d)
    /\ \A f \in CoreFields \ {"rob"} : d[f] = c[f]
    /\ \A m \in Ids : m # p => d.rob[m] = c.rob[m]
    /\ d.rob[p].memory_instrs_depend_on_me = Append(c.rob[p].memory_instrs_depend_on_me, n)
    /\ \A f \in InstrFields \ {"memory_instrs_depend_on_me"} : d.rob[p][f] = c.rob[p][f]

LEMMA WithDependentFields ==
    ASSUME NEW c, NEW n, NEW p \in Ids, Shape(c)
    PROVE  DependentEntered(c, WithDependent(c, n, p), n, p)
<1> DEFINE q == Append(c.rob[p].memory_instrs_depend_on_me, n)
           i == [c.rob[p] EXCEPT !.memory_instrs_depend_on_me = q]
           R == [c.rob EXCEPT ![p] = i]
           d == WithDependent(c, n, p)
<1>1. d = [c EXCEPT !.rob = R]
  BY DEF WithDependent, Shape, CoreFields, InstrFields
<1>2. /\ DOMAIN R = Ids /\ R[p] = i /\ \A m \in Ids : m # p => R[m] = c.rob[m]
  BY DEF Shape
<1>3. /\ DOMAIN i = InstrFields /\ i.memory_instrs_depend_on_me = q
      /\ \A f \in InstrFields \ {"memory_instrs_depend_on_me"} : i[f] = c.rob[p][f]
  BY DEF Shape, InstrFields
<1> HIDE DEF q, i, R, d
<1>4. /\ DOMAIN d = CoreFields /\ d.rob = R
      /\ \A f \in CoreFields \ {"rob"} : d[f] = c[f]
  BY <1>1 DEF Shape, CoreFields
<1>5. d.SQ = c.SQ /\ d.data = c.data /\ d.LQ = c.LQ
  BY <1>4 DEF CoreFields
<1>6. Shape(d)
  BY <1>2, <1>3, <1>4, <1>5 DEF Shape
<1> QED
  BY <1>2, <1>3, <1>4, <1>6 DEF d, q, DependentEntered

\* d is c with the entry for destination k of n in a slot of the store queue.
StoreEntered(c, d, n, k, slot) ==
    /\ Shape(d)
    /\ \A f \in CoreFields \ {"rob", "SQ", "STA", "RTS0"} : d[f] = c[f]
    /\ d.SQ = [c.SQ EXCEPT ![slot] = [instr |-> n, address |-> program[n].store[k], fetched |-> FALSE]]
    /\ d.RTS0 = Append(c.RTS0, slot)
    /\ \A m \in Ids : m # n => d.rob[m] = c.rob[m]
    /\ d.rob[n].destination_added = c.rob[n].destination_added \cup {k}
    /\ d.rob[n].sq_index = [c.rob[n].sq_index EXCEPT ![k] = slot]
    /\ \A f \in InstrFields \ {"destination_added", "sq_index"} : d.rob[n][f] = c.rob[n][f]

LEMMA WithStoreFields ==
    ASSUME NEW c, NEW n \in Ids, NEW k, NEW slot, Shape(c)
    PROVE  StoreEntered(c, WithStore(c, n, k, slot), n, k, slot)
<1> DEFINE L == [c.SQ EXCEPT ![slot] = [instr |-> n, address |-> program[n].store[k], fetched |-> FALSE]]
           S == c.rob[n].destination_added \cup {k}
           x == [c.rob[n].sq_index EXCEPT ![k] = slot]
           i == [[c.rob[n] EXCEPT !.destination_added = S] EXCEPT !.sq_index = x]
           R == [c.rob EXCEPT ![n] = i]
           t == Tail(c.STA)
           q == Append(c.RTS0, slot)
           d == WithStore(c, n, k, slot)
<1>1. d = [[[[c EXCEPT !.SQ = L] EXCEPT !.rob = R] EXCEPT !.STA = t] EXCEPT !.RTS0 = q]
  <2>1. /\ "SQ" \in DOMAIN c /\ "rob" \in DOMAIN c /\ n \in DOMAIN c.rob
        /\ "STA" \in DOMAIN c /\ "RTS0" \in DOMAIN c
        /\ "destination_added" \in DOMAIN c.rob[n] /\ "sq_index" \in DOMAIN c.rob[n]
    BY DEF Shape, CoreFields, InstrFields
  <2> QED
    BY <2>1, ZenonT(60) DEF WithStore
<1>2. /\ DOMAIN R = Ids /\ R[n] = i /\ \A m \in Ids : m # n => R[m] = c.rob[m]
  BY DEF Shape
<1>3. /\ DOMAIN i = InstrFields /\ i.destination_added = S /\ i.sq_index = x
      /\ \A f \in InstrFields \ {"destination_added", "sq_index"} : i[f] = c.rob[n][f]
  BY DEF Shape, InstrFields
<1>4. DOMAIN L = StoreSlots
  BY DEF Shape
<1> HIDE DEF L, S, x, i, R, t, q, d
<1>5. /\ DOMAIN d = CoreFields /\ d.SQ = L /\ d.rob = R /\ d.RTS0 = q
      /\ \A f \in CoreFields \ {"rob", "SQ", "STA", "RTS0"} : d[f] = c[f]
  BY <1>1 DEF Shape, CoreFields
<1>6. d.LQ = c.LQ /\ d.data = c.data
  BY <1>5 DEF CoreFields
<1>7. Shape(d)
  BY <1>2, <1>3, <1>4, <1>5, <1>6 DEF Shape
<1> QED
  BY <1>2, <1>3, <1>5, <1>7 DEF d, L, S, x, q, StoreEntered

-----------------------------------------------------------------------------
(* The trace, and the order of the boundaries between the stages. *)

Order ==
    /\ program \in Seq(Instruction) /\ Len(program) <= MaxLength
    /\ {retired, dispatched, decoded, decoding, read} \subseteq Nat
    /\ retired <= dispatched /\ dispatched <= decoded /\ decoded <= decoding
    /\ decoding <= read /\ read <= Len(program)

LEMMA RobInTrace ==
    ASSUME Order
    PROVE  /\ ROB \subseteq Ids /\ ROB \subseteq 1 .. Len(program) /\ Ids \subseteq Nat
           /\ IsFiniteSet(ROB) /\ IsFiniteSet(Ids)
           /\ \A m : m \in ROB <=> m \in Nat /\ retired < m /\ m <= dispatched
<1>1. MaxLength \in Nat /\ Len(program) \in Nat
  BY SizeAssumption DEF Order
<1>2. IsFiniteSet(retired + 1 .. dispatched) /\ IsFiniteSet(1 .. MaxLength)
  <2>1. retired + 1 \in Int /\ dispatched \in Int /\ 1 \in Int /\ MaxLength \in Int
    BY <1>1 DEF Order
  <2> QED
    BY <2>1, FS_Interval
<1> QED
  BY <1>1, <1>2 DEF Order, ROB, Ids

LEMMA EarlierInRob ==
    ASSUME Order, NEW n \in ROB, NEW m \in 1 .. n - 1
    PROVE  m <= retired \/ m \in ROB
<1>1. /\ n \in Nat /\ n <= dispatched
      /\ \A k : k \in ROB <=> k \in Nat /\ retired < k /\ k <= dispatched
  BY RobInTrace
<1>2. m \in Nat /\ m <= dispatched
  BY <1>1 DEF Order
<1> QED
  BY <1>1, <1>2 DEF Order

LEMMA InstructionInTrace ==
    ASSUME Order, NEW n \in 1 .. Len(program)
    PROVE  /\ program[n] \in Instruction
           /\ program[n].load \in Seq(Address) /\ program[n].store \in Seq(Address)
           /\ Len(program[n].load) \in Nat /\ Len(program[n].store) \in Nat
           /\ Loads(n) = 1 .. Len(program[n].load) /\ StoresOf(n) = 1 .. Len(program[n].store)
<1>1. program[n] \in Instruction
  BY DEF Order
<1> QED
  BY <1>1 DEF Instruction, Loads, StoresOf

LEMMA ClosestIsLast ==
    ASSUME NEW N \in Nat, NEW S \in SUBSET (1 .. N)
    PROVE  /\ S = {} => Closest(S) = 0
           /\ S # {} => Closest(S) \in S /\ Closest(S) # 0 /\ \A l \in S : l <= Closest(S)
<1>1. CASE S = {}
  BY <1>1 DEF Closest
<1>2. CASE S # {}
  <2> DEFINE T == {N - m : m \in S}
  <2>1. T \in SUBSET Nat /\ T # {}
    <3>1. \A m \in S : N - m \in Nat
      OBVIOUS
    <3>2. PICK m \in S : TRUE
      BY <1>2
    <3>3. N - m \in T
      BY <3>2
    <3> QED
      BY <3>1, <3>3
  <2>2. PICK t \in T : \A u \in T : t <= u
    BY <2>1, LeastNatural
  <2>3. PICK m \in S : t = N - m
    BY <2>2
  <2>4. \A l \in S : N - l \in T /\ t <= N - l
    BY <2>2
  <2>5. \A l \in S : l <= m
    BY <2>3, <2>4
  <2>6. Closest(S) \in S /\ \A l \in S : l <= Closest(S)
    BY <1>2, <2>5 DEF Closest
  <2> QED
    BY <1>2, <2>6
<1> QED
  BY <1>1, <1>2

\* The store a load waits for is earlier, and no later one before the load names the address.
LEMMA ProducerIsEarlier ==
    ASSUME Order, NEW c, NEW n, NEW a
    PROVE  LET p == Closest(StoreProducers(c, n, a)) IN
           /\ p = 0 <=> StoreProducers(c, n, a) = {}
           /\ p # 0 => p \in StoreProducers(c, n, a) /\ p \in ROB /\ p \in Ids /\ p < n
           /\ \A l \in StoreProducers(c, n, a) : l <= p
<1> DEFINE S == StoreProducers(c, n, a)
           p == Closest(S)
<1>1. S \subseteq ROB /\ \A l \in S : l < n
  BY DEF StoreProducers
<1> HIDE DEF S
<1>2. S \in SUBSET (1 .. MaxLength) /\ MaxLength \in Nat
  BY <1>1, RobInTrace, SizeAssumption DEF Ids
<1>3. /\ S = {} => p = 0
      /\ S # {} => p \in S /\ p # 0 /\ \A l \in S : l <= p
  BY <1>2, ClosestIsLast
<1> HIDE DEF p
<1>4. p = 0 <=> S = {}
  BY <1>3
<1>5. p # 0 => p \in S /\ p \in ROB /\ p \in Ids /\ p < n
  BY <1>1, <1>3, RobInTrace
<1>6. \A l \in S : l <= p
  BY <1>3
<1> QED
  BY <1>4, <1>5, <1>6 DEF S, p

LEMMA AddLoadRegisters ==
    ASSUME Order, NEW c, NEW n \in Ids, NEW j, Shape(c)
    PROVE  SameRegisters(c, AddLoad(c, n, j), n)
<1> DEFINE a == program[n].load[j]
           slot == FreeSlot(c.LQ)
           p == Closest(StoreProducers(c, n, a))
           added == WithLoad(c, n, j, slot, p)
           waiting == WithDependent(added, n, p)
<1>1. CASE AddLoad(c, n, j) = c
  BY <1>1 DEF SameRegisters
<1>2. SameRegisters(c, added, n)
  <2>0. LoadEntered(c, added, n, j, slot, p)
    BY WithLoadFields
  <2> HIDE DEF added, slot, p
  <2>1. /\ Shape(added)
        /\ \A f \in CoreFields \ {"rob", "LQ"} : added[f] = c[f]
        /\ \A m \in Ids : m # n => added.rob[m] = c.rob[m]
        /\ \A f \in InstrFields \ {"source_added", "lq_index"} : added.rob[n][f] = c.rob[n][f]
    BY <2>0 DEF LoadEntered
  <2>2. added.ready_to_execute = c.ready_to_execute /\ added.inflight_reg = c.inflight_reg
    BY <2>1 DEF CoreFields
  <2>3. /\ added.rob[n].scheduled = c.rob[n].scheduled
        /\ added.rob[n].executed = c.rob[n].executed
        /\ added.rob[n].num_reg_dependent = c.rob[n].num_reg_dependent
        /\ added.rob[n].registers_instrs_depend_on_me = c.rob[n].registers_instrs_depend_on_me
    BY <2>1, SMTT(60) DEF InstrFields
  <2> QED
    BY <2>1, <2>2, <2>3 DEF SameRegisters
<1>3. Shape(added)
  BY <1>2 DEF SameRegisters
<1>4. CASE p = 0 /\ AddLoad(c, n, j) = [added EXCEPT !.RTL0 = Append(@, slot)]
  <2>1. SameRegisters(added, [added EXCEPT !.RTL0 = Append(@, slot)], n)
    <3> HIDE DEF added, slot
    <3> QED
      BY <1>3 DEF SameRegisters, Shape, CoreFields
  <2> HIDE DEF added
  <2> QED
    BY <1>2, <1>4, <2>1, SameRegistersTransitive
<1>5. CASE p # 0
  <2>1. p \in Ids
    BY <1>5, ProducerIsEarlier
  <2> HIDE DEF p
  <2>2. /\ Shape(waiting)
        /\ \A f \in CoreFields \ {"rob"} : waiting[f] = added[f]
        /\ \A m \in Ids : m # p => waiting.rob[m] = added.rob[m]
        /\ \A f \in InstrFields \ {"memory_instrs_depend_on_me"} : waiting.rob[p][f] = added.rob[p][f]
    BY <1>3, <2>1, WithDependentFields DEF DependentEntered
  <2> HIDE DEF waiting, added
  <2>3. waiting.ready_to_execute = added.ready_to_execute /\ waiting.inflight_reg = added.inflight_reg
    BY <2>2 DEF CoreFields
  <2>4. /\ waiting.rob[p].scheduled = added.rob[p].scheduled
        /\ waiting.rob[p].executed = added.rob[p].executed
        /\ waiting.rob[p].num_reg_dependent = added.rob[p].num_reg_dependent
        /\ waiting.rob[p].registers_instrs_depend_on_me = added.rob[p].registers_instrs_depend_on_me
        /\ waiting.rob[p].source_added = added.rob[p].source_added
        /\ waiting.rob[p].destination_added = added.rob[p].destination_added
    BY <2>2 DEF InstrFields
  <2>5. SameRegisters(added, waiting, n)
    BY <2>2, <2>3, <2>4 DEF SameRegisters
  <2>6. SameRegisters(c, waiting, n)
    BY <1>2, <2>5, SameRegistersTransitive
  <2>7. SameRegisters(waiting, Forwarded(waiting, {slot}, p), n)
    BY <2>2, ForwardedRegisters
  <2>8. SameRegisters(c, Forwarded(waiting, {slot}, p), n)
    BY <2>6, <2>7, SameRegistersTransitive
  <2>9. \/ AddLoad(c, n, j) = c \/ AddLoad(c, n, j) = waiting
        \/ AddLoad(c, n, j) = Forwarded(waiting, {slot}, p)
    BY <1>5, AddLoadCases DEF p, waiting, added
  <2> QED
    BY <1>1, <2>6, <2>8, <2>9
<1>6. \/ AddLoad(c, n, j) = c \/ p # 0
      \/ p = 0 /\ AddLoad(c, n, j) = [added EXCEPT !.RTL0 = Append(@, slot)]
  BY AddLoadCases
<1> QED
  BY <1>1, <1>4, <1>5, <1>6

LEMMA AddStoreRegisters ==
    ASSUME NEW c, NEW n \in Ids, NEW k, Shape(c)
    PROVE  SameRegisters(c, AddStore(c, n, k), n)
<1> DEFINE slot == FreeSlot(c.SQ)
           d == WithStore(c, n, k, slot)
<1>1. CASE AddStore(c, n, k) = c
  BY <1>1 DEF SameRegisters
<1>2. SameRegisters(c, d, n)
  <2>0. StoreEntered(c, d, n, k, slot)
    BY WithStoreFields
  <2> HIDE DEF d, slot
  <2>1. /\ Shape(d)
        /\ \A f \in CoreFields \ {"rob", "SQ", "STA", "RTS0"} : d[f] = c[f]
        /\ \A m \in Ids : m # n => d.rob[m] = c.rob[m]
        /\ \A f \in InstrFields \ {"destination_added", "sq_index"} : d.rob[n][f] = c.rob[n][f]
    BY <2>0 DEF StoreEntered
  <2>2. d.ready_to_execute = c.ready_to_execute /\ d.inflight_reg = c.inflight_reg
    BY <2>1 DEF CoreFields
  <2>3. /\ d.rob[n].scheduled = c.rob[n].scheduled
        /\ d.rob[n].executed = c.rob[n].executed
        /\ d.rob[n].num_reg_dependent = c.rob[n].num_reg_dependent
        /\ d.rob[n].registers_instrs_depend_on_me = c.rob[n].registers_instrs_depend_on_me
    BY <2>1 DEF InstrFields
  <2> QED
    BY <2>1, <2>2, <2>3 DEF SameRegisters
<1> QED
  BY <1>1, <1>2, AddStoreCases

LEMMA LoadsAddedRegisters ==
    ASSUME Order, NEW c, NEW n \in ROB, Shape(c)
    PROVE  SameRegisters(c, LoadsAdded(c, n), n)
<1>1. n \in Ids /\ n \in 1 .. Len(program)
  BY RobInTrace
<1>2. Len(program[n].load) \in Nat
  BY <1>1, InstructionInTrace
<1>0. PICK f : LoadRun(c, n, f)
  BY <1>2, LoadsAddedSteps
<1>3. /\ f[0] = c
      /\ \A j \in 1 .. Len(program[n].load) : f[j] = AddLoad(f[j - 1], n, j)
      /\ LoadsAdded(c, n) = f[Len(program[n].load)]
  BY <1>0 DEF LoadRun
<1> DEFINE L == Len(program[n].load)
<1> DEFINE S == {i \in Nat : i <= L => SameRegisters(c, f[i], n)}
<1>4. 0 \in S
  BY <1>3 DEF SameRegisters
<1>5. ASSUME NEW i \in Nat, i \in S PROVE i + 1 \in S
  <2> SUFFICES ASSUME i + 1 <= L PROVE SameRegisters(c, f[i + 1], n)
    OBVIOUS
  <2>1. SameRegisters(c, f[i], n)
    BY <1>2, <1>5
  <2>2. i + 1 \in 1 .. L /\ (i + 1) - 1 = i
    BY <1>2
  <2>3. f[i + 1] = AddLoad(f[i], n, i + 1)
    BY <1>3, <2>2
  <2>4. Shape(f[i])
    BY <2>1 DEF SameRegisters
  <2> HIDE DEF L, S
  <2>5. SameRegisters(f[i], f[i + 1], n)
    BY <1>1, <2>3, <2>4, AddLoadRegisters
  <2> QED
    BY <2>1, <2>5, SameRegistersTransitive
<1>6. L \in S
  <2> HIDE DEF S
  <2> QED
    BY <1>2, <1>4, <1>5, SetInduction
<1> QED
  BY <1>2, <1>3, <1>6

LEMMA StoresAddedRegisters ==
    ASSUME Order, NEW c, NEW n \in ROB, Shape(c)
    PROVE  SameRegisters(c, StoresAdded(c, n), n)
<1>1. n \in Ids /\ n \in 1 .. Len(program)
  BY RobInTrace
<1>2. Len(program[n].store) \in Nat
  BY <1>1, InstructionInTrace
<1>0. PICK f : StoreRun(c, n, f)
  BY <1>2, StoresAddedSteps
<1>3. /\ f[0] = c
      /\ \A k \in 1 .. Len(program[n].store) : f[k] = AddStore(f[k - 1], n, k)
      /\ StoresAdded(c, n) = f[Len(program[n].store)]
  BY <1>0 DEF StoreRun
<1> DEFINE L == Len(program[n].store)
<1> DEFINE S == {i \in Nat : i <= L => SameRegisters(c, f[i], n)}
<1>4. 0 \in S
  BY <1>3 DEF SameRegisters
<1>5. ASSUME NEW i \in Nat, i \in S PROVE i + 1 \in S
  <2> SUFFICES ASSUME i + 1 <= L PROVE SameRegisters(c, f[i + 1], n)
    OBVIOUS
  <2>1. SameRegisters(c, f[i], n)
    BY <1>2, <1>5
  <2>2. i + 1 \in 1 .. L /\ (i + 1) - 1 = i
    BY <1>2
  <2>3. f[i + 1] = AddStore(f[i], n, i + 1)
    BY <1>3, <2>2
  <2>4. Shape(f[i])
    BY <2>1 DEF SameRegisters
  <2> HIDE DEF L, S
  <2>5. SameRegisters(f[i], f[i + 1], n)
    BY <1>1, <2>3, <2>4, AddStoreRegisters
  <2> QED
    BY <2>1, <2>5, SameRegistersTransitive
<1>6. L \in S
  <2> HIDE DEF S
  <2> QED
    BY <1>2, <1>4, <1>5, SetInduction
<1> QED
  BY <1>2, <1>3, <1>6

\* d is c after n has entered operations in the queues, and perhaps all of them.
MemoryEntered(c, d, n) ==
    /\ Shape(d)
    /\ d.ready_to_execute = c.ready_to_execute /\ d.inflight_reg = c.inflight_reg
    /\ \A m \in Ids :
          /\ d.rob[m].num_reg_dependent = c.rob[m].num_reg_dependent
          /\ d.rob[m].registers_instrs_depend_on_me = c.rob[m].registers_instrs_depend_on_me
          /\ \/ d.rob[m].scheduled = c.rob[m].scheduled
             \/ m = n /\ d.rob[m].scheduled = COMPLETED
          /\ \/ d.rob[m].executed = c.rob[m].executed
             \/ m = n /\ c.rob[m].executed = None /\ d.rob[m].executed = INFLIGHT
          /\ m # n => /\ d.rob[m].source_added = c.rob[m].source_added
                      /\ d.rob[m].destination_added = c.rob[m].destination_added

LEMMA MemoryScheduledRegisters ==
    ASSUME Order, NEW c, NEW n \in ROB, Shape(c)
    PROVE  MemoryEntered(c, MemoryScheduled(c, n), n)
<1> DEFINE e == LoadsAdded(c, n)
           d == StoresAdded(e, n)
           done == d.rob[n].source_added = Loads(n) /\ d.rob[n].destination_added = StoresOf(n)
           z == MemoryScheduled(c, n)
<1>1. SameRegisters(c, e, n) /\ Shape(e)
  BY LoadsAddedRegisters DEF SameRegisters
<1>2. SameRegisters(c, d, n) /\ Shape(d)
  <2> HIDE DEF e
  <2>1. SameRegisters(e, d, n)
    BY <1>1, StoresAddedRegisters
  <2> HIDE DEF d
  <2> QED
    BY <1>1, <2>1, SameRegistersTransitive DEF SameRegisters
<1>3. \/ ~ done /\ z = d
      \/ done /\ z = [d EXCEPT !.rob[n].scheduled = COMPLETED,
                               !.rob[n].executed = IF @ = None THEN INFLIGHT ELSE @]
  BY DEF MemoryScheduled
<1>4. n \in Ids
  BY RobInTrace
<1> HIDE DEF done, z, d, e
<1>5. CASE z = d
  BY <1>2, <1>5 DEF SameRegisters, MemoryEntered, z
<1>6. CASE z = [d EXCEPT !.rob[n].scheduled = COMPLETED,
                         !.rob[n].executed = IF @ = None THEN INFLIGHT ELSE @]
  <2> DEFINE x == IF d.rob[n].executed = None THEN INFLIGHT ELSE d.rob[n].executed
             i == [[d.rob[n] EXCEPT !.scheduled = COMPLETED] EXCEPT !.executed = x]
             R == [d.rob EXCEPT ![n] = i]
  <2>1. z = [d EXCEPT !.rob = R]
    <3>1. /\ "rob" \in DOMAIN d /\ n \in DOMAIN d.rob
          /\ "scheduled" \in DOMAIN d.rob[n] /\ "executed" \in DOMAIN d.rob[n]
      BY <1>2, <1>4 DEF Shape, CoreFields, InstrFields
    <3> QED
      BY <1>6, <3>1
  <2>2. DOMAIN R = Ids /\ R[n] = i /\ \A m \in Ids : m # n => R[m] = d.rob[m]
    BY <1>2, <1>4 DEF Shape
  <2>3. /\ DOMAIN i = InstrFields /\ i.scheduled = COMPLETED /\ i.executed = x
        /\ \A f \in InstrFields \ {"scheduled", "executed"} : i[f] = d.rob[n][f]
    BY <1>2, <1>4 DEF Shape, InstrFields
  <2> HIDE DEF i, R
  <2>4. /\ i.num_reg_dependent = d.rob[n].num_reg_dependent
        /\ i.registers_instrs_depend_on_me = d.rob[n].registers_instrs_depend_on_me
    BY <2>3 DEF InstrFields
  <2>5. /\ DOMAIN z = CoreFields /\ z.rob = R
        /\ \A f \in CoreFields \ {"rob"} : z[f] = d[f]
    BY <1>2, <2>1 DEF Shape, CoreFields
  <2>6. /\ z.LQ = d.LQ /\ z.SQ = d.SQ /\ z.data = d.data
        /\ z.ready_to_execute = d.ready_to_execute /\ z.inflight_reg = d.inflight_reg
    BY <2>5 DEF CoreFields
  <2>7. \A m \in Ids : DOMAIN R[m] = InstrFields
    BY <1>2, <2>2, <2>3 DEF Shape
  <2>8. Shape(z)
    BY <1>2, <2>2, <2>5, <2>6, <2>7 DEF Shape
  <2>9. MemoryEntered(c, z, n)
    BY <1>2, <1>4, <2>2, <2>3, <2>4, <2>5, <2>6, <2>8 DEF SameRegisters, MemoryEntered
  <2> QED
    BY <2>9 DEF z
<1> QED
  BY <1>3, <1>5, <1>6

-----------------------------------------------------------------------------
(* Registers: what the dependences do_scheduling records are worth. *)

Dependents(p) == core.rob[p].registers_instrs_depend_on_me

\* The instructions whose results n waits for.
Awaited(n) == {p \in ROB : core.rob[p].executed # COMPLETED /\ n \in Dependents(p)}

\* Those who wait come later and have been scheduled.
DependentsLater ==
    \A p \in ROB : \A n \in Dependents(p) : n \in ROB /\ p < n /\ core.rob[n].scheduled # None

CountsAwaited == \A n \in ROB : core.rob[n].num_reg_dependent = Cardinality(Awaited(n))

BegunFree ==
    \A n \in ROB : Begun(n) => core.rob[n].num_reg_dependent = 0 /\ core.rob[n].scheduled # None

ReadyOnce ==
    LET ready == core.ready_to_execute
    IN  /\ ready \in Seq(ROB)
        /\ \A i, j \in 1 .. Len(ready) : i # j => ready[i] # ready[j]
        /\ \A n \in Range(ready) : ~IsMemory(n) /\ core.rob[n].executed = None

LastWriter(n, reg, m) ==
    /\ m \in 1 .. n - 1 /\ reg \in DestinationRegisters(m)
    /\ \A l \in 1 .. n - 1 : reg \in DestinationRegisters(l) => l <= m

\* A scheduled instruction waits for whoever was to write what it reads.
WritersAwaited ==
    \A n \in ROB : core.rob[n].scheduled # None =>
        \A reg \in SourceRegisters(n) : \A m \in 1 .. n - 1 :
            LastWriter(n, reg, m) => \/ m <= retired
                                     \/ core.rob[m].executed = COMPLETED
                                     \/ n \in Dependents(m)

Registers ==
    /\ Order /\ Shape(core)
    /\ DependentsLater /\ CountsAwaited /\ BegunFree /\ ReadyOnce /\ WritersAwaited

-----------------------------------------------------------------------------
(* Mispredictions. *)

Unresolved(n) == n \in mispredicted /\ (n > dispatched \/ core.rob[n].executed # COMPLETED)

Mispredictions ==
    /\ mispredicted \subseteq retired + 1 .. read
    /\ \A n \in mispredicted : Unresolved(n) => read = n /\ fetch_stall
    /\ resume => fetch_stall /\ \A n \in mispredicted : ~ Unresolved(n)

LEMMA OrderInit == Init => Order
<1> SUFFICES ASSUME Init PROVE Order
  OBVIOUS
<1>1. PICK t \in Traces : program = t.code
  BY DEF Init, FetchInit
<1>2. program \in Seq(Instruction) /\ Len(program) <= MaxLength /\ Len(program) \in Nat
  BY <1>1, TraceAssumption
<1>3. retired = 0 /\ dispatched = 0 /\ decoded = 0 /\ decoding = 0 /\ read = 0
  BY ZenonT(60) DEF Init, FetchInit
<1> QED
  BY <1>2, <1>3 DEF Order

LEMMA OrderStep == Order /\ [Next]_vars => Order'
<1> SUFFICES ASSUME Order, [Next]_vars PROVE Order'
  OBVIOUS
<1> USE DEF Order
<1>1. CASE UNCHANGED <<program, read, decoding, decoded, dispatched, retired>>
  BY <1>1, ZenonT(60)
<1>2. CASE Fetch
  <2>1. CASE InitInstruction
    BY <1>2, <2>1 DEF Fetch, InitInstruction
  <2>2. CASE PromoteToDecode
    BY <1>2, <2>2 DEF Fetch, PromoteToDecode, Buffered
  <2>3. CASE DecodeInstruction
    BY <1>2, <2>3 DEF Fetch, DecodeInstruction
  <2>4. CASE UNCHANGED <<program, read, decoding, decoded>>
    BY <1>2, <2>4 DEF Fetch
  <2> QED
    BY <1>2, <2>1, <2>2, <2>3, <2>4
    DEF Fetch, FetchNext, CheckDib, TranslateFetch, Translated, FetchInstruction, Fetched, ResumeFetch
<1>3. CASE Dispatch
  BY <1>3 DEF Dispatch, fetchVars
<1>4. CASE Retire
  <2>1. retired' = retired \/ retired' = retired + 1
    BY <1>4 DEF Retire
  <2>2. retired + 1 <= dispatched
    BY <1>4 DEF Retire, ROB
  <2> QED
    BY <1>4, <2>1, <2>2 DEF Retire
<1> QED
  BY <1>1, <1>2, <1>3, <1>4, Zenon
  DEF Next, Schedule, Execute, ScheduleMemory, TranslateStore, TranslateLoad, DataTranslated, ExecuteStore,
      ExecuteLoad, DataReturned, Complete, fetchVars, backVars, vars

\* The trace and the bounds of the ROB stay.
Standing == UNCHANGED <<program, warmAt, dispatched, retired>>

LEMMA StandingKeeps ==
    ASSUME Standing
    PROVE  /\ ROB' = ROB
           /\ \A n : /\ IsMemory(n)' = IsMemory(n)
                     /\ SourceRegisters(n)' = SourceRegisters(n)
                     /\ DestinationRegisters(n)' = DestinationRegisters(n)
                     /\ \A reg, m : LastWriter(n, reg, m)' = LastWriter(n, reg, m)
BY DEF Standing, ROB, IsMemory, SourceRegisters, DestinationRegisters, Cold, Folded, BranchType, LastWriter

\* Entering the queues leaves the dependences through registers alone.
LEMMA MemoryKeepsRegisters ==
    ASSUME Registers, Order', Standing, NEW x, MemoryEntered(core, core', x),
           x \in ROB => /\ IsMemory(x) /\ core.rob[x].num_reg_dependent = 0
                        /\ core.rob[x].scheduled # None
    PROVE  Registers'
<1>0. /\ ROB \subseteq Ids /\ IsFiniteSet(ROB)
      /\ \A m : m \in ROB <=> m \in Nat /\ retired < m /\ m <= dispatched
  BY RobInTrace DEF Registers
<1>1. Order' /\ ROB' = ROB
  BY StandingKeeps DEF Registers
<1>2. /\ Shape(core')
      /\ core'.ready_to_execute = core.ready_to_execute
      /\ \A m \in ROB :
            /\ core'.rob[m].num_reg_dependent = core.rob[m].num_reg_dependent
            /\ core'.rob[m].registers_instrs_depend_on_me = core.rob[m].registers_instrs_depend_on_me
            /\ core.rob[m].scheduled # None => core'.rob[m].scheduled # None
            /\ core.rob[m].executed = COMPLETED <=> core'.rob[m].executed = COMPLETED
            /\ m # x => /\ core'.rob[m].scheduled = core.rob[m].scheduled
                        /\ core'.rob[m].executed = core.rob[m].executed
                        /\ core'.rob[m].source_added = core.rob[m].source_added
                        /\ core'.rob[m].destination_added = core.rob[m].destination_added
  BY <1>0 DEF MemoryEntered, None, INFLIGHT, COMPLETED
<1>3. DependentsLater'
  BY <1>1, <1>2 DEF Registers, DependentsLater, Dependents
<1>4. CountsAwaited'
  <2>1. \A n : Awaited(n)' = Awaited(n)
    BY <1>1, <1>2 DEF Awaited, Dependents
  <2> QED
    BY <1>1, <1>2, <2>1 DEF Registers, CountsAwaited
<1>5. BegunFree'
  <2> SUFFICES ASSUME NEW n \in ROB, Begun(n)'
               PROVE  core'.rob[n].num_reg_dependent = 0 /\ core'.rob[n].scheduled # None
    BY <1>1 DEF BegunFree
  <2>1. CASE n = x
    BY <1>2, <2>1
  <2>2. CASE n # x
    <3>1. Begun(n)
      BY <1>2, <2>2 DEF Begun
    <3> QED
      BY <1>2, <3>1 DEF Registers, BegunFree
  <2> QED
    BY <2>1, <2>2
<1>6. ReadyOnce'
  <2> DEFINE ready == core.ready_to_execute
  <2>1. /\ ready \in Seq(ROB)
        /\ \A i, j \in 1 .. Len(ready) : i # j => ready[i] # ready[j]
        /\ \A n \in Range(ready) : ~IsMemory(n) /\ core.rob[n].executed = None
    BY DEF Registers, ReadyOnce
  <2>2. core'.ready_to_execute = ready
    BY <1>2
  <2>3. Range(ready) \subseteq ROB
    BY <2>1 DEF Range
  <2> HIDE DEF ready
  <2>4. \A n \in Range(ready) : ~IsMemory(n)' /\ core'.rob[n].executed = None
    BY <1>2, <2>1, <2>3, StandingKeeps
  <2>5. \A n \in Range(core'.ready_to_execute) : ~IsMemory(n)' /\ core'.rob[n].executed = None
    BY <2>2, <2>4
  <2> QED
    BY <1>1, <2>1, <2>2, <2>5 DEF ReadyOnce, Range
<1>7. WritersAwaited'
  <2> SUFFICES ASSUME NEW n \in ROB, core'.rob[n].scheduled # None,
                      NEW reg \in SourceRegisters(n), NEW m \in 1 .. n - 1, LastWriter(n, reg, m)
               PROVE  m <= retired \/ core'.rob[m].executed = COMPLETED \/ n \in Dependents(m)'
    BY <1>1, StandingKeeps DEF WritersAwaited, Standing
  <2>1. core.rob[n].scheduled # None
    BY <1>2
  <2>2. m <= retired \/ core.rob[m].executed = COMPLETED \/ n \in Dependents(m)
    BY <2>1 DEF Registers, WritersAwaited
  <2>3. m <= retired \/ m \in ROB
    BY EarlierInRob DEF Registers
  <2> QED
    BY <1>2, <2>2, <2>3 DEF Dependents
<1> QED
  BY <1>1, <1>2, <1>3, <1>4, <1>5, <1>6, <1>7 DEF Registers

LEMMA RangeOf ==
    ASSUME NEW S, NEW s \in Seq(S)
    PROVE  \A n : n \in Range(s) <=> \E i \in 1 .. Len(s) : s[i] = n
BY SMTT(60) DEF Range

LEMMA StandingAction ==
    ASSUME Execute \/ Schedule \/ Complete
    PROVE  Standing
BY DEF Execute, Schedule, Complete, Standing, fetchVars

LEMMA ExecuteKeepsRegisters ==
    ASSUME Registers, Order', Execute
    PROVE  /\ Registers'
           /\ \A n \in ROB : core.rob[n].executed = COMPLETED => core'.rob[n].executed = COMPLETED
<1> DEFINE ready == core.ready_to_execute
           h == Head(ready)
           i == [core.rob[h] EXCEPT !.executed = INFLIGHT]
           R == [core.rob EXCEPT ![h] = i]
           t == Tail(ready)
           r == core.inflight_reg + 1
<1>0. /\ Standing
      /\ ROB \subseteq Ids /\ IsFiniteSet(ROB)
      /\ \A m : m \in ROB <=> m \in Nat /\ retired < m /\ m <= dispatched
  BY StandingAction, RobInTrace DEF Registers
<1>1. Order' /\ ROB' = ROB
  BY <1>0, StandingKeeps DEF Registers
<1>2. /\ ready \in Seq(ROB) /\ ready # <<>>
      /\ \A k, l \in 1 .. Len(ready) : k # l => ready[k] # ready[l]
      /\ \A n \in Range(ready) : ~IsMemory(n) /\ core.rob[n].executed = None
  BY DEF Registers, ReadyOnce, Execute
<1>3. /\ h \in ROB /\ h \in Range(ready) /\ h \notin Range(t)
      /\ t \in Seq(ROB) /\ Range(t) \subseteq Range(ready)
      /\ \A k, l \in 1 .. Len(t) : k # l => t[k] # t[l]
  <2> HIDE DEF ready
  <2>1. t \in Seq(ROB) /\ \A k \in 1 .. Len(t) : k + 1 \in 1 .. Len(ready) /\ t[k] = ready[k + 1]
    BY <1>2
  <2>2. h = ready[1] /\ 1 \in 1 .. Len(ready)
    BY <1>2
  <2>3. /\ \A n : n \in Range(ready) <=> \E k \in 1 .. Len(ready) : ready[k] = n
        /\ \A n : n \in Range(t) <=> \E k \in 1 .. Len(t) : t[k] = n
    BY <1>2, <2>1, RangeOf
  <2> HIDE DEF h, t
  <2>4. h \in ROB /\ h \in Range(ready)
    BY <1>2, <2>2, <2>3
  <2>5. h \notin Range(t)
    <3>1. \A k \in 1 .. Len(t) : k + 1 # 1 /\ t[k] # h
      BY <1>2, <2>1, <2>2
    <3> QED
      BY <2>3, <3>1
  <2>6. \A k, l \in 1 .. Len(t) : k # l => t[k] # t[l]
    <3>1. \A k, l \in 1 .. Len(t) : k # l => k + 1 # l + 1
      OBVIOUS
    <3> QED
      BY <1>2, <2>1, <3>1
  <2>7. Range(t) \subseteq Range(ready)
    BY <2>1, <2>3
  <2> QED
    BY <2>1, <2>4, <2>5, <2>6, <2>7
<1>4. core' = [[[core EXCEPT !.rob = R] EXCEPT !.ready_to_execute = t] EXCEPT !.inflight_reg = r]
  <2>1. /\ "rob" \in DOMAIN core /\ "ready_to_execute" \in DOMAIN core /\ "inflight_reg" \in DOMAIN core
        /\ h \in DOMAIN core.rob /\ "executed" \in DOMAIN core.rob[h]
    BY <1>0, <1>3 DEF Registers, Shape, CoreFields, InstrFields
  <2> QED
    BY <2>1 DEF Execute
<1>5. /\ DOMAIN R = Ids /\ R[h] = i /\ \A m \in Ids : m # h => R[m] = core.rob[m]
  BY <1>0, <1>3 DEF Registers, Shape
<1>6. /\ DOMAIN i = InstrFields /\ i.executed = INFLIGHT
      /\ \A f \in InstrFields \ {"executed"} : i[f] = core.rob[h][f]
  BY <1>0, <1>3 DEF Registers, Shape, InstrFields
<1> HIDE DEF i, R, t, r, ready, h
<1>7. /\ DOMAIN core' = CoreFields /\ core'.rob = R /\ core'.ready_to_execute = t
      /\ \A f \in CoreFields \ {"rob", "ready_to_execute", "inflight_reg"} : core'[f] = core[f]
  BY <1>4 DEF Registers, Shape, CoreFields
<1>8. Shape(core')
  <2>1. core'.LQ = core.LQ /\ core'.SQ = core.SQ /\ core'.data = core.data
    BY <1>7 DEF CoreFields
  <2> QED
    BY <1>5, <1>6, <1>7, <2>1 DEF Registers, Shape
<1>9. \A m \in ROB :
         /\ core'.rob[m].scheduled = core.rob[m].scheduled
         /\ core'.rob[m].executed = IF m = h THEN INFLIGHT ELSE core.rob[m].executed
         /\ core'.rob[m].num_reg_dependent = core.rob[m].num_reg_dependent
         /\ core'.rob[m].registers_instrs_depend_on_me = core.rob[m].registers_instrs_depend_on_me
         /\ core'.rob[m].source_added = core.rob[m].source_added
         /\ core'.rob[m].destination_added = core.rob[m].destination_added
  <2>1. /\ i.scheduled = core.rob[h].scheduled
        /\ i.num_reg_dependent = core.rob[h].num_reg_dependent
        /\ i.registers_instrs_depend_on_me = core.rob[h].registers_instrs_depend_on_me
        /\ i.source_added = core.rob[h].source_added
        /\ i.destination_added = core.rob[h].destination_added
    BY <1>6 DEF InstrFields
  <2> QED
    BY <1>0, <1>5, <1>6, <1>7, <2>1
<1>10. core.rob[h].executed = None /\ ~IsMemory(h)
  BY <1>2, <1>3
<1>11. \A m \in ROB : core'.rob[m].executed = COMPLETED <=> core.rob[m].executed = COMPLETED
  BY <1>9, <1>10 DEF None, INFLIGHT, COMPLETED
<1>12. DependentsLater'
  BY <1>1, <1>9 DEF Registers, DependentsLater, Dependents
<1>13. CountsAwaited'
  <2>1. \A n : Awaited(n)' = Awaited(n)
    BY <1>1, <1>9, <1>11 DEF Awaited, Dependents
  <2> QED
    BY <1>1, <1>9, <2>1 DEF Registers, CountsAwaited
<1>14. BegunFree'
  <2> SUFFICES ASSUME NEW n \in ROB, Begun(n)'
               PROVE  core'.rob[n].num_reg_dependent = 0 /\ core'.rob[n].scheduled # None
    BY <1>1 DEF BegunFree
  <2>1. Begun(n)
    BY <1>3, <1>7, <1>9 DEF Begun, ready
  <2> QED
    BY <1>9, <2>1 DEF Registers, BegunFree
<1>15. ReadyOnce'
  <2>1. \A n \in Range(t) : ~IsMemory(n)' /\ core'.rob[n].executed = None
    <3>1. Range(ready) \subseteq ROB
      BY <1>2, RangeOf
    <3> QED
      BY <1>0, <1>2, <1>3, <1>9, <3>1, StandingKeeps
  <2>2. /\ \A n \in Range(core'.ready_to_execute) : ~IsMemory(n)' /\ core'.rob[n].executed = None
    BY <1>7, <2>1
  <2> QED
    BY <1>1, <1>3, <1>7, <2>2 DEF ReadyOnce, Range
<1>16. WritersAwaited'
  <2> SUFFICES ASSUME NEW n \in ROB, core'.rob[n].scheduled # None,
                      NEW reg \in SourceRegisters(n), NEW m \in 1 .. n - 1, LastWriter(n, reg, m)
               PROVE  m <= retired \/ core'.rob[m].executed = COMPLETED \/ n \in Dependents(m)'
    BY <1>0, <1>1, StandingKeeps DEF WritersAwaited, Standing
  <2>1. m <= retired \/ core.rob[m].executed = COMPLETED \/ n \in Dependents(m)
    BY <1>9 DEF Registers, WritersAwaited
  <2>2. m <= retired \/ m \in ROB
    BY EarlierInRob DEF Registers
  <2> QED
    BY <1>9, <1>11, <2>1, <2>2 DEF Dependents
<1> QED
  BY <1>1, <1>8, <1>11, <1>12, <1>13, <1>14, <1>15, <1>16 DEF Registers

LEMMA ScheduleKeepsRegisters ==
    ASSUME Registers, Order', Schedule
    PROVE  /\ Registers'
           /\ \A n \in ROB : core.rob[n].executed = COMPLETED => core'.rob[n].executed = COMPLETED
<1> DEFINE ready == core.ready_to_execute
           waiting == {n \in ROB : core.rob[n].scheduled = None}
           x == First(waiting)
           producers == RegisterProducers(x)
           s == IF IsMemory(x) THEN INFLIGHT ELSE COMPLETED
           free == producers = {} /\ ~IsMemory(x)
           R == [m \in Ids |->
                  CASE m \in producers -> [core.rob[m] EXCEPT !.registers_instrs_depend_on_me = @ \cup {x}]
                    [] m = x -> [core.rob[m] EXCEPT !.num_reg_dependent = Cardinality(producers), !.scheduled = s]
                    [] OTHER -> core.rob[m]]
           t == IF free THEN Append(ready, x) ELSE ready
<1>0. /\ Standing
      /\ ROB \subseteq Ids /\ IsFiniteSet(ROB)
      /\ \A m : m \in ROB <=> m \in Nat /\ retired < m /\ m <= dispatched
  BY StandingAction, RobInTrace DEF Registers
<1>1. Order' /\ ROB' = ROB
  BY <1>0, StandingKeeps DEF Registers
<1>2. x \in ROB /\ core.rob[x].scheduled = None
  <2>1. waiting \in SUBSET Nat /\ waiting # {}
    BY <1>0 DEF Schedule
  <2> QED
    BY <2>1, FirstIsLeast
<1>3. /\ core' = [core EXCEPT !.rob = R, !.ready_to_execute = t]
  <2>1. core' = [core EXCEPT !.rob = R,
                             !.ready_to_execute = IF producers = {} /\ ~IsMemory(x) THEN Append(@, x) ELSE @]
    BY DEF Schedule
  <2>2. "ready_to_execute" \in DOMAIN core /\ "rob" \in DOMAIN core
    BY DEF Registers, Shape, CoreFields
  <2> HIDE DEF R, x, producers
  <2> QED
    BY <2>1, <2>2
<1>4. /\ producers \subseteq ROB /\ x \notin producers
      /\ \A m \in producers : m < x /\ core.rob[m].executed # COMPLETED
  <2>1. ASSUME NEW m \in producers PROVE m \in ROB /\ m < x /\ core.rob[m].executed # COMPLETED
    BY DEF RegisterProducers, WillProduce
  <2>2. x \in Nat
    BY <1>0, <1>2
  <2> HIDE DEF producers, x
  <2> QED
    BY <2>1, <2>2
<1>5. \A m \in ROB : \A reg \in SourceRegisters(x) :
         LastWriter(x, reg, m) /\ core.rob[m].executed # COMPLETED => m \in producers
  <2> SUFFICES ASSUME NEW m \in ROB, NEW reg \in SourceRegisters(x),
                      LastWriter(x, reg, m), core.rob[m].executed # COMPLETED
               PROVE  m \in producers
    OBVIOUS
  <2>1. m < x /\ WillProduce(m, reg)
    BY <1>0, <1>2 DEF LastWriter, WillProduce
  <2>2. ASSUME NEW l \in m + 1 .. x - 1 PROVE ~WillProduce(l, reg)
    <3>1. l \in 1 .. x - 1 /\ ~ (l <= m)
      BY <1>0, <1>2
    <3> QED
      BY <3>1 DEF LastWriter, WillProduce
  <2> QED
    BY <2>1, <2>2 DEF RegisterProducers
<1>6. s # None
  BY DEF None, INFLIGHT, COMPLETED
<1> HIDE DEF waiting, x, producers, s
<1>7. DOMAIN R = Ids /\ \A m \in Ids : DOMAIN R[m] = InstrFields
  BY SMTT(60) DEF Registers, Shape
<1>8. \A m \in ROB :
         /\ R[m].scheduled = IF m = x THEN s ELSE core.rob[m].scheduled
         /\ R[m].executed = core.rob[m].executed
         /\ R[m].num_reg_dependent = IF m = x THEN Cardinality(producers) ELSE core.rob[m].num_reg_dependent
         /\ R[m].registers_instrs_depend_on_me =
               IF m \in producers THEN core.rob[m].registers_instrs_depend_on_me \cup {x}
               ELSE core.rob[m].registers_instrs_depend_on_me
         /\ R[m].source_added = core.rob[m].source_added
         /\ R[m].destination_added = core.rob[m].destination_added
  <2> SUFFICES ASSUME NEW m \in ROB
               PROVE  /\ R[m].scheduled = IF m = x THEN s ELSE core.rob[m].scheduled
                      /\ R[m].executed = core.rob[m].executed
                      /\ R[m].num_reg_dependent = IF m = x THEN Cardinality(producers)
                                                  ELSE core.rob[m].num_reg_dependent
                      /\ R[m].registers_instrs_depend_on_me =
                            IF m \in producers THEN core.rob[m].registers_instrs_depend_on_me \cup {x}
                            ELSE core.rob[m].registers_instrs_depend_on_me
                      /\ R[m].source_added = core.rob[m].source_added
                      /\ R[m].destination_added = core.rob[m].destination_added
    OBVIOUS
  <2>0. m \in Ids /\ DOMAIN core.rob[m] = InstrFields
    BY <1>0 DEF Registers, Shape
  <2>1. CASE m \in producers
    <3>1. m # x /\ R[m] = [core.rob[m] EXCEPT !.registers_instrs_depend_on_me = core.rob[m].registers_instrs_depend_on_me \cup {x}]
      BY <1>4, <2>0, <2>1 DEF InstrFields
    <3> HIDE DEF R
    <3> QED
      BY <2>0, <2>1, <3>1 DEF InstrFields
  <2>2. CASE m = x
    <3>1. m \notin producers /\ R[m] = [[core.rob[m] EXCEPT !.num_reg_dependent = Cardinality(producers)] EXCEPT !.scheduled = s]
      BY <1>4, <2>0, <2>2 DEF InstrFields
    <3> HIDE DEF R
    <3> QED
      BY <2>0, <2>2, <3>1 DEF InstrFields
  <2>3. CASE m \notin producers /\ m # x
    <3>1. R[m] = core.rob[m]
      BY <2>0, <2>3
    <3> HIDE DEF R
    <3> QED
      BY <2>3, <3>1
  <2> QED
    BY <2>1, <2>2, <2>3
<1> HIDE DEF R, t
<1>9. /\ DOMAIN core' = CoreFields /\ core'.rob = R /\ core'.ready_to_execute = t
      /\ core'.LQ = core.LQ /\ core'.SQ = core.SQ /\ core'.data = core.data
  BY <1>3 DEF Registers, Shape, CoreFields
<1>10. Shape(core')
  BY <1>7, <1>9 DEF Registers, Shape
<1>11. ~ Begun(x)
  BY <1>2 DEF Registers, BegunFree
<1>12. \A p \in ROB : x \notin Dependents(p)
  BY <1>2 DEF Registers, DependentsLater
<1>13. DependentsLater'
  <2> SUFFICES ASSUME NEW p \in ROB, NEW n \in R[p].registers_instrs_depend_on_me
               PROVE  n \in ROB /\ p < n /\ R[n].scheduled # None
    BY <1>1, <1>9 DEF DependentsLater, Dependents
  <2>1. CASE n = x
    <3>1. p \in producers
      BY <1>8, <1>12, <2>1 DEF Dependents
    <3> QED
      BY <1>2, <1>4, <1>6, <1>8, <2>1, <3>1
  <2>2. CASE n # x
    <3>1. n \in Dependents(p)
      BY <1>8, <2>2 DEF Dependents
    <3> QED
      BY <1>8, <2>2, <3>1 DEF Registers, DependentsLater
  <2> QED
    BY <2>1, <2>2
<1>14. CountsAwaited'
  <2>1. ASSUME NEW n, n # x PROVE Awaited(n)' = Awaited(n)
    <3>1. \A p \in ROB : /\ R[p].executed = core.rob[p].executed
                         /\ n \in R[p].registers_instrs_depend_on_me
                              <=> n \in core.rob[p].registers_instrs_depend_on_me
      BY <1>8, <2>1
    <3> QED
      BY <1>1, <1>9, <3>1 DEF Awaited, Dependents
  <2>2. {p \in ROB : R[p].executed # COMPLETED /\ x \in R[p].registers_instrs_depend_on_me} = producers
    BY <1>4, <1>8, <1>12, ZenonT(60) DEF Dependents
  <2>3. ASSUME NEW n, n = x PROVE Awaited(n)' = producers
    BY <1>1, <1>9, <2>2, <2>3 DEF Awaited, Dependents
  <2>4. ASSUME NEW n \in ROB PROVE core'.rob[n].num_reg_dependent = Cardinality(Awaited(n)')
    <3>1. CASE n = x
      <4>1. Awaited(n)' = producers
        BY <2>3, <3>1, Zenon
      <4>2. core'.rob[n].num_reg_dependent = Cardinality(producers)
        BY <1>8, <1>9, <3>1
      <4> QED
        BY <4>1, <4>2, Zenon
    <3>2. CASE n # x
      <4>1. Awaited(n)' = Awaited(n)
        BY <2>1, <3>2
      <4>2. core'.rob[n].num_reg_dependent = core.rob[n].num_reg_dependent
        BY <1>8, <1>9, <3>2
      <4>3. core.rob[n].num_reg_dependent = Cardinality(Awaited(n))
        BY DEF Registers, CountsAwaited
      <4> QED
        BY <4>1, <4>2, <4>3
    <3> QED
      BY <3>1, <3>2
  <2> QED
    BY <1>1, <2>4 DEF CountsAwaited
<1>15. /\ ready \in Seq(ROB)
       /\ \A k, l \in 1 .. Len(ready) : k # l => ready[k] # ready[l]
       /\ \A n \in Range(ready) : ~IsMemory(n) /\ core.rob[n].executed = None
       /\ x \notin Range(ready) /\ core.rob[x].executed = None
       /\ core.rob[x].source_added = {} /\ core.rob[x].destination_added = {}
  BY <1>11 DEF Registers, ReadyOnce, Begun
<1> HIDE DEF ready
<1>16. /\ t \in Seq(ROB)
       /\ \A k, l \in 1 .. Len(t) : k # l => t[k] # t[l]
       /\ \A n : n \in Range(t) <=> n \in Range(ready) \/ (free /\ n = x)
  <2>1. CASE ~ free
    <3>1. t = ready
      BY <2>1 DEF t
    <3> QED
      BY <1>15, <2>1, <3>1
  <2>2. CASE free
    <3>1. t = Append(ready, x) /\ t \in Seq(ROB)
      BY <1>2, <1>15, <2>2 DEF t
    <3>2. /\ Len(t) = Len(ready) + 1 /\ Len(ready) \in Nat /\ t[Len(t)] = x
          /\ \A k \in 1 .. Len(ready) : t[k] = ready[k]
      BY <1>2, <1>15, <3>1
    <3>3. \A k \in 1 .. Len(ready) : ready[k] # x
      BY <1>15, RangeOf
    <3>4. \A k, l \in 1 .. Len(t) : k # l => t[k] # t[l]
      BY <1>15, <3>2, <3>3
    <3>5. \A n : n \in Range(t) <=> n \in Range(ready) \/ n = x
      <4>1. \A n : n \in Range(t) <=> \E k \in 1 .. Len(t) : t[k] = n
        BY <3>1, RangeOf
      <4>2. \A n : n \in Range(ready) <=> \E k \in 1 .. Len(ready) : ready[k] = n
        BY <1>15, RangeOf
      <4>3. \A k \in 1 .. Len(t) : k \in 1 .. Len(ready) \/ k = Len(t)
        BY <3>2
      <4>4. Len(t) \in 1 .. Len(t) /\ \A k \in 1 .. Len(ready) : k \in 1 .. Len(t)
        BY <3>2
      <4> QED
        BY <3>2, <4>1, <4>2, <4>3, <4>4
    <3> QED
      BY <2>2, <3>1, <3>4, <3>5
  <2> QED
    BY <2>1, <2>2
<1>17. ReadyOnce'
  <2>1. \A n \in Range(t) : ~IsMemory(n)' /\ core'.rob[n].executed = None
    <3>1. \A n \in Range(t) : n \in ROB
      BY <1>16, RangeOf
    <3> QED
      <4>1. ASSUME NEW n \in Range(t) PROVE ~IsMemory(n) /\ core.rob[n].executed = None
        BY <1>15, <1>16
      <4>2. \A n \in ROB : core'.rob[n].executed = core.rob[n].executed
        BY <1>8, <1>9
      <4>3. \A n : IsMemory(n)' = IsMemory(n)
        BY <1>0, StandingKeeps
      <4> QED
        BY <3>1, <4>1, <4>2, <4>3
  <2>2. /\ \A n \in Range(core'.ready_to_execute) : ~IsMemory(n)' /\ core'.rob[n].executed = None
    BY <1>9, <2>1
  <2> QED
    BY <1>1, <1>9, <1>16, <2>2 DEF ReadyOnce, Range
<1>18. BegunFree'
  <2> SUFFICES ASSUME NEW n \in ROB, Begun(n)'
               PROVE  core'.rob[n].num_reg_dependent = 0 /\ core'.rob[n].scheduled # None
    BY <1>1 DEF BegunFree
  <2>1. CASE n = x
    <3>1. free
      BY <1>8, <1>9, <1>15, <1>16, <2>1 DEF Begun
    <3>2. Cardinality(producers) = 0
      BY <3>1, FS_EmptySet
    <3> QED
      BY <1>2, <1>6, <1>8, <1>9, <2>1, <3>2
  <2>2. CASE n # x
    <3>1. Begun(n)
      BY <1>8, <1>9, <1>16, <2>2 DEF Begun, ready
    <3> QED
      BY <1>8, <1>9, <2>2, <3>1 DEF Registers, BegunFree
  <2> QED
    BY <2>1, <2>2
<1>19. WritersAwaited'
  <2> SUFFICES ASSUME NEW n \in ROB, core'.rob[n].scheduled # None,
                      NEW reg \in SourceRegisters(n), NEW m \in 1 .. n - 1, LastWriter(n, reg, m)
               PROVE  m <= retired \/ core'.rob[m].executed = COMPLETED \/ n \in Dependents(m)'
    BY <1>0, <1>1, StandingKeeps DEF WritersAwaited, Standing
  <2>1. m <= retired \/ m \in ROB
    BY EarlierInRob DEF Registers
  <2>2. CASE n = x
    BY <1>5, <1>8, <1>9, <2>1, <2>2 DEF Dependents
  <2>3. CASE n # x
    <3>1. m <= retired \/ core.rob[m].executed = COMPLETED \/ n \in Dependents(m)
      BY <1>8, <1>9, <2>3 DEF Registers, WritersAwaited
    <3> QED
      BY <1>8, <1>9, <2>1, <3>1 DEF Dependents
  <2> QED
    BY <2>2, <2>3
<1>20. \A n \in ROB : core'.rob[n].executed = core.rob[n].executed
  BY <1>8, <1>9
<1> QED
  BY <1>1, <1>10, <1>13, <1>14, <1>17, <1>18, <1>19, <1>20 DEF Registers

LEMMA JoinedApart ==
    ASSUME NEW S, NEW a \in Seq(S), NEW b \in Seq(S),
           \A i, j \in 1 .. Len(a) : i # j => a[i] # a[j],
           \A i, j \in 1 .. Len(b) : i # j => b[i] # b[j],
           \A n \in Range(a) : n \notin Range(b)
    PROVE  /\ a \o b \in Seq(S)
           /\ \A i, j \in 1 .. Len(a \o b) : i # j => (a \o b)[i] # (a \o b)[j]
           /\ \A n : n \in Range(a \o b) <=> n \in Range(a) \/ n \in Range(b)
<1> DEFINE t == a \o b
<1>1. /\ t \in Seq(S) /\ Len(t) = Len(a) + Len(b) /\ Len(a) \in Nat /\ Len(b) \in Nat
      /\ \A i \in 1 .. Len(t) : t[i] = IF i <= Len(a) THEN a[i] ELSE b[i - Len(a)]
  OBVIOUS
<1>2. /\ \A n : n \in Range(a) <=> \E i \in 1 .. Len(a) : a[i] = n
      /\ \A n : n \in Range(b) <=> \E i \in 1 .. Len(b) : b[i] = n
      /\ \A n : n \in Range(t) <=> \E i \in 1 .. Len(t) : t[i] = n
  <2> HIDE DEF t
  <2> QED
    BY <1>1, RangeOf
<1> HIDE DEF t
<1>3. \A i \in 1 .. Len(t) : \/ i \in 1 .. Len(a) /\ t[i] = a[i]
                             \/ i - Len(a) \in 1 .. Len(b) /\ ~ (i <= Len(a)) /\ t[i] = b[i - Len(a)]
  BY <1>1
<1>4. \A i \in 1 .. Len(a), j \in 1 .. Len(b) : a[i] # b[j]
  BY <1>2
<1>5. ASSUME NEW i \in 1 .. Len(t), NEW j \in 1 .. Len(t), i # j PROVE t[i] # t[j]
  <2>1. CASE i \in 1 .. Len(a) /\ j \in 1 .. Len(a)
    BY <1>1, <1>5, <2>1
  <2>2. CASE ~ (i <= Len(a)) /\ ~ (j <= Len(a))
    <3>1. i - Len(a) # j - Len(a)
      BY <1>1, <1>5
    <3> QED
      BY <1>3, <2>2, <3>1, SMTT(60)
  <2>3. CASE i \in 1 .. Len(a) /\ ~ (j <= Len(a))
    BY <1>3, <1>4, <2>3
  <2>4. CASE ~ (i <= Len(a)) /\ j \in 1 .. Len(a)
    BY <1>3, <1>4, <2>4
  <2> QED
    BY <1>1, <2>1, <2>2, <2>3, <2>4
<1>6. ASSUME NEW n PROVE n \in Range(t) <=> n \in Range(a) \/ n \in Range(b)
  <2>1. n \in Range(t) => n \in Range(a) \/ n \in Range(b)
    BY <1>2, <1>3
  <2>2. n \in Range(a) => n \in Range(t)
    <3>1. \A i \in 1 .. Len(a) : i \in 1 .. Len(t) /\ t[i] = a[i]
      BY <1>1
    <3> QED
      BY <1>2, <3>1
  <2>3. n \in Range(b) => n \in Range(t)
    <3>1. ASSUME NEW i \in 1 .. Len(b) PROVE i + Len(a) \in 1 .. Len(t) /\ t[i + Len(a)] = b[i]
      <4>1. /\ i + Len(a) \in 1 .. Len(t) /\ ~ (i + Len(a) <= Len(a))
            /\ (i + Len(a)) - Len(a) = i
        BY <1>1
      <4>2. t[i + Len(a)] = b[(i + Len(a)) - Len(a)]
        BY <1>1, <4>1
      <4> QED
        BY <4>1, <4>2
    <3> QED
      BY <1>2, <3>1
  <2> QED
    BY <2>1, <2>2, <2>3
<1> QED
  BY <1>1, <1>5, <1>6 DEF t

LEMMA InOrderLists ==
    ASSUME NEW S \in SUBSET Nat, IsFiniteSet(S)
    PROVE  /\ InOrder(S) \in Seq(S)
           /\ \A i, j \in 1 .. Len(InOrder(S)) : i # j => InOrder(S)[i] # InOrder(S)[j]
<1> DEFINE P(q) == \A i, j \in DOMAIN q : i < j => q[i] < q[j]
           o == InOrder(S)
<1>1. Cardinality(S) \in Nat
  BY FS_CardinalityType
<1>2. \E q \in [1 .. Cardinality(S) -> S] : P(q)
  <2>1. PICK q \in [1 .. Cardinality(S) -> S] : \A i, j \in 1 .. Cardinality(S) : i < j => q[i] < q[j]
    BY Enumerable
  <2> QED
    BY <2>1
<1>3. o \in [1 .. Cardinality(S) -> S] /\ P(o)
  BY <1>2 DEF InOrder
<1> HIDE DEF o
<1>4. o \in Seq(S) /\ Len(o) = Cardinality(S)
  BY <1>1, <1>3
<1>5. ASSUME NEW i \in 1 .. Len(o), NEW j \in 1 .. Len(o), i # j PROVE o[i] # o[j]
  <2>0. Len(o) = Cardinality(S) /\ i \in Nat /\ j \in Nat /\ (i < j \/ j < i)
    BY <1>1, <1>4, <1>5
  <2>1. o[i] \in Nat /\ o[j] \in Nat /\ (i < j \/ j < i)
    BY <1>3, <2>0, Zenon
  <2>2. o[i] < o[j] \/ o[j] < o[i]
    BY <1>3, <1>4, <2>1
  <2> QED
    BY <2>1, <2>2
<1> QED
  BY <1>4, <1>5 DEF o

\* x completes: who waits for it waits for one register less.
Completes(x) ==
    /\ core.rob[x].executed = INFLIGHT
    /\ resume' = (resume \/ x \in mispredicted)
    /\ core' = [core EXCEPT
          !.rob = [m \in Ids |->
              IF m = x THEN [core.rob[m] EXCEPT !.executed = COMPLETED]
              ELSE IF m \in core.rob[x].registers_instrs_depend_on_me
              THEN [core.rob[m] EXCEPT !.num_reg_dependent = @ - 1,
                                !.scheduled = IF m \notin Freed(x) THEN @
                                              ELSE IF IsMemory(m) THEN INFLIGHT ELSE COMPLETED]
              ELSE core.rob[m]],
          !.ready_to_execute = @ \o InOrder({m \in Freed(x) : ~IsMemory(m)}),
          !.inflight_reg = IF IsMemory(x) THEN @ ELSE @ - 1,
          !.inflight_mem = IF IsMemory(x) THEN @ - 1 ELSE @]

LEMMA CompleteOne ==
    ASSUME Complete
    PROVE  \E x \in ROB : Completes(x)
BY Zenon DEF Complete, Completes

\* What is different afterwards, and what is not.
Completed(x, t) ==
    /\ Shape(core')
    /\ core'.ready_to_execute = t
    /\ \A m \in ROB :
          /\ core'.rob[m].executed = IF m = x THEN COMPLETED ELSE core.rob[m].executed
          /\ core'.rob[m].num_reg_dependent = IF m \in Dependents(x) THEN core.rob[m].num_reg_dependent - 1
                                              ELSE core.rob[m].num_reg_dependent
          /\ core.rob[m].scheduled # None => core'.rob[m].scheduled # None
          /\ m \notin Dependents(x) => core'.rob[m].scheduled = core.rob[m].scheduled
          /\ core'.rob[m].registers_instrs_depend_on_me = core.rob[m].registers_instrs_depend_on_me
          /\ core'.rob[m].source_added = core.rob[m].source_added
          /\ core'.rob[m].destination_added = core.rob[m].destination_added

LEMMA CompletesFields ==
    ASSUME Registers, NEW x \in ROB, Completes(x)
    PROVE  Completed(x, core.ready_to_execute \o InOrder({m \in Freed(x) : ~IsMemory(m)}))
<1> DEFINE D == Dependents(x)
           u(m) == IF m \notin Freed(x) THEN core.rob[m].scheduled ELSE IF IsMemory(m) THEN INFLIGHT ELSE COMPLETED
           R == [m \in Ids |->
                    IF m = x THEN [core.rob[m] EXCEPT !.executed = COMPLETED]
                    ELSE IF m \in D
                    THEN [core.rob[m] EXCEPT !.num_reg_dependent = @ - 1, !.scheduled = u(m)]
                    ELSE core.rob[m]]
           t == core.ready_to_execute \o InOrder({m \in Freed(x) : ~IsMemory(m)})
           g == IF IsMemory(x) THEN core.inflight_reg ELSE core.inflight_reg - 1
           h == IF IsMemory(x) THEN core.inflight_mem - 1 ELSE core.inflight_mem
<1>0. /\ ROB \subseteq Ids /\ x \in Nat
      /\ \A m \in Ids : DOMAIN core.rob[m] = InstrFields
  BY RobInTrace DEF Registers, Shape
<1>1. x \notin D
  BY <1>0 DEF Registers, DependentsLater
<1>2. core' = [[[[core EXCEPT !.rob = R] EXCEPT !.ready_to_execute = t] EXCEPT !.inflight_reg = g] EXCEPT !.inflight_mem = h]
  <2> DEFINE Q == [m \in Ids |->
                    IF m = x THEN [core.rob[m] EXCEPT !.executed = COMPLETED]
                    ELSE IF m \in core.rob[x].registers_instrs_depend_on_me
                    THEN [core.rob[m] EXCEPT !.num_reg_dependent = @ - 1,
                                !.scheduled = IF m \notin Freed(x) THEN @
                                              ELSE IF IsMemory(m) THEN INFLIGHT ELSE COMPLETED]
                    ELSE core.rob[m]]
  <2>1. Q = R
    <3> SUFFICES ASSUME NEW m \in Ids PROVE Q[m] = R[m]
      OBVIOUS
    <3>1. CASE m # x /\ m \in D
      BY <1>0, <3>1 DEF Dependents, InstrFields
    <3>2. CASE ~ (m # x /\ m \in D)
      BY <3>2 DEF Dependents
    <3> QED
      BY <3>1, <3>2, ZenonT(60)
  <2>2. core' = [core EXCEPT !.rob = Q,
                             !.ready_to_execute = @ \o InOrder({m \in Freed(x) : ~IsMemory(m)}),
                             !.inflight_reg = IF IsMemory(x) THEN @ ELSE @ - 1,
                             !.inflight_mem = IF IsMemory(x) THEN @ - 1 ELSE @]
    BY SMTT(60) DEF Completes
  <2> DEFINE o == InOrder({m \in Freed(x) : ~IsMemory(m)})
  <2>3. core' = [core EXCEPT !.rob = R, !.ready_to_execute = @ \o o,
                             !.inflight_reg = IF IsMemory(x) THEN @ ELSE @ - 1,
                             !.inflight_mem = IF IsMemory(x) THEN @ - 1 ELSE @]
    BY <2>1, <2>2
  <2>4. /\ "rob" \in DOMAIN core /\ "ready_to_execute" \in DOMAIN core
        /\ "inflight_reg" \in DOMAIN core /\ "inflight_mem" \in DOMAIN core
    BY DEF Registers, Shape, CoreFields
  <2> HIDE DEF Q, R, o
  <2> QED
    BY <2>3, <2>4 DEF o
<1>3. \A m \in Ids : u(m) # None \/ u(m) = core.rob[m].scheduled
  BY DEF None, INFLIGHT, COMPLETED
<1> HIDE DEF u, t, g, h
<1>4. DOMAIN R = Ids /\ \A m \in Ids : DOMAIN R[m] = InstrFields
  BY <1>0, SMTT(60)
<1>5. \A m \in ROB :
         /\ R[m].executed = IF m = x THEN COMPLETED ELSE core.rob[m].executed
         /\ R[m].num_reg_dependent = IF m \in D THEN core.rob[m].num_reg_dependent - 1
                                     ELSE core.rob[m].num_reg_dependent
         /\ R[m].scheduled = IF m \in D THEN u(m) ELSE core.rob[m].scheduled
         /\ R[m].registers_instrs_depend_on_me = core.rob[m].registers_instrs_depend_on_me
         /\ R[m].source_added = core.rob[m].source_added
         /\ R[m].destination_added = core.rob[m].destination_added
  <2> SUFFICES ASSUME NEW m \in ROB
               PROVE  /\ R[m].executed = IF m = x THEN COMPLETED ELSE core.rob[m].executed
                      /\ R[m].num_reg_dependent = IF m \in D THEN core.rob[m].num_reg_dependent - 1
                                                  ELSE core.rob[m].num_reg_dependent
                      /\ R[m].scheduled = IF m \in D THEN u(m) ELSE core.rob[m].scheduled
                      /\ R[m].registers_instrs_depend_on_me = core.rob[m].registers_instrs_depend_on_me
                      /\ R[m].source_added = core.rob[m].source_added
                      /\ R[m].destination_added = core.rob[m].destination_added
    OBVIOUS
  <2>0. m \in Ids /\ DOMAIN core.rob[m] = InstrFields
    BY <1>0
  <2>1. CASE m = x
    <3>1. m \notin D /\ R[m] = [core.rob[m] EXCEPT !.executed = COMPLETED]
      BY <1>1, <2>0, <2>1
    <3> HIDE DEF R, D
    <3> QED
      BY <2>0, <2>1, <3>1 DEF InstrFields
  <2>2. CASE m \in D
    <3>1. m # x /\ R[m] = [[core.rob[m] EXCEPT !.num_reg_dependent = core.rob[m].num_reg_dependent - 1] EXCEPT !.scheduled = u(m)]
      BY <1>1, <2>0, <2>2 DEF InstrFields
    <3> HIDE DEF R, D
    <3> QED
      BY <2>0, <2>2, <3>1 DEF InstrFields
  <2>3. CASE m # x /\ m \notin D
    <3>1. R[m] = core.rob[m]
      BY <2>0, <2>3
    <3> HIDE DEF R, D
    <3> QED
      BY <2>3, <3>1
  <2> QED
    BY <2>1, <2>2, <2>3
<1> HIDE DEF R, D
<1>6. /\ DOMAIN core' = CoreFields /\ core'.rob = R /\ core'.ready_to_execute = t
      /\ core'.LQ = core.LQ /\ core'.SQ = core.SQ /\ core'.data = core.data
  BY <1>2 DEF Registers, Shape, CoreFields
<1>7. Shape(core')
  BY <1>4, <1>6 DEF Registers, Shape
<1>8. \A m \in ROB : core.rob[m].scheduled # None => R[m].scheduled # None
  BY <1>0, <1>3, <1>5
<1>9. Completed(x, t)
  BY <1>5, <1>6, <1>7, <1>8 DEF Completed, D
<1> QED
  BY <1>9 DEF t

LEMMA CompleteKeepsRegisters ==
    ASSUME Registers, Order', NEW x \in ROB, Completes(x), Standing
    PROVE  /\ Registers'
           /\ \A n \in ROB : core.rob[n].executed = COMPLETED => core'.rob[n].executed = COMPLETED
<1> DEFINE ready == core.ready_to_execute
           D == Dependents(x)
           S == {m \in Freed(x) : ~IsMemory(m)}
           o == InOrder(S)
           t == ready \o o
<1>0. /\ ROB \subseteq Ids /\ IsFiniteSet(ROB) /\ x \in Nat
      /\ \A m : m \in ROB <=> m \in Nat /\ retired < m /\ m <= dispatched
  BY RobInTrace DEF Registers
<1>1. Order' /\ ROB' = ROB
  BY StandingKeeps DEF Registers
<1>2. Completed(x, t)
  BY CompletesFields
<1>3. /\ ready \in Seq(ROB)
      /\ \A k, l \in 1 .. Len(ready) : k # l => ready[k] # ready[l]
      /\ \A n \in Range(ready) : ~IsMemory(n) /\ core.rob[n].executed = None
  BY DEF Registers, ReadyOnce
<1>4. core.rob[x].executed = INFLIGHT
  BY DEF Completes
<1>5. /\ D \subseteq ROB
      /\ \A m \in D : x < m /\ m # x
  BY <1>0 DEF Registers, DependentsLater
<1>6. \A n \in ROB : Begun(n) => core.rob[n].num_reg_dependent = 0 /\ core.rob[n].scheduled # None
  BY DEF Registers, BegunFree
<1>7. /\ S \subseteq D
      /\ \A m \in S : ~IsMemory(m) /\ core.rob[m].num_reg_dependent = 1
  BY DEF Freed, Dependents
<1>8. ASSUME NEW n \in ROB
      PROVE  /\ IsFiniteSet(Awaited(n)) /\ Cardinality(Awaited(n)) \in Nat
             /\ n \in D => x \in Awaited(n)
             /\ Awaited(n)' = Awaited(n) \ {x}
             /\ core.rob[n].num_reg_dependent = Cardinality(Awaited(n))
  <2>1. Awaited(n) \subseteq ROB
    BY DEF Awaited
  <2>2. IsFiniteSet(Awaited(n)) /\ Cardinality(Awaited(n)) \in Nat
    BY <1>0, <2>1, FS_Subset, FS_CardinalityType
  <2>3. n \in D => x \in Awaited(n)
    BY <1>4 DEF Awaited, INFLIGHT, COMPLETED
  <2>4. \A p \in ROB : /\ core'.rob[p].executed # COMPLETED <=> core.rob[p].executed # COMPLETED /\ p # x
                       /\ core'.rob[p].registers_instrs_depend_on_me = core.rob[p].registers_instrs_depend_on_me
    BY <1>2 DEF Completed
  <2>5. Awaited(n)' = Awaited(n) \ {x}
    BY <1>1, <2>4 DEF Awaited, Dependents
  <2> QED
    BY <2>2, <2>3, <2>5 DEF Registers, CountsAwaited
<1> HIDE DEF S, D
<1>9. \A m \in D : core.rob[m].num_reg_dependent # 0
  <2> SUFFICES ASSUME NEW m \in D PROVE core.rob[m].num_reg_dependent # 0
    OBVIOUS
  <2>1. IsFiniteSet(Awaited(m)) /\ x \in Awaited(m)
    BY <1>5, <1>8
  <2>2. Cardinality(Awaited(m)) # 0
    BY <2>1, FS_EmptySet
  <2> QED
    BY <1>5, <1>8, <2>2
<1>10. \A m \in D : ~ Begun(m)
  BY <1>5, <1>6, <1>9
<1>11. \A m \in D : m \notin Range(ready) /\ core.rob[m].executed = None
  BY <1>10 DEF Begun
<1>12. S \in SUBSET Nat /\ IsFiniteSet(S) /\ S \subseteq ROB
  BY <1>0, <1>5, <1>7, FS_Subset
<1>13. /\ o \in Seq(S) /\ o \in Seq(ROB)
       /\ \A i, j \in 1 .. Len(o) : i # j => o[i] # o[j]
  <2>1. o \in Seq(S) /\ \A i, j \in 1 .. Len(o) : i # j => o[i] # o[j]
    BY <1>12, InOrderLists
  <2> HIDE DEF o
  <2>2. Len(o) \in Nat /\ o \in [1 .. Len(o) -> S]
    BY <2>1
  <2>3. o \in [1 .. Len(o) -> ROB]
    BY <1>12, <2>2
  <2>4. o \in Seq(ROB)
    BY <2>2, <2>3
  <2> QED
    BY <2>1, <2>4
<1> HIDE DEF ready, o
<1>14. \A n \in Range(o) : n \in S
  BY <1>13, RangeOf
<1>15. /\ t \in Seq(ROB)
       /\ \A k, l \in 1 .. Len(t) : k # l => t[k] # t[l]
       /\ \A n : n \in Range(t) <=> n \in Range(ready) \/ n \in Range(o)
  <2>1. \A n \in Range(ready) : n \notin Range(o)
    BY <1>7, <1>11, <1>14 DEF ready
  <2> QED
    BY <1>3, <1>13, <2>1, JoinedApart
<1> HIDE DEF t
<1>16. DependentsLater'
  BY <1>1, <1>2 DEF Completed, Registers, DependentsLater, Dependents
<1>17. CountsAwaited'
  <2> SUFFICES ASSUME NEW n \in ROB PROVE core'.rob[n].num_reg_dependent = Cardinality(Awaited(n)')
    BY <1>1 DEF CountsAwaited
  <2>1. CASE n \in D
    <3>1. /\ IsFiniteSet(Awaited(n)) /\ x \in Awaited(n)
          /\ Awaited(n)' = Awaited(n) \ {x}
          /\ core.rob[n].num_reg_dependent = Cardinality(Awaited(n))
      BY <1>8, <2>1
    <3>2. Cardinality(Awaited(n) \ {x}) = Cardinality(Awaited(n)) - 1
      BY <3>1, FS_RemoveElement
    <3>3. core'.rob[n].num_reg_dependent = core.rob[n].num_reg_dependent - 1
      BY <1>2, <2>1 DEF Completed, D
    <3> QED
      BY <3>1, <3>2, <3>3
  <2>2. CASE n \notin D
    <3>1. x \notin Awaited(n)
      BY <2>2 DEF Awaited, D
    <3>2. Awaited(n)' = Awaited(n)
      BY <1>8, <3>1
    <3>3. core'.rob[n].num_reg_dependent = core.rob[n].num_reg_dependent
      BY <1>2, <2>2 DEF Completed, D
    <3> QED
      BY <1>8, <3>2, <3>3
  <2> QED
    BY <2>1, <2>2
<1>18. BegunFree'
  <2> SUFFICES ASSUME NEW n \in ROB, Begun(n)'
               PROVE  core'.rob[n].num_reg_dependent = 0 /\ core'.rob[n].scheduled # None
    BY <1>1 DEF BegunFree
  <2>1. Begun(n) \/ n \in S
    <3>1. /\ core'.ready_to_execute = t
          /\ core'.rob[n].executed = IF n = x THEN COMPLETED ELSE core.rob[n].executed
          /\ core'.rob[n].source_added = core.rob[n].source_added
          /\ core'.rob[n].destination_added = core.rob[n].destination_added
      BY <1>2 DEF Completed
    <3>2. core'.rob[n].executed # None => core.rob[n].executed # None
      BY <1>4, <3>1 DEF None, INFLIGHT
    <3>3. n \in Range(core'.ready_to_execute) => n \in Range(core.ready_to_execute) \/ n \in S
      BY <1>14, <1>15, <3>1 DEF ready
    <3> QED
      BY <3>1, <3>2, <3>3 DEF Begun
  <2>2. CASE Begun(n)
    <3>1. n \notin D
      BY <1>10, <2>2
    <3> QED
      BY <1>2, <1>6, <2>2, <3>1 DEF Completed, D
  <2>3. CASE n \in S
    <3>1. n \in D /\ core.rob[n].num_reg_dependent = 1
      BY <1>7, <2>3
    <3>2. core.rob[n].scheduled # None
      BY <3>1 DEF Registers, DependentsLater, D
    <3> QED
      BY <1>2, <3>1, <3>2 DEF Completed, D
  <2> QED
    BY <2>1, <2>2, <2>3
<1>19. ReadyOnce'
  <2>1. \A n \in Range(t) : ~IsMemory(n)' /\ core'.rob[n].executed = None
    <3> SUFFICES ASSUME NEW n \in Range(t) PROVE ~IsMemory(n)' /\ core'.rob[n].executed = None
      OBVIOUS
    <3>1. n \in ROB
      BY <1>15, RangeOf
    <3>2. ~IsMemory(n) /\ core.rob[n].executed = None
      BY <1>3, <1>7, <1>11, <1>14, <1>15 DEF ready
    <3>3. n # x
      BY <1>4, <3>2 DEF None, INFLIGHT
    <3>4. IsMemory(n)' = IsMemory(n)
      BY StandingKeeps
    <3> QED
      BY <1>2, <3>1, <3>2, <3>3, <3>4 DEF Completed
  <2>2. core'.ready_to_execute = t
    BY <1>2 DEF Completed
  <2>3. \A n \in Range(core'.ready_to_execute) : ~IsMemory(n)' /\ core'.rob[n].executed = None
    BY <2>1, <2>2
  <2> QED
    BY <1>1, <1>15, <2>2, <2>3 DEF ReadyOnce, Range
<1>20. WritersAwaited'
  <2> SUFFICES ASSUME NEW n \in ROB, core'.rob[n].scheduled # None,
                      NEW reg \in SourceRegisters(n), NEW m \in 1 .. n - 1, LastWriter(n, reg, m)
               PROVE  m <= retired \/ core'.rob[m].executed = COMPLETED \/ n \in Dependents(m)'
    BY <1>0, <1>1, StandingKeeps DEF WritersAwaited, Standing
  <2>1. core.rob[n].scheduled # None
    <3>1. CASE n \in D
      BY <3>1 DEF Registers, DependentsLater, D
    <3>2. CASE n \notin D
      BY <1>2, <3>2 DEF Completed, D
    <3> QED
      BY <3>1, <3>2
  <2>2. m <= retired \/ m \in ROB
    BY EarlierInRob DEF Registers
  <2>3. m <= retired \/ core.rob[m].executed = COMPLETED \/ n \in Dependents(m)
    BY <2>1 DEF Registers, WritersAwaited
  <2>4. m \in ROB => /\ core.rob[m].executed = COMPLETED => core'.rob[m].executed = COMPLETED
                     /\ core'.rob[m].registers_instrs_depend_on_me = core.rob[m].registers_instrs_depend_on_me
    BY <1>2 DEF Completed
  <2> QED
    BY <2>2, <2>3, <2>4 DEF Dependents
<1> QED
  BY <1>1, <1>2, <1>16, <1>17, <1>18, <1>19, <1>20 DEF Registers, Completed

LEMMA DispatchKeepsRegisters ==
    ASSUME Registers, Order', Dispatch
    PROVE  /\ Registers'
           /\ \A n \in ROB : core.rob[n].executed = COMPLETED => core'.rob[n].executed = COMPLETED
<1> DEFINE x == dispatched + 1
           i == [NoInstr EXCEPT !.num_mem_ops = Operations(x),
                                !.destination_memory = StoresOf(x),
                                !.lq_index = [j \in Loads(x) |-> 0],
                                !.sq_index = [k \in StoresOf(x) |-> 0]]
           R == [core.rob EXCEPT ![x] = i]
<1>0. /\ ROB \subseteq Ids
      /\ \A m : m \in ROB <=> m \in Nat /\ retired < m /\ m <= dispatched
      /\ x \in Nat /\ x \notin ROB
  BY RobInTrace DEF Registers, Order
<1>1. dispatched' = x /\ UNCHANGED <<program, warmAt, retired>>
  BY DEF Dispatch, fetchVars
<1>2. /\ ROB' \subseteq Ids
      /\ \A m : m \in ROB' <=> m \in ROB \/ m = x
  <2>1. \A m : m \in ROB' <=> m \in Nat /\ retired < m /\ m <= x
    BY <1>1, SMTT(60) DEF Registers, Order, ROB
  <2>2. retired < x /\ dispatched \in Nat /\ \A m \in Nat : m <= x <=> m <= dispatched \/ m = x
    BY <1>0, SMTT(60) DEF Registers, Order
  <2>3. x \in Ids
    <3>1. x <= decoded
      BY DEF Dispatch
    <3> QED
      BY <1>0, <3>1, SizeAssumption, SMTT(60) DEF Registers, Order, Ids
  <2> HIDE DEF x
  <2>4. ASSUME NEW m PROVE m \in ROB' <=> m \in ROB \/ m = x
    BY <1>0, <2>1, <2>2
  <2> QED
    BY <1>0, <2>3, <2>4
<1>3. x \in Ids
  BY <1>2
<1>4. core' = [core EXCEPT !.rob = R]
  <2>1. "rob" \in DOMAIN core /\ x \in DOMAIN core.rob
    BY <1>3 DEF Registers, Shape, CoreFields
  <2> QED
    BY <2>1 DEF Dispatch
<1>5. /\ DOMAIN i = InstrFields
      /\ i.scheduled = None /\ i.executed = None /\ i.num_reg_dependent = 0
      /\ i.source_added = {} /\ i.destination_added = {}
      /\ i.registers_instrs_depend_on_me = {}
  BY DEF NoInstr, InstrFields
<1> HIDE DEF i
<1>6. DOMAIN R = Ids /\ R[x] = i /\ \A m \in ROB : R[m] = core.rob[m]
  BY <1>0, <1>3 DEF Registers, Shape
<1>7. \A m \in Ids : DOMAIN R[m] = InstrFields
  BY <1>3, <1>5 DEF Registers, Shape
<1> HIDE DEF R, x
<1>8. /\ DOMAIN core' = CoreFields /\ core'.rob = R
      /\ core'.ready_to_execute = core.ready_to_execute
      /\ core'.LQ = core.LQ /\ core'.SQ = core.SQ /\ core'.data = core.data
  BY <1>4 DEF Registers, Shape, CoreFields
<1>9. Shape(core')
  BY <1>6, <1>7, <1>8 DEF Registers, Shape
<1>10. DependentsLater'
  <2>1. ASSUME NEW p \in ROB', NEW n \in core'.rob[p].registers_instrs_depend_on_me
        PROVE  n \in ROB' /\ p < n /\ core'.rob[n].scheduled # None
    <3>1. p \in ROB /\ n \in core.rob[p].registers_instrs_depend_on_me
      BY <1>2, <1>5, <1>6, <1>8, <2>1
    <3>2. n \in ROB /\ p < n /\ core.rob[n].scheduled # None
      BY <3>1 DEF Registers, DependentsLater, Dependents
    <3> QED
      BY <1>2, <1>6, <1>8, <3>2
  <2> QED
    BY <2>1 DEF DependentsLater, Dependents
<1>11. CountsAwaited'
  <2>1. ASSUME NEW n PROVE Awaited(n)' = Awaited(n)
    <3>1. \A p : /\ p \in ROB' /\ core'.rob[p].executed # COMPLETED /\ n \in core'.rob[p].registers_instrs_depend_on_me
                 <=> p \in ROB /\ core.rob[p].executed # COMPLETED /\ n \in core.rob[p].registers_instrs_depend_on_me
      BY <1>2, <1>5, <1>6, <1>8
    <3> QED
      BY <3>1 DEF Awaited, Dependents
  <2>2. ASSUME NEW n \in ROB' PROVE core'.rob[n].num_reg_dependent = Cardinality(Awaited(n))
    <3>1. CASE n \in ROB
      BY <1>6, <1>8, <3>1 DEF Registers, CountsAwaited
    <3>2. CASE n = x
      <4>1. Awaited(x) = {}
        BY <1>0 DEF Awaited, Registers, DependentsLater
      <4> QED
        BY <1>5, <1>6, <1>8, <3>2, <4>1, FS_EmptySet
    <3> QED
      BY <1>2, <3>1, <3>2
  <2> QED
    BY <2>1, <2>2 DEF CountsAwaited
<1>12. /\ core.ready_to_execute \in Seq(ROB)
       /\ \A n \in Range(core.ready_to_execute) : n \in ROB
  <2>1. core.ready_to_execute \in Seq(ROB)
    BY DEF Registers, ReadyOnce
  <2> QED
    BY <2>1, RangeOf
<1>13. BegunFree'
  <2> SUFFICES ASSUME NEW n \in ROB', Begun(n)'
               PROVE  core'.rob[n].num_reg_dependent = 0 /\ core'.rob[n].scheduled # None
    BY DEF BegunFree
  <2>1. n # x
    BY <1>0, <1>5, <1>6, <1>8, <1>12 DEF Begun
  <2>2. n \in ROB /\ Begun(n)
    BY <1>2, <1>6, <1>8, <2>1 DEF Begun
  <2> QED
    BY <1>6, <1>8, <2>2 DEF Registers, BegunFree
<1>14. ReadyOnce'
  <2> DEFINE ready == core.ready_to_execute
  <2>1. ready \in Seq(ROB')
    <3>1. ready \in Seq(ROB) /\ ROB \subseteq ROB'
      BY <1>2, <1>12
    <3> HIDE DEF ready
    <3>2. Len(ready) \in Nat /\ ready \in [1 .. Len(ready) -> ROB]
      BY <3>1
    <3>3. ready \in [1 .. Len(ready) -> ROB']
      BY <3>1, <3>2
    <3> QED
      BY <3>2, <3>3
  <2>2. \A n : IsMemory(n)' = IsMemory(n)
    BY <1>1 DEF IsMemory
  <2>3. \A n \in Range(ready) : ~IsMemory(n)' /\ core'.rob[n].executed = None
    BY <1>6, <1>8, <1>12, <2>2 DEF Registers, ReadyOnce
  <2>4. \A k, l \in 1 .. Len(ready) : k # l => ready[k] # ready[l]
    BY DEF Registers, ReadyOnce
  <2>5. core'.ready_to_execute = ready
    BY <1>8
  <2> HIDE DEF ready
  <2>6. \A n \in Range(core'.ready_to_execute) : ~IsMemory(n)' /\ core'.rob[n].executed = None
    BY <2>3, <2>5
  <2> QED
    BY <2>1, <2>4, <2>5, <2>6 DEF ReadyOnce, Range
<1>15. WritersAwaited'
  <2>1. \A n, reg, m : /\ SourceRegisters(n)' = SourceRegisters(n)
                       /\ LastWriter(n, reg, m)' = LastWriter(n, reg, m)
    BY <1>1 DEF SourceRegisters, LastWriter, DestinationRegisters, Cold, Folded, IsMemory, BranchType
  <2> SUFFICES ASSUME NEW n \in ROB', core'.rob[n].scheduled # None,
                      NEW reg \in SourceRegisters(n), NEW m \in 1 .. n - 1, LastWriter(n, reg, m)
               PROVE  m <= retired \/ core'.rob[m].executed = COMPLETED \/ n \in Dependents(m)'
    BY <1>1, <2>1 DEF WritersAwaited
  <2>2. n \in ROB /\ core.rob[n].scheduled # None
    BY <1>2, <1>5, <1>6, <1>8
  <2>3. m <= retired \/ core.rob[m].executed = COMPLETED \/ n \in Dependents(m)
    BY <2>2 DEF Registers, WritersAwaited
  <2>4. m <= retired \/ m \in ROB
    <3>1. n \in Nat /\ n <= dispatched /\ dispatched \in Nat /\ retired \in Nat
      BY <1>0, <2>2 DEF Registers, Order
    <3>2. m \in Nat /\ m <= dispatched
      BY <3>1, SMTT(60)
    <3> QED
      BY <1>0, <3>1, <3>2
  <2> QED
    BY <1>6, <1>8, <2>3, <2>4 DEF Dependents
<1> QED
  BY <1>6, <1>8, <1>9, <1>10, <1>11, <1>13, <1>14, <1>15 DEF Registers

\* The oldest instruction has its stores accepted but for those refused.
Retires(refused) ==
    LET n == retired + 1
    IN  /\ n \in ROB /\ core.rob[n].executed = COMPLETED
        /\ retired' = IF refused = {} THEN n ELSE retired
        /\ mispredicted' = IF refused = {} THEN mispredicted \ {n} ELSE mispredicted
        /\ \E Q : core' = [core EXCEPT
              !.rob[n] = IF refused = {} THEN NoInstr ELSE [@ EXCEPT !.destination_memory = refused],
              !.SQ = [s \in StoreSlots |-> Q[s]]]
        /\ UNCHANGED <<program, warmAt, read, decoding, decoded, dispatched, fetch_stall, resume>>

LEMMA RetireOne ==
    ASSUME Order, Retire
    PROVE  \E refused : Retires(refused)
<1> DEFINE n == retired + 1
<1>1. n \in ROB /\ core.rob[n].executed = COMPLETED
  BY DEF Retire, ROB, Order
<1>2. PICK refused \in SUBSET core.rob[n].destination_memory :
         LET accepted == core.rob[n].destination_memory \ refused
             gone == {core.rob[n].sq_index[k] : k \in accepted}
         IN  /\ retired' = IF refused = {} THEN n ELSE retired
             /\ mispredicted' = IF refused = {} THEN mispredicted \ {n} ELSE mispredicted
             /\ core' = [core EXCEPT
                   !.rob[n] = IF refused = {} THEN NoInstr ELSE [@ EXCEPT !.destination_memory = refused],
                   !.SQ = [s \in StoreSlots |-> IF s \in gone THEN NoEntry ELSE @[s]]]
  BY DEF Retire
<1>3. UNCHANGED <<program, warmAt, read, decoding, decoded, dispatched, fetch_stall, resume>>
  BY DEF Retire
<1> DEFINE accepted == core.rob[n].destination_memory \ refused
           gone == {core.rob[n].sq_index[k] : k \in accepted}
           Q == [s \in StoreSlots |-> IF s \in gone THEN NoEntry ELSE core.SQ[s]]
           E(f) == [core EXCEPT
                   !.rob[n] = IF refused = {} THEN NoInstr ELSE [@ EXCEPT !.destination_memory = refused],
                   !.SQ = f]
<1>4. core' = E([s \in StoreSlots |-> Q[s]])
  <2>1. core' = [core EXCEPT
                   !.rob[n] = IF refused = {} THEN NoInstr ELSE [@ EXCEPT !.destination_memory = refused],
                   !.SQ = [s \in StoreSlots |-> IF s \in gone THEN NoEntry ELSE @[s]]]
    BY <1>2
  <2>2. core' = E([s \in StoreSlots |-> IF s \in gone THEN NoEntry ELSE core.SQ[s]])
    BY <2>1
  <2>3. [s \in StoreSlots |-> Q[s]] = [s \in StoreSlots |-> IF s \in gone THEN NoEntry ELSE core.SQ[s]]
    OBVIOUS
  <2> QED
    BY <2>2, <2>3
<1> HIDE DEF Q
<1> QED
  BY <1>1, <1>2, <1>3, <1>4, Zenon DEF Retires

LEMMA RetireKeepsRegisters ==
    ASSUME Registers, Order', NEW refused, Retires(refused)
    PROVE  /\ Registers'
           /\ \A n \in ROB' : core.rob[n].executed = COMPLETED => core'.rob[n].executed = COMPLETED
           /\ \A n : n \in ROB' <=> n \in ROB /\ (refused = {} => n # retired + 1)
<1> DEFINE x == retired + 1
           i == IF refused = {} THEN NoInstr ELSE [core.rob[x] EXCEPT !.destination_memory = refused]
           R == [core.rob EXCEPT ![x] = i]
<1>0. /\ ROB \subseteq Ids /\ x \in ROB
      /\ \A m : m \in ROB <=> m \in Nat /\ retired < m /\ m <= dispatched
      /\ core.rob[x].executed = COMPLETED
      /\ retired' = IF refused = {} THEN x ELSE retired
      /\ UNCHANGED <<program, warmAt, dispatched>>
  BY RobInTrace, Zenon DEF Registers, Retires
<1>1. PICK Q : core' = [core EXCEPT
              !.rob[x] = IF refused = {} THEN NoInstr ELSE [@ EXCEPT !.destination_memory = refused],
              !.SQ = [s \in StoreSlots |-> Q[s]]]
  BY Zenon DEF Retires
<1> DEFINE P == [s \in StoreSlots |-> Q[s]]
<1>2. core' = [[core EXCEPT !.rob = R] EXCEPT !.SQ = P]
  <2>1. "rob" \in DOMAIN core /\ x \in DOMAIN core.rob /\ "SQ" \in DOMAIN core
    BY <1>0 DEF Registers, Shape, CoreFields
  <2> HIDE DEF P
  <2> QED
    BY <1>1, <2>1 DEF P
<1>3. ASSUME NEW n PROVE n \in ROB' <=> n \in ROB /\ (refused = {} => n # x)
  BY <1>0, SMTT(60) DEF Registers, Order, ROB
<1>4. ROB' \subseteq ROB /\ \A n \in ROB \ ROB' : n = x
  BY <1>3
<1>5. /\ DOMAIN i = InstrFields
      /\ x \in ROB' => /\ i.executed = core.rob[x].executed
                       /\ i.scheduled = core.rob[x].scheduled
                       /\ i.num_reg_dependent = core.rob[x].num_reg_dependent
                       /\ i.registers_instrs_depend_on_me = core.rob[x].registers_instrs_depend_on_me
                       /\ i.source_added = core.rob[x].source_added
                       /\ i.destination_added = core.rob[x].destination_added
  <2>1. CASE refused = {}
    <3>1. x \notin ROB' /\ i = NoInstr
      BY <1>3, <2>1
    <3> HIDE DEF i, x
    <3> QED
      BY <3>1 DEF NoInstr, InstrFields
  <2>2. CASE refused # {}
    <3>1. DOMAIN core.rob[x] = InstrFields /\ i = [core.rob[x] EXCEPT !.destination_memory = refused]
      BY <1>0, <2>2 DEF Registers, Shape
    <3> HIDE DEF i, x
    <3> QED
      BY <3>1 DEF InstrFields
  <2> QED
    BY <2>1, <2>2
<1>6. DOMAIN R = Ids /\ R[x] = i /\ \A m \in Ids : m # x => R[m] = core.rob[m]
  BY <1>0 DEF Registers, Shape
<1> HIDE DEF i, R, P
<1>7. /\ DOMAIN core' = CoreFields /\ core'.rob = R /\ core'.SQ = P
      /\ core'.ready_to_execute = core.ready_to_execute
      /\ core'.LQ = core.LQ /\ core'.data = core.data
  BY <1>2 DEF Registers, Shape, CoreFields
<1>8. Shape(core')
  <2>1. DOMAIN P = StoreSlots
    BY DEF P
  <2>2. \A m \in Ids : DOMAIN R[m] = InstrFields
    BY <1>5, <1>6 DEF Registers, Shape
  <2> QED
    BY <1>6, <1>7, <2>1, <2>2 DEF Registers, Shape
<1> HIDE DEF x
<1>9. \A m \in ROB' :
         /\ core'.rob[m].executed = core.rob[m].executed
         /\ core'.rob[m].scheduled = core.rob[m].scheduled
         /\ core'.rob[m].num_reg_dependent = core.rob[m].num_reg_dependent
         /\ core'.rob[m].registers_instrs_depend_on_me = core.rob[m].registers_instrs_depend_on_me
         /\ core'.rob[m].source_added = core.rob[m].source_added
         /\ core'.rob[m].destination_added = core.rob[m].destination_added
  BY <1>0, <1>4, <1>5, <1>6, <1>7
<1>10. DependentsLater'
  <2>1. ASSUME NEW p \in ROB', NEW n \in core'.rob[p].registers_instrs_depend_on_me
        PROVE  n \in ROB' /\ p < n /\ core'.rob[n].scheduled # None
    <3>1. n \in ROB /\ p < n /\ core.rob[n].scheduled # None
      BY <1>4, <1>9 DEF Registers, DependentsLater, Dependents
    <3>2. n # x
      BY <1>0, <1>4, <3>1 DEF x, Registers, Order
    <3> QED
      BY <1>3, <1>9, <3>1, <3>2
  <2> QED
    BY <2>1 DEF DependentsLater, Dependents
<1>11. CountsAwaited'
  <2>1. ASSUME NEW n PROVE Awaited(n)' = Awaited(n)
    <3>1. \A p : /\ p \in ROB' /\ core'.rob[p].executed # COMPLETED /\ n \in core'.rob[p].registers_instrs_depend_on_me
                 <=> p \in ROB /\ core.rob[p].executed # COMPLETED /\ n \in core.rob[p].registers_instrs_depend_on_me
      BY <1>0, <1>3, <1>9
    <3> QED
      BY <3>1 DEF Awaited, Dependents
  <2>2. ASSUME NEW n \in ROB' PROVE core'.rob[n].num_reg_dependent = Cardinality(Awaited(n))
    BY <1>4, <1>9 DEF Registers, CountsAwaited
  <2> QED
    BY <2>1, <2>2 DEF CountsAwaited
<1>12. BegunFree'
  <2> SUFFICES ASSUME NEW n \in ROB', Begun(n)'
               PROVE  core'.rob[n].num_reg_dependent = 0 /\ core'.rob[n].scheduled # None
    BY DEF BegunFree
  <2>1. n \in ROB /\ Begun(n)
    BY <1>4, <1>7, <1>9 DEF Begun
  <2> QED
    BY <1>9, <2>1 DEF Registers, BegunFree
<1>13. ReadyOnce'
  <2> DEFINE ready == core.ready_to_execute
  <2>1. /\ ready \in Seq(ROB)
        /\ \A k, l \in 1 .. Len(ready) : k # l => ready[k] # ready[l]
        /\ \A n \in Range(ready) : ~IsMemory(n) /\ core.rob[n].executed = None
    BY DEF Registers, ReadyOnce
  <2>2. core'.ready_to_execute = ready
    BY <1>7
  <2> HIDE DEF ready
  <2>3. \A n \in Range(ready) : n \in ROB'
    <3>1. \A n \in Range(ready) : n \in ROB /\ n # x
      BY <1>0, <2>1, RangeOf DEF None, COMPLETED
    <3> QED
      BY <1>3, <3>1
  <2>4. ready \in Seq(ROB')
    <3>1. Len(ready) \in Nat /\ ready \in [1 .. Len(ready) -> ROB]
      BY <2>1
    <3>2. \A k \in 1 .. Len(ready) : ready[k] \in ROB'
      BY <2>1, <2>3, RangeOf
    <3>3. ready \in [1 .. Len(ready) -> ROB']
      BY <3>1, <3>2
    <3> QED
      BY <3>1, <3>3
  <2>5. \A n : IsMemory(n)' = IsMemory(n)
    BY <1>0 DEF IsMemory
  <2>6. \A n \in Range(ready) : ~IsMemory(n)' /\ core'.rob[n].executed = None
    BY <1>9, <2>1, <2>3, <2>5
  <2>7. \A n \in Range(core'.ready_to_execute) : ~IsMemory(n)' /\ core'.rob[n].executed = None
    BY <2>2, <2>6
  <2> QED
    BY <2>1, <2>2, <2>4, <2>7 DEF ReadyOnce, Range
<1>14. WritersAwaited'
  <2>1. \A n, reg, m : /\ SourceRegisters(n)' = SourceRegisters(n)
                       /\ LastWriter(n, reg, m)' = LastWriter(n, reg, m)
    BY <1>0 DEF SourceRegisters, LastWriter, DestinationRegisters, Cold, Folded, IsMemory, BranchType
  <2> SUFFICES ASSUME NEW n \in ROB', core'.rob[n].scheduled # None,
                      NEW reg \in SourceRegisters(n), NEW m \in 1 .. n - 1, LastWriter(n, reg, m)
               PROVE  m <= retired' \/ core'.rob[m].executed = COMPLETED \/ n \in Dependents(m)'
    BY <2>1 DEF WritersAwaited
  <2>2. n \in ROB /\ core.rob[n].scheduled # None
    BY <1>4, <1>9
  <2>3. m <= retired \/ core.rob[m].executed = COMPLETED \/ n \in Dependents(m)
    BY <2>2 DEF Registers, WritersAwaited
  <2>4. m <= retired' \/ m \in ROB'
    <3>1. n \in Nat /\ n <= dispatched /\ dispatched \in Nat /\ retired \in Nat
      BY <1>0, <2>2 DEF Registers, Order
    <3>2. m \in Nat /\ m <= dispatched /\ (m <= retired \/ m \in ROB)
      BY <1>0, <3>1
    <3>3. retired' \in Nat /\ retired <= retired' /\ (x \notin ROB' => x <= retired')
      BY <1>0, <1>3, <3>1 DEF x
    <3>4. CASE m = x
      BY <3>3, <3>4
    <3>5. CASE m # x
      BY <1>3, <3>1, <3>2, <3>3, <3>5
    <3> QED
      BY <3>4, <3>5
  <2>5. m <= retired => m <= retired'
    <3>1. retired \in Nat /\ m \in Int
      BY <1>0, <2>2 DEF Registers, Order
    <3> QED
      BY <1>0, <3>1 DEF x
  <2> QED
    BY <1>9, <2>3, <2>4, <2>5 DEF Dependents
<1> QED
  BY <1>3, <1>8, <1>9, <1>10, <1>11, <1>12, <1>13, <1>14 DEF Registers, x

\* The actions that leave the dependences through registers alone.
Apart ==
    \/ Fetch \/ ScheduleMemory \/ TranslateStore \/ TranslateLoad \/ DataTranslated
    \/ ExecuteStore \/ ExecuteLoad \/ DataReturned \/ UNCHANGED vars

LEMMA SameIsEntered ==
    ASSUME Order, NEW c, NEW d, SameRegisters(c, d, 0)
    PROVE  MemoryEntered(c, d, 0)
<1>1. \A m \in Ids : m # 0
  BY RobInTrace DEF Ids
<1> QED
  BY <1>1 DEF SameRegisters, MemoryEntered

\* Only the ready queues and the store array are different.
QueuesOnly ==
    /\ DOMAIN core' = CoreFields
    /\ \A f \in CoreFields \ {"RTS0", "RTS1", "RTL0", "RTL1", "STA"} : core'[f] = core[f]

LEMMA QueuesApart ==
    ASSUME Shape(core), QueuesOnly
    PROVE  SameRegisters(core, core', 0)
<1>1. /\ core'.rob = core.rob /\ core'.LQ = core.LQ /\ core'.SQ = core.SQ /\ core'.data = core.data
      /\ core'.ready_to_execute = core.ready_to_execute /\ core'.inflight_reg = core.inflight_reg
  BY DEF QueuesOnly, CoreFields
<1> QED
  BY <1>1 DEF QueuesOnly, Shape, SameRegisters

LEMMA ApartEnters ==
    ASSUME Registers, Apart
    PROVE  /\ Standing
           /\ \E x : /\ MemoryEntered(core, core', x)
                     /\ x \in ROB => /\ IsMemory(x) /\ core.rob[x].num_reg_dependent = 0
                                     /\ core.rob[x].scheduled # None
<1>0. Order /\ Shape(core) /\ 0 \notin ROB
  BY RobInTrace DEF Registers, Order
<1>1. SUFFICES Standing /\ (SameRegisters(core, core', 0) \/ ScheduleMemory)
  <2>1. ASSUME SameRegisters(core, core', 0)
        PROVE  MemoryEntered(core, core', 0) /\ 0 \notin ROB
    BY <1>0, <2>1, SameIsEntered
  <2>2. ASSUME ScheduleMemory
        PROVE  \E x \in ROB : /\ MemoryEntered(core, core', x)
                              /\ IsMemory(x) /\ core.rob[x].num_reg_dependent = 0
                              /\ core.rob[x].scheduled # None
    <3>1. PICK x \in ROB : /\ IsMemory(x) /\ core.rob[x].num_reg_dependent = 0
                           /\ core.rob[x].scheduled = INFLIGHT
                           /\ core' = MemoryScheduled(core, x)
      BY <2>2 DEF ScheduleMemory
    <3>2. MemoryEntered(core, core', x)
      BY <1>0, <3>1, MemoryScheduledRegisters
    <3> QED
      BY <3>1, <3>2 DEF None, INFLIGHT
  <2> QED
    BY <2>1, <2>2
<1>2. QueuesOnly => SameRegisters(core, core', 0)
  BY <1>0, QueuesApart
<1>3. CASE Fetch
  <2>1. UNCHANGED <<program, warmAt>>
    BY <1>3 DEF Fetch, FetchNext, InitInstruction, CheckDib, TranslateFetch, Translated, FetchInstruction,
               Fetched, PromoteToDecode, DecodeInstruction, ResumeFetch
  <2>2. UNCHANGED <<dispatched, retired>>
    BY <1>3 DEF Fetch
  <2>3. QueuesOnly
    <3>1. core' = core \/ PushSTA
      BY <1>3 DEF Fetch
    <3> QED
      BY <1>0, <3>1 DEF PushSTA, QueuesOnly, Shape, CoreFields
  <2> QED
    BY <1>2, <2>1, <2>2, <2>3, ZenonT(60) DEF Standing
<1>4. CASE ScheduleMemory
  BY <1>4 DEF ScheduleMemory, Standing, fetchVars
<1>5. CASE TranslateStore
  <2>1. QueuesOnly
    BY <1>0, <1>5 DEF TranslateStore, QueuesOnly, Shape, CoreFields
  <2>2. Standing
    BY <1>5 DEF TranslateStore, Standing, fetchVars
  <2> QED
    BY <1>2, <2>1, <2>2
<1>6. CASE TranslateLoad
  <2>1. QueuesOnly
    BY <1>0, <1>6 DEF TranslateLoad, QueuesOnly, Shape, CoreFields
  <2>2. Standing
    BY <1>6 DEF TranslateLoad, Standing, fetchVars
  <2> QED
    BY <1>2, <2>1, <2>2
<1>7. CASE DataTranslated
  <2>1. PICK e \in dtlb : core' = IF e.queue = "SQ" THEN [core EXCEPT !.RTS1 = Append(@, e.slot)]
                                  ELSE [core EXCEPT !.RTL1 = Append(@, e.slot)]
    BY <1>7 DEF DataTranslated
  <2>2. QueuesOnly
    BY <1>0, <2>1 DEF QueuesOnly, Shape, CoreFields
  <2>3. Standing
    BY <1>7 DEF DataTranslated, Standing, fetchVars
  <2> QED
    BY <1>2, <2>2, <2>3
<1>8. CASE ExecuteStore
  <2> DEFINE slot == Head(core.RTS1)
             n == core.SQ[slot].instr
             visits == Visits(n, core.SQ[slot].address)
             L == [core.SQ EXCEPT ![slot] = [core.SQ[slot] EXCEPT !.fetched = TRUE]]
             ops == {[instr |-> n, slot |-> slot]}
             t == Tail(core.RTS1)
             c == [core EXCEPT !.RTS1 = Tail(@), !.SQ[slot].fetched = TRUE]
             d == Performed(c, ops)
             slots == {v.slot : v \in visits}
  <2>1. core' = Forwarded(d, slots, n)
    BY <1>8 DEF ExecuteStore
  <2>2. c = [[core EXCEPT !.RTS1 = t] EXCEPT !.SQ = L]
    BY <1>0 DEF Shape, CoreFields
  <2>3. DOMAIN L = StoreSlots
    BY <1>0, ZenonT(60) DEF Shape
  <2>4. Standing
    BY <1>8 DEF ExecuteStore, Standing, fetchVars
  <2> HIDE DEF slots, ops, n, slot, L, t
  <2>5. SameRegisters(core, c, 0)
    <3> HIDE DEF c
    <3> QED
      BY <1>0, <2>2, <2>3 DEF Shape, SameRegisters, CoreFields
  <2>6. Shape(c)
    BY <2>5 DEF SameRegisters
  <2> HIDE DEF c
  <2>7. SameRegisters(c, d, 0)
    BY <2>6, PerformedRegisters
  <2>8. Shape(d)
    BY <2>7 DEF SameRegisters
  <2> HIDE DEF d
  <2>9. SameRegisters(d, core', 0)
    BY <2>1, <2>8, ForwardedRegisters
  <2> QED
    BY <2>4, <2>5, <2>7, <2>9, SameRegistersTransitive, Zenon
<1>9. CASE ExecuteLoad
  <2>1. QueuesOnly
    BY <1>0, <1>9 DEF ExecuteLoad, QueuesOnly, Shape, CoreFields
  <2>2. Standing
    BY <1>9 DEF ExecuteLoad, Standing, fetchVars
  <2> QED
    BY <1>2, <2>1, <2>2
<1>10. CASE DataReturned
  <2>1. PICK slot \in l1d : core' = Loaded(core, {slot}, memory)
    BY <1>10 DEF DataReturned
  <2>2. Standing
    BY <1>10 DEF DataReturned, Standing, fetchVars
  <2> QED
    BY <1>0, <2>1, <2>2, LoadedRegisters
<1>11. CASE UNCHANGED vars
  BY <1>0, <1>2, <1>11 DEF vars, backVars, fetchVars, Standing, QueuesOnly, Shape
<1> QED
  BY <1>3, <1>4, <1>5, <1>6, <1>7, <1>8, <1>9, <1>10, <1>11 DEF Apart

LEMMA RegistersInit == Init => Registers /\ Mispredictions
<1> SUFFICES ASSUME Init PROVE Registers /\ Mispredictions
  OBVIOUS
<1>1. Order /\ ROB = {}
  BY OrderInit DEF Init, ROB
<1>2. /\ Shape(core) /\ core.ready_to_execute = <<>>
  BY DEF Init, NewCore, NoInstr, Shape, CoreFields, InstrFields
<1>3. DependentsLater /\ CountsAwaited /\ BegunFree /\ WritersAwaited
  BY <1>1 DEF DependentsLater, CountsAwaited, BegunFree, WritersAwaited
<1>4. ReadyOnce
  <2>1. /\ <<>> \in Seq(ROB) /\ Len(<<>>) = 0
        /\ \A n : n \notin Range(<<>>)
    BY DEF Range
  <2> QED
    BY <1>2, <2>1 DEF ReadyOnce
<1>5. Mispredictions
  BY DEF Init, FetchInit, Mispredictions, Unresolved
<1> QED
  BY <1>1, <1>2, <1>3, <1>4, <1>5 DEF Registers

LEMMA RegistersStep ==
    ASSUME Registers, [Next]_vars
    PROVE  /\ Registers'
           /\ \A n \in ROB : n \in ROB' /\ core.rob[n].executed = COMPLETED => core'.rob[n].executed = COMPLETED
<1>1. Order'
  BY OrderStep DEF Registers
<1>2. CASE Apart
  <2>1. Standing
    BY <1>2, ApartEnters
  <2>2. PICK x : /\ MemoryEntered(core, core', x)
                 /\ x \in ROB => /\ IsMemory(x) /\ core.rob[x].num_reg_dependent = 0
                                 /\ core.rob[x].scheduled # None
    BY <1>2, ApartEnters
  <2>3. Registers'
    BY <1>1, <2>1, <2>2, MemoryKeepsRegisters
  <2>4. \A n \in ROB : core.rob[n].executed = COMPLETED => core'.rob[n].executed = COMPLETED
    BY <2>2, RobInTrace DEF Registers, MemoryEntered, None, COMPLETED
  <2> QED
    BY <2>3, <2>4
<1>3. CASE Dispatch
  BY <1>1, <1>3, DispatchKeepsRegisters
<1>4. CASE Schedule
  BY <1>1, <1>4, ScheduleKeepsRegisters
<1>5. CASE Execute
  BY <1>1, <1>5, ExecuteKeepsRegisters
<1>6. CASE Complete
  <2>1. PICK x \in ROB : Completes(x)
    BY <1>6, CompleteOne
  <2>2. Standing
    BY <1>6, StandingAction
  <2> QED
    BY <1>1, <2>1, <2>2, CompleteKeepsRegisters
<1>7. CASE Retire
  <2>1. PICK refused : Retires(refused)
    BY <1>7, RetireOne DEF Registers
  <2> QED
    BY <1>1, <2>1, RetireKeepsRegisters
<1> QED
  BY <1>2, <1>3, <1>4, <1>5, <1>6, <1>7 DEF Next, Apart

LEMMA RegistersReadyFrom ==
    ASSUME Registers
    PROVE  RegistersReady
<1> SUFFICES ASSUME NEW n \in ROB, Begun(n), NEW reg \in SourceRegisters(n),
                    NEW m \in 1 .. n - 1, reg \in DestinationRegisters(m),
                    \A l \in {l \in 1 .. n - 1 : reg \in DestinationRegisters(l)} : l <= m
             PROVE  m <= retired \/ core.rob[m].executed = COMPLETED
  BY DEF RegistersReady
<1>0. /\ IsFiniteSet(ROB)
      /\ \A k : k \in ROB <=> k \in Nat /\ retired < k /\ k <= dispatched
  BY RobInTrace DEF Registers
<1>1. core.rob[n].num_reg_dependent = 0 /\ core.rob[n].scheduled # None
  BY DEF Registers, BegunFree
<1>2. Awaited(n) = {}
  <2>1. Cardinality(Awaited(n)) = 0
    BY <1>1 DEF Registers, CountsAwaited
  <2>2. IsFiniteSet(Awaited(n))
    BY <1>0, FS_Subset DEF Awaited
  <2> QED
    BY <2>1, <2>2, FS_EmptySet
<1>3. LastWriter(n, reg, m)
  BY DEF LastWriter
<1>4. m <= retired \/ core.rob[m].executed = COMPLETED \/ n \in Dependents(m)
  BY <1>1, <1>3 DEF Registers, WritersAwaited
<1>5. m <= retired \/ m \in ROB
  BY <1>0, SMTT(60) DEF Registers, Order
<1> QED
  BY <1>2, <1>4, <1>5 DEF Awaited

LEMMA MispredictionsStep ==
    ASSUME Registers, Mispredictions, [Next]_vars
    PROVE  Mispredictions'
<1>0. /\ \A k : k \in ROB <=> k \in Nat /\ retired < k /\ k <= dispatched
      /\ retired \in Nat /\ dispatched \in Nat /\ read \in Nat
      /\ retired <= dispatched /\ dispatched <= read
  BY RobInTrace DEF Registers, Order
<1>1. \A n \in ROB : n \in ROB' /\ core.rob[n].executed = COMPLETED => core'.rob[n].executed = COMPLETED
  BY RegistersStep
<1>2. /\ \A n \in mispredicted : n \in Nat /\ retired < n /\ n <= read
      /\ \A n \in mispredicted : Unresolved(n) => read = n /\ fetch_stall
      /\ resume => fetch_stall /\ \A n \in mispredicted : ~ Unresolved(n)
  BY <1>0 DEF Mispredictions
<1>3. ASSUME UNCHANGED <<dispatched, retired>>, NEW n \in mispredicted
      PROVE  n > dispatched' \/ core'.rob[n].executed # COMPLETED => Unresolved(n)
  <2>1. n > dispatched \/ (n \in ROB /\ n \in ROB')
    BY <1>0, <1>2, <1>3 DEF ROB
  <2> QED
    BY <1>1, <1>3, <2>1 DEF Unresolved
<1>4. CASE UNCHANGED <<read, dispatched, retired, mispredicted, fetch_stall, resume>>
  BY <1>3, <1>4, ZenonT(60) DEF Mispredictions, Unresolved
<1>5. CASE Fetch
  <2>0. UNCHANGED <<dispatched, retired>>
    BY <1>5 DEF Fetch
  <2>1. CASE InitInstruction
    <3>1. /\ ~fetch_stall /\ read' = read + 1 /\ resume' = resume
          /\ \/ UNCHANGED <<fetch_stall, mispredicted>>
             \/ fetch_stall' = TRUE /\ mispredicted' = mispredicted \cup {read + 1}
      BY <2>1 DEF InitInstruction
    <3>2. ~ resume' /\ \A n \in mispredicted : ~ Unresolved(n)
      BY <1>2, <3>1
    <3>3. mispredicted' \subseteq retired' + 1 .. read'
      BY <1>0, <1>2, <2>0, <3>1
    <3>4. \A n \in mispredicted' : n \notin mispredicted => read' = n /\ fetch_stall'
      BY <3>1
    <3>5. \A n \in mispredicted' : Unresolved(n)' => n \notin mispredicted
      BY <1>3, <2>0, <3>2 DEF Unresolved
    <3> QED
      BY <3>2, <3>3, <3>4, <3>5 DEF Mispredictions
  <2>2. CASE DecodeInstruction
    <3>1. UNCHANGED <<read, fetch_stall>>
      BY <2>2 DEF DecodeInstruction
    <3>2. \/ UNCHANGED <<mispredicted, resume>>
          \/ \E n \in mispredicted : n > dispatched /\ mispredicted' = mispredicted \ {n} /\ resume' = TRUE
      <4>1. decoded + 1 > dispatched
        BY DEF Registers, Order
      <4> QED
        BY <2>2, <4>1 DEF DecodeInstruction
    <3>3. CASE UNCHANGED <<mispredicted, resume>>
      BY <1>4, <2>0, <3>1, <3>3
    <3>4. ASSUME NEW n \in mispredicted, n > dispatched, mispredicted' = mispredicted \ {n}, resume' = TRUE
          PROVE  Mispredictions'
      <4>1. Unresolved(n) /\ read = n /\ fetch_stall
        BY <1>2, <3>4 DEF Unresolved
      <4>2. \A k \in mispredicted' : ~ Unresolved(k)
        BY <1>2, <3>4, <4>1
      <4>3. \A k \in mispredicted' : ~ Unresolved(k)'
        BY <1>3, <2>0, <3>4, <4>2 DEF Unresolved
      <4> QED
        BY <2>0, <3>1, <3>4, <4>1, <4>3 DEF Mispredictions
    <3> QED
      BY <3>2, <3>3, <3>4
  <2>3. CASE ResumeFetch
    <3>1. resume /\ ~ resume' /\ UNCHANGED <<read, mispredicted>>
      BY <2>3 DEF ResumeFetch
    <3>2. \A n \in mispredicted' : ~ Unresolved(n)'
      BY <1>2, <1>3, <2>0, <3>1 DEF Unresolved
    <3> QED
      BY <2>0, <3>1, <3>2 DEF Mispredictions
  <2>4. CASE UNCHANGED <<read, mispredicted, fetch_stall, resume>>
    BY <1>4, <2>0, <2>4
  <2> QED
    BY <1>5, <2>1, <2>2, <2>3, <2>4
    DEF Fetch, FetchNext, CheckDib, TranslateFetch, Translated, FetchInstruction, Fetched, PromoteToDecode
<1>6. CASE Dispatch
  <2>1. UNCHANGED <<read, retired, mispredicted, fetch_stall, resume>> /\ dispatched' = dispatched + 1
    BY <1>6 DEF Dispatch, fetchVars
  <2>2. \A n \in mispredicted : Unresolved(n)' => Unresolved(n)
    <3> SUFFICES ASSUME NEW n \in mispredicted, n <= dispatched, core.rob[n].executed = COMPLETED
                 PROVE  ~ (n > dispatched + 1) /\ core'.rob[n].executed = COMPLETED
      BY <1>0, <1>2, <2>1 DEF Unresolved
    <3>1. n \in ROB /\ n \in ROB'
      BY <1>0, <1>2, <2>1 DEF ROB
    <3> QED
      BY <1>0, <1>1, <1>2, <3>1
  <2> QED
    BY <2>1, <2>2 DEF Mispredictions, Unresolved
<1>7. CASE Complete
  <2>1. PICK x \in ROB : Completes(x)
    BY <1>7, CompleteOne
  <2>2. UNCHANGED <<read, dispatched, retired, mispredicted, fetch_stall>>
    BY <1>7 DEF Complete
  <2>3. resume' = (resume \/ x \in mispredicted) /\ core.rob[x].executed = INFLIGHT
    BY <2>1 DEF Completes
  <2>4. CASE x \notin mispredicted
    <3>1. resume' => resume
      BY <2>3, <2>4
    <3> QED
      BY <1>2, <1>3, <2>2, <3>1 DEF Mispredictions, Unresolved
  <2>5. CASE x \in mispredicted
    <3>1. Unresolved(x) /\ read = x /\ fetch_stall
      BY <1>2, <2>3, <2>5 DEF Unresolved, INFLIGHT, COMPLETED
    <3>2. core'.rob[x].executed = COMPLETED /\ x <= dispatched
      BY <1>0, <2>1, CompletesFields DEF Completed
    <3>3. \A n \in mispredicted' : ~ Unresolved(n)'
      <4>1. ASSUME NEW n \in mispredicted', Unresolved(n)' PROVE FALSE
        <5>1. n \in mispredicted /\ Unresolved(n)
          BY <1>3, <2>2, <4>1 DEF Unresolved
        <5>2. n = x
          BY <1>2, <3>1, <5>1
        <5> QED
          BY <1>0, <2>2, <3>2, <4>1, <5>2 DEF Unresolved
      <4> QED
        BY <4>1
    <3> QED
      BY <2>2, <3>1, <3>3 DEF Mispredictions
  <2> QED
    BY <2>4, <2>5
<1>8. CASE Retire
  <2>1. PICK refused : Retires(refused)
    BY <1>8, RetireOne DEF Registers
  <2>2. /\ UNCHANGED <<read, dispatched, fetch_stall, resume>>
        /\ retired' = IF refused = {} THEN retired + 1 ELSE retired
        /\ mispredicted' = IF refused = {} THEN mispredicted \ {retired + 1} ELSE mispredicted
    BY <2>1 DEF Retires
  <2>3. \A n \in mispredicted' : n \in mispredicted /\ retired' < n
    BY <1>0, <1>2, <2>2
  <2>4. \A n \in mispredicted' : Unresolved(n)' => Unresolved(n)
    <3> SUFFICES ASSUME NEW n \in mispredicted', n <= dispatched, core.rob[n].executed = COMPLETED
                 PROVE  core'.rob[n].executed = COMPLETED
      BY <1>0, <1>2, <2>2, <2>3 DEF Unresolved
    <3>1. n \in ROB /\ n \in ROB'
      BY <1>0, <1>2, <2>2, <2>3 DEF ROB
    <3> QED
      BY <1>1, <3>1
  <2>5. mispredicted' \subseteq retired' + 1 .. read'
    BY <1>0, <1>2, <2>2, <2>3
  <2> QED
    BY <1>2, <2>2, <2>3, <2>4, <2>5 DEF Mispredictions
<1> QED
  BY <1>4, <1>5, <1>6, <1>7, <1>8
  DEF Next, Schedule, Execute, ScheduleMemory, TranslateStore, TranslateLoad, DataTranslated, ExecuteStore,
      ExecuteLoad, DataReturned, fetchVars, backVars, vars

\* What an instruction reads has been produced before it begins (do_scheduling,
\* do_complete_execution).
THEOREM CoreRegistersReady == Spec => []RegistersReady
<1>1. Init => Registers
  BY RegistersInit
<1>2. Registers /\ [Next]_vars => Registers'
  BY RegistersStep
<1>3. Registers => RegistersReady
  BY RegistersReadyFrom
<1> QED
  BY <1>1, <1>2, <1>3, PTL DEF Spec

\* While a mispredicted branch is in the machine unresolved, it is the last
\* instruction read from the trace (init_instruction, fetch_resume_cycle).
THEOREM CoreNothingReadPastMispredict == Spec => []NothingReadPastMispredict
<1>1. Init => Registers /\ Mispredictions
  BY RegistersInit
<1>2. Registers /\ Mispredictions /\ [Next]_vars => Registers' /\ Mispredictions'
  BY RegistersStep, MispredictionsStep
<1>3. Registers /\ Mispredictions => NothingReadPastMispredict
  BY DEF Mispredictions, Unresolved, NothingReadPastMispredict
<1> QED
  BY <1>1, <1>2, <1>3, PTL DEF Spec

-----------------------------------------------------------------------------
(* The load and store queues: what their entries are worth.  P is the trace, *)
(* c the core, and the ROB holds lo + 1 .. hi.                               *)

Bounds(P, lo, hi) ==
    /\ P \in Seq(Instruction) /\ Len(P) <= MaxLength
    /\ lo \in Nat /\ hi \in Nat /\ lo <= hi /\ hi <= Len(P)

EntriesOf(c, n) == {s \in LoadSlots : c.LQ[s].instr = n}

Unadded(P, c, n) == (1 .. Len(P[n].load)) \ c.rob[n].source_added

Executed(c, n, k) == k \in c.rob[n].destination_added /\ c.SQ[c.rob[n].sq_index[k]].fetched

Unexecuted(P, c, n) == {k \in 1 .. Len(P[n].store) : ~ Executed(c, n, k)}

\* The entries of stores that the L1D has not accepted.
LiveStores(c, n) == c.rob[n].destination_added \cap c.rob[n].destination_memory

QueuesTyped(c) ==
    /\ c.RTL0 \in Seq(LoadSlots) /\ c.RTL1 \in Seq(LoadSlots)
    /\ c.RTS0 \in Seq(StoreSlots) /\ c.RTS1 \in Seq(StoreSlots)

InstrTyped(P, c, n, hi) ==
    /\ c.rob[n].source_added \subseteq 1 .. Len(P[n].load)
    /\ c.rob[n].destination_added \subseteq 1 .. Len(P[n].store)
    /\ c.rob[n].destination_memory \subseteq 1 .. Len(P[n].store)
    /\ DOMAIN c.rob[n].lq_index = 1 .. Len(P[n].load)
    /\ DOMAIN c.rob[n].sq_index = 1 .. Len(P[n].store)
    /\ \A j \in c.rob[n].source_added : c.rob[n].lq_index[j] \in LoadSlots
    /\ c.rob[n].memory_instrs_depend_on_me \in Seq(n + 1 .. hi)

\* An entry of the load queue belongs to a source of an instruction in the ROB, and the
\* store it waits for to an earlier one.
LoadEntry(P, c, lo, hi, s) ==
    LET e == c.LQ[s]
    IN  \/ e = NoEntry
        \/ /\ e = [instr |-> e.instr, address |-> e.address, producer |-> e.producer]
           /\ e.instr \in lo + 1 .. hi
           /\ e.producer # 0 => e.producer \in lo + 1 .. e.instr - 1
           /\ \E j \in c.rob[e.instr].source_added :
                 P[e.instr].load[j] = e.address /\ c.rob[e.instr].lq_index[j] = s

\* An entry of the store queue belongs to a store that is still to be written.
StoreEntry(c, lo, hi, s) ==
    LET e == c.SQ[s]
    IN  \/ e = NoEntry
        \/ /\ e = [instr |-> e.instr, address |-> e.address, fetched |-> e.fetched]
           /\ e.instr \in lo + 1 .. hi /\ e.fetched \in BOOLEAN
           /\ \E k \in LiveStores(c, e.instr) : c.rob[e.instr].sq_index[k] = s

\* A store to be written that is in the queue has an entry of its own.
StorePlaced(P, c, n, k) ==
    LET s == c.rob[n].sq_index[k]
    IN  /\ s \in StoreSlots /\ c.SQ[s] # NoEntry
        /\ c.SQ[s].instr = n /\ c.SQ[s].address = P[n].store[k]
        /\ \A l \in LiveStores(c, n) : c.rob[n].sq_index[l] = s => l = k

\* num_mem_ops counts what is not over, and all is over when n has completed.
Counted(P, c, n) ==
    IF c.rob[n].executed # COMPLETED
    THEN /\ c.rob[n].destination_memory = 1 .. Len(P[n].store)
         /\ c.rob[n].num_mem_ops = Cardinality(Unadded(P, c, n)) + Cardinality(EntriesOf(c, n))
                                     + Cardinality(Unexecuted(P, c, n))
    ELSE /\ Unadded(P, c, n) = {} /\ EntriesOf(c, n) = {}
         /\ c.rob[n].destination_added = 1 .. Len(P[n].store)
         /\ \A k \in c.rob[n].destination_memory : Executed(c, n, k)

Queues(P, c, lo, hi) ==
    /\ QueuesTyped(c)
    /\ \A n \in lo + 1 .. hi : InstrTyped(P, c, n, hi) /\ Counted(P, c, n)
    /\ \A s \in LoadSlots : LoadEntry(P, c, lo, hi, s)
    /\ \A s \in StoreSlots : StoreEntry(c, lo, hi, s)
    /\ \A n \in lo + 1 .. hi : \A k \in LiveStores(c, n) : StorePlaced(P, c, n, k)

\* An entry that waits for a store is on its instruction's list, and the store is not
\* executed.
Pending(P, c, s) ==
    LET e == c.LQ[s]
    IN  e # NoEntry /\ e.producer # 0 =>
            /\ e.instr \in Range(c.rob[e.producer].memory_instrs_depend_on_me)
            /\ \E k \in c.rob[e.producer].destination_memory :
                  P[e.producer].store[k] = e.address /\ ~ Executed(c, e.producer, k)

OneIf(b) == IF b THEN 1 ELSE 0

LoadsAt(c, d, l, s) ==
    Times(s, c.RTL0) + Times(s, c.RTL1) + OneIf(s \in l) + OneIf([queue |-> "LQ", slot |-> s] \in d)

StoresAt(c, d, s) ==
    Times(s, c.RTS0) + Times(s, c.RTS1) + OneIf([queue |-> "SQ", slot |-> s] \in d)

LoadHeld(c, d, l, s) ==
    LoadsAt(c, d, l, s) = OneIf(c.LQ[s] # NoEntry /\ c.LQ[s].producer = 0)

StoreHeld(c, d, s) ==
    StoresAt(c, d, s) = OneIf(c.SQ[s] # NoEntry /\ ~ c.SQ[s].fetched)

Held(c, d, l) ==
    /\ \A s \in LoadSlots : LoadHeld(c, d, l, s)
    /\ \A s \in StoreSlots : StoreHeld(c, d, s)

DtlbEntry == [queue : {"LQ"}, slot : LoadSlots] \cup [queue : {"SQ"}, slot : StoreSlots]

QueuesHeld(P, c, d, l, lo, hi) ==
    /\ Queues(P, c, lo, hi)
    /\ \A s \in LoadSlots : Pending(P, c, s)
    /\ Held(c, d, l)

LsqInv ==
    /\ QueuesHeld(program, core, dtlb, l1d, retired, dispatched)
    /\ l1d \subseteq LoadSlots /\ dtlb \subseteq DtlbEntry

-----------------------------------------------------------------------------
(* Counting. *)

LEMMA SlotsAreFinite ==
    /\ IsFiniteSet(LoadSlots) /\ IsFiniteSet(StoreSlots)
    /\ LoadSlots \subseteq Nat /\ StoreSlots \subseteq Nat
<1>1. LQ_SIZE \in Int /\ SQ_SIZE \in Int /\ 1 \in Int
  BY SizeAssumption
<1> QED
  BY <1>1, FS_Interval DEF LoadSlots, StoreSlots

LEMMA SameSize ==
    ASSUME NEW S, NEW T, IsFiniteSet(S), NEW f \in [S -> T],
           \A x, y \in S : f[x] = f[y] => x = y, \A t \in T : \E x \in S : f[x] = t
    PROVE  IsFiniteSet(T) /\ Cardinality(T) = Cardinality(S)
<1>1. f \in Bijection(S, T)
  BY DEF Bijection, Injection, Surjection, IsInjective
<1> QED
  BY <1>1, FS_Bijection DEF ExistsBijection

LEMMA TimesNatural ==
    ASSUME NEW T, NEW q \in Seq(T), NEW s
    PROVE  Times(s, q) \in Nat /\ IsFiniteSet({i \in DOMAIN q : q[i] = s})
<1>1. DOMAIN q = 1 .. Len(q) /\ Len(q) \in Nat
  OBVIOUS
<1>2. IsFiniteSet(1 .. Len(q))
  BY <1>1, FS_Interval
<1>3. IsFiniteSet({i \in DOMAIN q : q[i] = s})
  BY <1>1, <1>2, FS_Subset
<1> QED
  BY <1>3, FS_CardinalityType DEF Times

LEMMA TimesAppend ==
    ASSUME NEW T, NEW q \in Seq(T), NEW x \in T, NEW s
    PROVE  Times(s, Append(q, x)) = Times(s, q) + OneIf(x = s)
<1> DEFINE I == {i \in DOMAIN q : q[i] = s}
           J == {i \in DOMAIN Append(q, x) : Append(q, x)[i] = s}
           n == Len(q) + 1
<1>0. IsFiniteSet(I)
  BY TimesNatural, Zenon
<1>1. n \notin I /\ Cardinality(I) \in Nat /\ I \subseteq 1 .. Len(q)
  <2>1. Cardinality(I) \in Nat
    <3> HIDE DEF I
    <3> QED
      BY <1>0, FS_CardinalityType
  <2> QED
    BY <2>1
<1>2. CASE x = s
  <2>1. J = I \cup {n}
    BY <1>2
  <2>2. Times(s, Append(q, x)) = Cardinality(J) /\ Times(s, q) = Cardinality(I)
    BY DEF Times
  <2> HIDE DEF I, J
  <2>3. Cardinality(I \cup {n}) = Cardinality(I) + 1
    BY <1>0, <1>1, FS_AddElement
  <2> QED
    BY <1>2, <2>1, <2>2, <2>3 DEF OneIf
<1>3. CASE x # s
  <2>1. J = I
    BY <1>3
  <2>2. Times(s, Append(q, x)) = Cardinality(J) /\ Times(s, q) = Cardinality(I)
    BY DEF Times
  <2> HIDE DEF I, J
  <2> QED
    BY <1>1, <1>3, <2>1, <2>2 DEF OneIf
<1> QED
  BY <1>2, <1>3

LEMMA TimesTail ==
    ASSUME NEW T, NEW q \in Seq(T), q # <<>>, NEW s
    PROVE  /\ Tail(q) \in Seq(T) /\ Head(q) \in T
           /\ Times(s, q) = Times(s, Tail(q)) + OneIf(Head(q) = s)
<1> DEFINE r == Tail(q)
           I == {i \in DOMAIN q : q[i] = s}
           J == {i \in DOMAIN r : r[i] = s}
           f == [i \in J |-> i + 1]
<1>1. r \in Seq(T) /\ Head(q) \in T /\ Len(q) \in Nat \ {0} /\ Len(r) = Len(q) - 1
      /\ Head(q) = q[1] /\ \A i \in 1 .. Len(r) : r[i] = q[i + 1]
  OBVIOUS
<1>2. DOMAIN r = 1 .. Len(r) /\ DOMAIN q = 1 .. Len(q)
  BY <1>1
<1> HIDE DEF r
<1>3. I \ {1} = {i \in 2 .. Len(q) : q[i] = s}
  BY <1>1, <1>2
<1>4. \A i \in J : i \in Nat /\ i + 1 \in 2 .. Len(q) /\ q[i + 1] = s
  BY <1>1, <1>2
<1>5. \A i \in I \ {1} : i - 1 \in J /\ (i - 1) + 1 = i
  <2> TAKE i \in I \ {1}
  <2>1. i \in 2 .. Len(q) /\ q[i] = s
    BY <1>3
  <2>2. i - 1 \in 1 .. Len(r) /\ (i - 1) + 1 = i
    BY <1>1, <2>1
  <2>3. r[i - 1] = q[(i - 1) + 1]
    BY <1>1, <2>2
  <2> QED
    BY <1>2, <2>1, <2>2, <2>3
<1>6. IsFiniteSet(J) /\ IsFiniteSet(I) /\ Cardinality(J) \in Nat /\ Cardinality(I) \in Nat
  <2>1. IsFiniteSet(J) /\ IsFiniteSet(I)
    BY <1>1, TimesNatural, Zenon
  <2> HIDE DEF I, J
  <2> QED
    BY <2>1, FS_CardinalityType
<1>7. f \in [J -> I \ {1}]
  BY <1>2, <1>4
<1>8. Cardinality(I \ {1}) = Cardinality(J)
  <2>1. \A i, j \in J : f[i] = f[j] => i = j
    BY <1>4
  <2>2. \A i \in I \ {1} : \E j \in J : f[j] = i
    BY <1>5
  <2> HIDE DEF I, J, f
  <2> QED
    BY <1>6, <1>7, <2>1, <2>2, SameSize
<1>9. Cardinality(I \ {1}) = IF 1 \in I THEN Cardinality(I) - 1 ELSE Cardinality(I)
  BY <1>6, FS_RemoveElement
<1>10. 1 \in I <=> Head(q) = s
  BY <1>1, <1>2
<1>11. Times(s, q) = Times(s, r) + OneIf(Head(q) = s)
  <2> HIDE DEF f
  <2> QED
    BY <1>6, <1>8, <1>9, <1>10 DEF Times, OneIf
<1> QED
  BY <1>1, <1>11 DEF r

LEMMA TimesNone ==
    ASSUME NEW s
    PROVE  Times(s, <<>>) = 0
BY FS_EmptySet DEF Times

LEMMA TimesPositive ==
    ASSUME NEW T, NEW q \in Seq(T), q # <<>>
    PROVE  Times(Head(q), q) >= 1
<1>1. /\ Tail(q) \in Seq(T)
      /\ Times(Head(q), q) = Times(Head(q), Tail(q)) + OneIf(Head(q) = Head(q))
  BY TimesTail
<1>2. Times(Head(q), Tail(q)) \in Nat
  BY <1>1, TimesNatural
<1> QED
  BY <1>1, <1>2 DEF OneIf

-----------------------------------------------------------------------------
(* What Loaded and Performed do. *)

SlotsOf(c, S, m) == {s \in S : c.LQ[s].instr = m}

\* d is c after the loads in the slots S have their data.
LoadsOver(c, d, S, v) ==
    /\ Shape(d)
    /\ \A f \in CoreFields \ {"rob", "inflight_mem", "LQ", "data"} : d[f] = c[f]
    /\ d.LQ = [s \in LoadSlots |-> IF s \in S THEN NoEntry ELSE c.LQ[s]]
    /\ \A m \in Ids : d.rob[m] = [c.rob[m] EXCEPT !.num_mem_ops = @ - Cardinality(SlotsOf(c, S, m))]
    /\ \A m \in Ids :
          d.data[m] = c.data[m] \cup {<<c.LQ[s].address, v[c.LQ[s].address]>> : s \in SlotsOf(c, S, m)}
    /\ d.inflight_mem = c.inflight_mem
          + Cardinality({m \in Ids : /\ Cardinality(SlotsOf(c, S, m)) > 0
                                     /\ c.rob[m].num_mem_ops = Cardinality(SlotsOf(c, S, m))})

LEMMA OverOfSlots ==
    ASSUME NEW c, NEW S \in SUBSET LoadSlots, NEW m
    PROVE  OverOf({[instr |-> c.LQ[s].instr, slot |-> s] : s \in S}, m) = Cardinality(SlotsOf(c, S, m))
<1> DEFINE ops == {[instr |-> c.LQ[s].instr, slot |-> s] : s \in S}
           A == SlotsOf(c, S, m)
           T == {op \in ops : op.instr = m}
           f == [s \in A |-> [instr |-> c.LQ[s].instr, slot |-> s]]
<1>1. IsFiniteSet(A)
  <2>1. A \in SUBSET LoadSlots
    BY DEF SlotsOf
  <2> QED
    BY <2>1, SlotsAreFinite, FS_Subset
<1>2. f \in [A -> T]
  BY DEF SlotsOf
<1>3. \A s, t \in A : f[s] = f[t] => s = t
  OBVIOUS
<1>4. \A op \in T : \E s \in A : f[s] = op
  BY DEF SlotsOf
<1> HIDE DEF f, T, A
<1>5. Cardinality(T) = Cardinality(A)
  BY <1>1, <1>2, <1>3, <1>4, SameSize
<1> QED
  BY <1>5 DEF OverOf, T, A

LEMMA LoadedFields ==
    ASSUME NEW c, NEW S \in SUBSET LoadSlots, NEW v, Shape(c)
    PROVE  LoadsOver(c, Loaded(c, S, v), S, v)
<1> DEFINE ops == {[instr |-> c.LQ[s].instr, slot |-> s] : s \in S}
           p == Performed(c, ops)
           L == [s \in LoadSlots |-> IF s \in S THEN NoEntry ELSE p.LQ[s]]
           got(n) == {<<c.LQ[s].address, v[c.LQ[s].address]>> : s \in SlotsOf(c, S, n)}
           D == [n \in Ids |-> p.data[n] \cup got(n)]
           d == Loaded(c, S, v)
<1>1. /\ Shape(p)
      /\ \A f \in CoreFields \ {"rob", "inflight_mem"} : p[f] = c[f]
      /\ \A m \in Ids : p.rob[m] = [c.rob[m] EXCEPT !.num_mem_ops = @ - OverOf(ops, m)]
      /\ p.inflight_mem = c.inflight_mem + Cardinality(Finishing(c, ops))
  BY PerformedFields
<1>2. d = [[p EXCEPT !.LQ = L] EXCEPT !.data = D]
  <2>1. DOMAIN p = CoreFields
    BY <1>1 DEF Shape
  <2>2. d = [p EXCEPT !.LQ = [s \in LoadSlots |-> IF s \in S THEN NoEntry ELSE @[s]],
                      !.data = [n \in Ids |-> @[n] \cup got(n)]]
    BY DEF Loaded, SlotsOf
  <2> HIDE DEF p, d, got
  <2>3. "LQ" \in DOMAIN p /\ "data" \in DOMAIN p
    BY <2>1 DEF CoreFields
  <2> QED
    BY <2>2, <2>3
<1>3. \A m : OverOf(ops, m) = Cardinality(SlotsOf(c, S, m))
  BY OverOfSlots
<1>4. Finishing(c, ops) = {m \in Ids : /\ Cardinality(SlotsOf(c, S, m)) > 0
                                       /\ c.rob[m].num_mem_ops = Cardinality(SlotsOf(c, S, m))}
  BY <1>3 DEF Finishing
<1>5. p.LQ = c.LQ /\ p.data = c.data /\ p.SQ = c.SQ
  BY <1>1 DEF CoreFields
<1>6. L = [s \in LoadSlots |-> IF s \in S THEN NoEntry ELSE c.LQ[s]] /\ DOMAIN L = LoadSlots
  BY <1>5
<1>7. DOMAIN D = Ids /\ \A m \in Ids : D[m] = c.data[m] \cup got(m)
  BY <1>5
<1> HIDE DEF ops, p, L, D, d, got
<1>8. /\ DOMAIN d = CoreFields /\ d.LQ = L /\ d.data = D
      /\ \A f \in CoreFields \ {"LQ", "data"} : d[f] = p[f]
  BY <1>1, <1>2 DEF Shape, CoreFields
<1>9. d.rob = p.rob /\ d.inflight_mem = p.inflight_mem /\ d.SQ = p.SQ
  BY <1>8 DEF CoreFields
<1>10. Shape(d)
  BY <1>1, <1>6, <1>7, <1>8, <1>9 DEF Shape
<1>11. \A f \in CoreFields \ {"rob", "inflight_mem", "LQ", "data"} : d[f] = c[f]
  BY <1>1, <1>8
<1>12. \A m \in Ids : d.rob[m] = [c.rob[m] EXCEPT !.num_mem_ops = @ - Cardinality(SlotsOf(c, S, m))]
  BY <1>1, <1>3, <1>9
<1>13. d.inflight_mem = c.inflight_mem
          + Cardinality({m \in Ids : /\ Cardinality(SlotsOf(c, S, m)) > 0
                                     /\ c.rob[m].num_mem_ops = Cardinality(SlotsOf(c, S, m))})
  BY <1>1, <1>4, <1>9
<1> QED
  BY <1>6, <1>7, <1>8, <1>10, <1>11, <1>12, <1>13 DEF LoadsOver, d, got

-----------------------------------------------------------------------------
(* What the invariant of the queues rests on. *)

LEMMA InBounds ==
    ASSUME NEW P, NEW lo, NEW hi, Bounds(P, lo, hi)
    PROVE  /\ lo + 1 .. hi \subseteq Ids /\ lo + 1 .. hi \subseteq 1 .. Len(P) /\ 0 \notin lo + 1 .. hi
           /\ \A n \in 1 .. Len(P) : /\ P[n].load \in Seq(Address) /\ P[n].store \in Seq(Address)
                                     /\ Len(P[n].load) \in Nat /\ Len(P[n].store) \in Nat
<1>1. \A n \in 1 .. Len(P) : P[n] \in Instruction
  BY DEF Bounds
<1>2. \A n \in 1 .. Len(P) : /\ P[n].load \in Seq(Address) /\ P[n].store \in Seq(Address)
                             /\ Len(P[n].load) \in Nat /\ Len(P[n].store) \in Nat
  BY <1>1, SMTT(60) DEF Instruction
<1>3. MaxLength \in Nat /\ Len(P) \in Nat
  BY SizeAssumption DEF Bounds
<1> QED
  BY <1>2, <1>3 DEF Bounds, Ids

LEMMA LoadEntryBounds ==
    ASSUME NEW P, NEW c, NEW lo, NEW hi, Bounds(P, lo, hi),
           NEW s, LoadEntry(P, c, lo, hi, s), c.LQ[s] # NoEntry
    PROVE  /\ c.LQ[s].instr \in lo + 1 .. hi
           /\ c.LQ[s].producer # 0 => c.LQ[s].producer \in lo + 1 .. hi /\ c.LQ[s].producer < c.LQ[s].instr
<1> DEFINE n == c.LQ[s].instr
           p == c.LQ[s].producer
<1>1. n \in lo + 1 .. hi /\ (p # 0 => p \in lo + 1 .. n - 1)
  BY Zenon DEF LoadEntry
<1>2. lo \in Nat /\ hi \in Nat
  BY DEF Bounds
<1> HIDE DEF n, p
<1>3. p # 0 => p \in lo + 1 .. hi /\ p < n
  BY <1>1, <1>2
<1> QED
  BY <1>1, <1>3 DEF n, p

LEMMA CountedSets ==
    ASSUME NEW P, NEW c, NEW lo, NEW hi, Bounds(P, lo, hi), NEW n \in lo + 1 .. hi
    PROVE  /\ IsFiniteSet(Unadded(P, c, n)) /\ IsFiniteSet(EntriesOf(c, n)) /\ IsFiniteSet(Unexecuted(P, c, n))
           /\ Cardinality(Unadded(P, c, n)) \in Nat /\ Cardinality(EntriesOf(c, n)) \in Nat
           /\ Cardinality(Unexecuted(P, c, n)) \in Nat
<1>1. Len(P[n].load) \in Nat /\ Len(P[n].store) \in Nat
  BY InBounds
<1>2. IsFiniteSet(1 .. Len(P[n].load)) /\ IsFiniteSet(1 .. Len(P[n].store))
  <2>1. \A k : k \in Nat => IsFiniteSet(1 .. k)
    BY FS_Interval
  <2> QED
    BY <1>1, <2>1
<1>3. /\ Unadded(P, c, n) \in SUBSET (1 .. Len(P[n].load)) /\ EntriesOf(c, n) \in SUBSET LoadSlots
      /\ Unexecuted(P, c, n) \in SUBSET (1 .. Len(P[n].store))
  BY DEF Unadded, EntriesOf, Unexecuted
<1>4. IsFiniteSet(Unadded(P, c, n)) /\ IsFiniteSet(EntriesOf(c, n)) /\ IsFiniteSet(Unexecuted(P, c, n))
  BY <1>2, <1>3, SlotsAreFinite, FS_Subset
<1> QED
  BY <1>4, FS_CardinalityType

LEMMA NothingLeft ==
    ASSUME NEW P, NEW c, NEW lo, NEW hi, Bounds(P, lo, hi), NEW n \in lo + 1 .. hi,
           Counted(P, c, n), c.rob[n].executed # COMPLETED, c.rob[n].num_mem_ops = 0
    PROVE  Unadded(P, c, n) = {} /\ EntriesOf(c, n) = {} /\ Unexecuted(P, c, n) = {}
<1>1. /\ IsFiniteSet(Unadded(P, c, n)) /\ IsFiniteSet(EntriesOf(c, n)) /\ IsFiniteSet(Unexecuted(P, c, n))
      /\ Cardinality(Unadded(P, c, n)) \in Nat /\ Cardinality(EntriesOf(c, n)) \in Nat
      /\ Cardinality(Unexecuted(P, c, n)) \in Nat
  BY CountedSets
<1>2. 0 = Cardinality(Unadded(P, c, n)) + Cardinality(EntriesOf(c, n)) + Cardinality(Unexecuted(P, c, n))
  BY DEF Counted
<1>3. /\ Cardinality(Unadded(P, c, n)) = 0 /\ Cardinality(EntriesOf(c, n)) = 0
      /\ Cardinality(Unexecuted(P, c, n)) = 0
  BY <1>1, <1>2
<1> QED
  BY <1>1, <1>3, FS_EmptySet

LEMMA Difference ==
    ASSUME NEW S, NEW T, IsFiniteSet(S), T \subseteq S
    PROVE  /\ IsFiniteSet(T) /\ Cardinality(S \ T) = Cardinality(S) - Cardinality(T)
           /\ Cardinality(S) \in Nat /\ Cardinality(T) \in Nat
<1>1. S \cap T = T
  OBVIOUS
<1>2. IsFiniteSet(T)
  BY FS_Subset
<1> QED
  BY <1>1, <1>2, FS_Difference, FS_CardinalityType

\* What is said of the store queue reads only it and where the stores are.
LEMMA StoresSame ==
    ASSUME NEW P, NEW c, NEW d, NEW lo, NEW hi, d.SQ = c.SQ,
           \A m \in lo + 1 .. hi : /\ LiveStores(d, m) = LiveStores(c, m)
                                  /\ d.rob[m].sq_index = c.rob[m].sq_index
    PROVE  /\ \A s : StoreEntry(c, lo, hi, s) => StoreEntry(d, lo, hi, s)
           /\ \A n \in lo + 1 .. hi : \A k : StorePlaced(P, c, n, k) => StorePlaced(P, d, n, k)
<1>1. ASSUME NEW s, StoreEntry(c, lo, hi, s) PROVE StoreEntry(d, lo, hi, s)
  <2>1. CASE c.SQ[s] = NoEntry
    BY <2>1, Zenon DEF StoreEntry
  <2>2. CASE c.SQ[s] # NoEntry
    BY <1>1, <2>2, Zenon DEF StoreEntry
  <2> QED
    BY <2>1, <2>2
<1>2. ASSUME NEW n \in lo + 1 .. hi, NEW k, StorePlaced(P, c, n, k) PROVE StorePlaced(P, d, n, k)
  BY <1>2 DEF StorePlaced
<1> QED
  BY <1>1, <1>2

LEMMA LoadsSame ==
    ASSUME NEW P, NEW c, NEW d, NEW lo, NEW hi, Bounds(P, lo, hi), NEW s, d.LQ[s] = c.LQ[s],
           LoadEntry(P, c, lo, hi, s),
           \A m \in lo + 1 .. hi : /\ d.rob[m].source_added = c.rob[m].source_added
                                  /\ d.rob[m].lq_index = c.rob[m].lq_index
    PROVE  LoadEntry(P, d, lo, hi, s)
<1>1. CASE c.LQ[s] = NoEntry
  BY <1>1 DEF LoadEntry
<1>2. CASE c.LQ[s] # NoEntry
  <2> DEFINE m == c.LQ[s].instr
  <2>1. m \in lo + 1 .. hi
    BY <1>2, LoadEntryBounds
  <2>2. d.rob[m].source_added = c.rob[m].source_added /\ d.rob[m].lq_index = c.rob[m].lq_index
    BY <2>1
  <2> QED
    BY <1>2, <2>2, Zenon DEF LoadEntry
<1> QED
  BY <1>1, <1>2

\* d has the queues of c, and an instruction that completes in between has nothing left to do.
QueuesSame(c, d, lo, hi) ==
    /\ d.LQ = c.LQ /\ d.SQ = c.SQ
    /\ \A m \in lo + 1 .. hi :
          /\ d.rob[m].source_added = c.rob[m].source_added
          /\ d.rob[m].destination_added = c.rob[m].destination_added
          /\ d.rob[m].destination_memory = c.rob[m].destination_memory
          /\ d.rob[m].lq_index = c.rob[m].lq_index
          /\ d.rob[m].sq_index = c.rob[m].sq_index
          /\ d.rob[m].num_mem_ops = c.rob[m].num_mem_ops
          /\ c.rob[m].executed = COMPLETED => d.rob[m].executed = COMPLETED
          /\ d.rob[m].executed = COMPLETED => c.rob[m].executed = COMPLETED \/ c.rob[m].num_mem_ops = 0
          /\ d.rob[m].memory_instrs_depend_on_me \in Seq(m + 1 .. hi)
          /\ Range(c.rob[m].memory_instrs_depend_on_me) \subseteq Range(d.rob[m].memory_instrs_depend_on_me)

LEMMA SameQueuesKeep ==
    ASSUME NEW P, NEW c, NEW d, NEW lo, NEW hi, Bounds(P, lo, hi), Queues(P, c, lo, hi),
           QueuesSame(c, d, lo, hi), QueuesTyped(d)
    PROVE  /\ Queues(P, d, lo, hi)
           /\ \A s \in LoadSlots : Pending(P, c, s) => Pending(P, d, s)
<1>0. lo + 1 .. hi \subseteq Ids
  BY InBounds
<1>1. ASSUME NEW n \in lo + 1 .. hi
      PROVE  /\ EntriesOf(d, n) = EntriesOf(c, n) /\ Unadded(P, d, n) = Unadded(P, c, n)
             /\ \A k : Executed(d, n, k) <=> Executed(c, n, k)
             /\ LiveStores(d, n) = LiveStores(c, n)
  BY DEF QueuesSame, EntriesOf, Unadded, Executed, LiveStores
<1>2. \A n \in lo + 1 .. hi : Unexecuted(P, d, n) = Unexecuted(P, c, n)
  BY <1>1 DEF Unexecuted
<1>3. ASSUME NEW n \in lo + 1 .. hi PROVE InstrTyped(P, d, n, hi) /\ Counted(P, d, n)
  <2>1. InstrTyped(P, c, n, hi) /\ Counted(P, c, n)
    BY DEF Queues
  <2>2. InstrTyped(P, d, n, hi)
    BY <2>1 DEF InstrTyped, QueuesSame
  <2>3. CASE d.rob[n].executed = COMPLETED <=> c.rob[n].executed = COMPLETED
    <3>1. Counted(P, d, n)
      BY <1>1, <1>2, <2>1, <2>3 DEF Counted, QueuesSame
    <3> QED
      BY <2>2, <3>1
  <2>4. CASE d.rob[n].executed = COMPLETED /\ c.rob[n].executed # COMPLETED
    <3>1. c.rob[n].num_mem_ops = 0
      BY <2>4 DEF QueuesSame
    <3>2. Unadded(P, c, n) = {} /\ EntriesOf(c, n) = {} /\ Unexecuted(P, c, n) = {}
      BY <2>1, <2>4, <3>1, NothingLeft
    <3>3. \A k \in 1 .. Len(P[n].store) : Executed(c, n, k)
      BY <3>2 DEF Unexecuted
    <3>4. c.rob[n].destination_added = 1 .. Len(P[n].store) /\ c.rob[n].destination_memory \subseteq 1 .. Len(P[n].store)
      BY <2>1, <3>3 DEF InstrTyped, Executed
    <3>5. Counted(P, d, n)
      BY <1>1, <2>4, <3>2, <3>3, <3>4 DEF Counted, QueuesSame
    <3> QED
      BY <2>2, <3>5
  <2>5. c.rob[n].executed = COMPLETED => d.rob[n].executed = COMPLETED
    BY DEF QueuesSame
  <2> QED
    BY <2>3, <2>4, <2>5
<1>4. ASSUME NEW s \in LoadSlots PROVE LoadEntry(P, d, lo, hi, s)
  <2>1. LoadEntry(P, c, lo, hi, s)
    BY DEF Queues
  <2> QED
    BY <2>1, LoadsSame DEF QueuesSame
<1>5. ASSUME NEW s \in StoreSlots PROVE StoreEntry(d, lo, hi, s)
  <2>1. StoreEntry(c, lo, hi, s)
    BY DEF Queues
  <2> QED
    BY <1>1, <2>1, StoresSame DEF QueuesSame
<1>6. ASSUME NEW n \in lo + 1 .. hi, NEW k \in LiveStores(d, n) PROVE StorePlaced(P, d, n, k)
  <2>1. StorePlaced(P, c, n, k)
    BY <1>0, <1>1 DEF Queues
  <2> QED
    BY <1>1, <2>1, StoresSame DEF QueuesSame
<1>7. ASSUME NEW s \in LoadSlots, Pending(P, c, s) PROVE Pending(P, d, s)
  <2>1. c.LQ[s] # NoEntry /\ c.LQ[s].producer # 0 => c.LQ[s].producer \in lo + 1 .. hi
    <3>1. LoadEntry(P, c, lo, hi, s)
      BY DEF Queues
    <3> QED
      BY <1>0, <3>1, LoadEntryBounds
  <2> QED
    BY <1>1, <1>7, <2>1 DEF Pending, QueuesSame
<1> QED
  BY <1>3, <1>4, <1>5, <1>6, <1>7 DEF Queues

-----------------------------------------------------------------------------
(* The operations of the queues keep it. *)

\* Loads leave the queue with their data.
LEMMA LoadedKeeps ==
    ASSUME NEW P, NEW c, NEW d, NEW lo, NEW hi, Bounds(P, lo, hi), Queues(P, c, lo, hi),
           NEW S \in SUBSET LoadSlots, NEW v, LoadsOver(c, d, S, v),
           \A s \in S : c.LQ[s] # NoEntry
    PROVE  /\ Queues(P, d, lo, hi)
           /\ \A s \in LoadSlots : s \in S \/ Pending(P, c, s) => Pending(P, d, s)
<1>0. lo + 1 .. hi \subseteq Ids /\ 0 \notin lo + 1 .. hi
  BY InBounds
<1>1. /\ d.SQ = c.SQ /\ d.RTL0 = c.RTL0 /\ d.RTL1 = c.RTL1 /\ d.RTS0 = c.RTS0 /\ d.RTS1 = c.RTS1
  BY DEF LoadsOver, CoreFields
<1>2. /\ \A s \in S : d.LQ[s] = NoEntry
      /\ \A s \in LoadSlots \ S : d.LQ[s] = c.LQ[s]
  BY DEF LoadsOver
<1>3. ASSUME NEW m \in Ids
      PROVE  /\ d.rob[m].source_added = c.rob[m].source_added
             /\ d.rob[m].destination_added = c.rob[m].destination_added
             /\ d.rob[m].destination_memory = c.rob[m].destination_memory
             /\ d.rob[m].lq_index = c.rob[m].lq_index
             /\ d.rob[m].sq_index = c.rob[m].sq_index
             /\ d.rob[m].executed = c.rob[m].executed
             /\ d.rob[m].memory_instrs_depend_on_me = c.rob[m].memory_instrs_depend_on_me
             /\ DOMAIN d.rob[m] = InstrFields
  <2>1. d.rob[m] = [c.rob[m] EXCEPT !.num_mem_ops = @ - Cardinality(SlotsOf(c, S, m))]
    BY DEF LoadsOver
  <2>2. DOMAIN d.rob[m] = InstrFields
    BY DEF LoadsOver, Shape
  <2> QED
    BY <2>1, <2>2 DEF InstrFields
<1>4. ASSUME NEW m \in Ids
      PROVE  d.rob[m].num_mem_ops = c.rob[m].num_mem_ops - Cardinality(SlotsOf(c, S, m))
  <2>1. d.rob[m] = [c.rob[m] EXCEPT !.num_mem_ops = @ - Cardinality(SlotsOf(c, S, m))]
    BY DEF LoadsOver
  <2>2. "num_mem_ops" \in DOMAIN c.rob[m]
    BY <1>3, <2>1 DEF InstrFields
  <2> QED
    BY <2>1, <2>2
<1>5. ASSUME NEW n \in lo + 1 .. hi
      PROVE  /\ SlotsOf(c, S, n) \subseteq EntriesOf(c, n)
             /\ EntriesOf(d, n) = EntriesOf(c, n) \ SlotsOf(c, S, n)
  <2>1. n # 0
    BY <1>0
  <2> QED
    BY <1>2, <2>1 DEF EntriesOf, SlotsOf, NoEntry
<1>6. ASSUME NEW n \in Ids
      PROVE  /\ Unadded(P, d, n) = Unadded(P, c, n)
             /\ \A k : Executed(d, n, k) <=> Executed(c, n, k)
             /\ LiveStores(d, n) = LiveStores(c, n)
             /\ Unexecuted(P, d, n) = Unexecuted(P, c, n)
  <2>1. \A k : Executed(d, n, k) <=> Executed(c, n, k)
    BY <1>1, <1>3 DEF Executed
  <2> QED
    BY <1>3, <2>1 DEF Unadded, LiveStores, Unexecuted
<1>7. ASSUME NEW n \in lo + 1 .. hi PROVE InstrTyped(P, d, n, hi) /\ Counted(P, d, n)
  <2>1. InstrTyped(P, c, n, hi) /\ Counted(P, c, n) /\ n \in Ids
    BY <1>0 DEF Queues
  <2>2. InstrTyped(P, d, n, hi)
    BY <1>3, <2>1 DEF InstrTyped
  <2>3. CASE c.rob[n].executed # COMPLETED
    <3>1. /\ Cardinality(EntriesOf(d, n)) = Cardinality(EntriesOf(c, n)) - Cardinality(SlotsOf(c, S, n))
          /\ Cardinality(SlotsOf(c, S, n)) \in Nat /\ Cardinality(EntriesOf(c, n)) \in Nat
      <4>1. IsFiniteSet(EntriesOf(c, n))
        BY CountedSets
      <4> QED
        BY <1>5, <4>1, Difference
    <3>2. Cardinality(Unadded(P, c, n)) \in Nat /\ Cardinality(Unexecuted(P, c, n)) \in Nat
      BY CountedSets
    <3>3. /\ c.rob[n].destination_memory = 1 .. Len(P[n].store)
          /\ c.rob[n].num_mem_ops = Cardinality(Unadded(P, c, n)) + Cardinality(EntriesOf(c, n))
                                       + Cardinality(Unexecuted(P, c, n))
      BY <2>1, <2>3 DEF Counted
    <3>4. d.rob[n].num_mem_ops = Cardinality(Unadded(P, d, n)) + Cardinality(EntriesOf(d, n))
                                    + Cardinality(Unexecuted(P, d, n))
      <4>1. d.rob[n].num_mem_ops = c.rob[n].num_mem_ops - Cardinality(SlotsOf(c, S, n))
        BY <1>4, <2>1
      <4>2. Unadded(P, d, n) = Unadded(P, c, n) /\ Unexecuted(P, d, n) = Unexecuted(P, c, n)
        BY <1>6, <2>1
      <4> QED
        BY <3>1, <3>2, <3>3, <4>1, <4>2
    <3> QED
      BY <1>3, <2>1, <2>2, <2>3, <3>3, <3>4 DEF Counted
  <2>4. CASE c.rob[n].executed = COMPLETED
    <3>1. /\ Unadded(P, c, n) = {} /\ EntriesOf(c, n) = {}
          /\ c.rob[n].destination_added = 1 .. Len(P[n].store)
          /\ \A k \in c.rob[n].destination_memory : Executed(c, n, k)
      BY <2>1, <2>4 DEF Counted
    <3>2. EntriesOf(d, n) = {}
      BY <1>5, <3>1
    <3> QED
      <4>1. /\ Unadded(P, d, n) = Unadded(P, c, n)
            /\ \A k : Executed(d, n, k) <=> Executed(c, n, k)
        BY <1>6, <2>1
      <4>2. /\ d.rob[n].destination_added = c.rob[n].destination_added
            /\ d.rob[n].destination_memory = c.rob[n].destination_memory
            /\ d.rob[n].executed = COMPLETED
        BY <1>3, <2>1, <2>4
      <4> QED
        BY <2>2, <3>1, <3>2, <4>1, <4>2 DEF Counted
  <2> QED
    BY <2>2, <2>3, <2>4
<1>8. ASSUME NEW s \in LoadSlots PROVE LoadEntry(P, d, lo, hi, s)
  <2>1. LoadEntry(P, c, lo, hi, s)
    BY DEF Queues
  <2>2. CASE s \in S
    BY <1>2, <2>2 DEF LoadEntry
  <2>3. CASE s \notin S
    <3>1. d.LQ[s] = c.LQ[s]
      BY <1>2, <2>3
    <3>2. \A m \in lo + 1 .. hi : /\ d.rob[m].source_added = c.rob[m].source_added
                                  /\ d.rob[m].lq_index = c.rob[m].lq_index
      BY <1>0, <1>3
    <3> QED
      BY <2>1, <3>1, <3>2, LoadsSame
  <2> QED
    BY <2>2, <2>3
<1>9. ASSUME NEW s \in StoreSlots PROVE StoreEntry(d, lo, hi, s)
  <2>1. StoreEntry(c, lo, hi, s)
    BY DEF Queues
  <2>2. \A m \in lo + 1 .. hi : LiveStores(d, m) = LiveStores(c, m) /\ d.rob[m].sq_index = c.rob[m].sq_index
    BY <1>0, <1>3, <1>6, SMTT(60)
  <2> QED
    BY <1>1, <2>1, <2>2, StoresSame
<1>10. ASSUME NEW n \in lo + 1 .. hi, NEW k \in LiveStores(d, n) PROVE StorePlaced(P, d, n, k)
  <2>1. StorePlaced(P, c, n, k)
    BY <1>0, <1>6 DEF Queues
  <2> QED
    BY <1>0, <1>1, <1>3, <1>6, <2>1 DEF StorePlaced
<1>11. ASSUME NEW s \in LoadSlots, s \in S \/ Pending(P, c, s) PROVE Pending(P, d, s)
  <2>1. CASE s \in S
    BY <1>2, <2>1, ZenonT(60) DEF Pending
  <2>2. CASE s \notin S
    <3>1. c.LQ[s] # NoEntry /\ c.LQ[s].producer # 0 => c.LQ[s].producer \in Ids
      <4>1. LoadEntry(P, c, lo, hi, s)
        BY DEF Queues
      <4> QED
        BY <1>0, <4>1, LoadEntryBounds
    <3>2. d.LQ[s] = c.LQ[s] /\ Pending(P, c, s)
      BY <1>2, <1>11, <2>2
    <3>3. ASSUME c.LQ[s] # NoEntry, c.LQ[s].producer # 0
          PROVE  LET e == c.LQ[s]
                 IN  /\ d.rob[e.producer].memory_instrs_depend_on_me = c.rob[e.producer].memory_instrs_depend_on_me
                     /\ d.rob[e.producer].destination_memory = c.rob[e.producer].destination_memory
                     /\ \A k : Executed(d, e.producer, k) <=> Executed(c, e.producer, k)
      <4> DEFINE p == c.LQ[s].producer
      <4>1. p \in Ids
        BY <3>1, <3>3
      <4> HIDE DEF p
      <4>2. /\ d.rob[p].memory_instrs_depend_on_me = c.rob[p].memory_instrs_depend_on_me
            /\ d.rob[p].destination_memory = c.rob[p].destination_memory
            /\ \A k : Executed(d, p, k) <=> Executed(c, p, k)
        BY <1>3, <1>6, <4>1
      <4> QED
        BY <4>2 DEF p
    <3> QED
      BY <3>2, <3>3, Zenon DEF Pending
  <2> QED
    BY <2>1, <2>2
<1>12. QueuesTyped(d)
  BY <1>1 DEF Queues, QueuesTyped
<1> QED
  BY <1>7, <1>8, <1>9, <1>10, <1>11, <1>12 DEF Queues

\* A load enters.
LoadEnters(c, d, lo, hi, n, j, slot, p) ==
    /\ Bounds(program, lo, hi) /\ Queues(program, c, lo, hi)
    /\ n \in lo + 1 .. hi /\ j \in 1 .. Len(program[n].load) /\ j \notin c.rob[n].source_added
    /\ slot \in LoadSlots /\ c.LQ[slot] = NoEntry
    /\ p = 0 \/ p \in lo + 1 .. n - 1
    /\ LoadEntered(c, d, n, j, slot, p)

LEMMA LoadEnteredKeeps ==
    ASSUME NEW c, NEW d, NEW lo, NEW hi, NEW n, NEW j, NEW slot, NEW p, LoadEnters(c, d, lo, hi, n, j, slot, p)
    PROVE  /\ Queues(program, d, lo, hi)
           /\ \A s \in LoadSlots : s # slot /\ Pending(program, c, s) => Pending(program, d, s)
           /\ \A s \in LoadSlots : s # slot => d.LQ[s] = c.LQ[s]
           /\ d.LQ[slot] = [instr |-> n, address |-> program[n].load[j], producer |-> p]
<1> DEFINE P == program
           e == [instr |-> n, address |-> program[n].load[j], producer |-> p]
<1> USE DEF LoadEnters
<1>0. lo + 1 .. hi \subseteq Ids /\ 0 \notin lo + 1 .. hi
  BY InBounds
<1>1. /\ d.SQ = c.SQ /\ d.RTL0 = c.RTL0 /\ d.RTL1 = c.RTL1 /\ d.RTS0 = c.RTS0 /\ d.RTS1 = c.RTS1
  BY DEF LoadEntered, CoreFields
<1>2. /\ \A s \in LoadSlots : s # slot => d.LQ[s] = c.LQ[s]
      /\ d.LQ[slot] = e
  BY DEF LoadEntered, Shape
<1>3. ASSUME NEW m \in Ids
      PROVE  /\ d.rob[m].destination_added = c.rob[m].destination_added
             /\ d.rob[m].destination_memory = c.rob[m].destination_memory
             /\ d.rob[m].sq_index = c.rob[m].sq_index
             /\ d.rob[m].executed = c.rob[m].executed
             /\ d.rob[m].num_mem_ops = c.rob[m].num_mem_ops
             /\ d.rob[m].memory_instrs_depend_on_me = c.rob[m].memory_instrs_depend_on_me
             /\ m # n => /\ d.rob[m].source_added = c.rob[m].source_added
                         /\ d.rob[m].lq_index = c.rob[m].lq_index
  BY DEF LoadEntered, InstrFields
<1>4. /\ d.rob[n].source_added = c.rob[n].source_added \cup {j}
      /\ d.rob[n].lq_index = [c.rob[n].lq_index EXCEPT ![j] = slot]
  BY DEF LoadEntered
<1>5. InstrTyped(P, c, n, hi) /\ Counted(P, c, n) /\ n \in Ids
  BY <1>0 DEF Queues
<1>6. d.rob[n].lq_index[j] = slot /\ \A i \in 1 .. Len(P[n].load) : i # j => d.rob[n].lq_index[i] = c.rob[n].lq_index[i]
  BY <1>4, <1>5 DEF InstrTyped
<1>7. ASSUME NEW m \in Ids
      PROVE  /\ \A k : Executed(d, m, k) <=> Executed(c, m, k)
             /\ LiveStores(d, m) = LiveStores(c, m)
             /\ Unexecuted(P, d, m) = Unexecuted(P, c, m)
             /\ m # n => Unadded(P, d, m) = Unadded(P, c, m)
  <2>1. \A k : Executed(d, m, k) <=> Executed(c, m, k)
    BY <1>1, <1>3 DEF Executed
  <2> QED
    BY <1>3, <2>1, SMTT(60) DEF Unadded, LiveStores, Unexecuted
<1>8. Unadded(P, d, n) = Unadded(P, c, n) \ {j} /\ j \in Unadded(P, c, n)
  BY <1>4 DEF Unadded
<1>9. EntriesOf(d, n) = EntriesOf(c, n) \cup {slot} /\ slot \notin EntriesOf(c, n)
  BY <1>0, <1>2 DEF EntriesOf, NoEntry
<1>10. \A m \in lo + 1 .. hi : m # n => EntriesOf(d, m) = EntriesOf(c, m)
  BY <1>0, <1>2 DEF EntriesOf, NoEntry
<1>11. c.rob[n].executed # COMPLETED
  BY <1>5, <1>8 DEF Counted
<1>12. ASSUME NEW m \in lo + 1 .. hi PROVE InstrTyped(P, d, m, hi) /\ Counted(P, d, m)
  <2>1. InstrTyped(P, c, m, hi) /\ Counted(P, c, m) /\ m \in Ids
    BY <1>0 DEF Queues
  <2>2. InstrTyped(P, d, m, hi)
    <3>1. CASE m = n
      <4>1. \A i \in d.rob[n].source_added : d.rob[n].lq_index[i] \in LoadSlots
        BY <1>4, <1>5, <1>6 DEF InstrTyped
      <4>2. d.rob[n].source_added \subseteq 1 .. Len(P[n].load) /\ DOMAIN d.rob[n].lq_index = 1 .. Len(P[n].load)
        BY <1>4, <1>5 DEF InstrTyped
      <4> QED
        BY <1>3, <1>5, <3>1, <4>1, <4>2 DEF InstrTyped
    <3>2. CASE m # n
      BY <1>3, <2>1, <3>2 DEF InstrTyped
    <3> QED
      BY <3>1, <3>2
  <2>3. CASE m # n
    <3>1. /\ Unadded(P, d, m) = Unadded(P, c, m) /\ Unexecuted(P, d, m) = Unexecuted(P, c, m)
          /\ EntriesOf(d, m) = EntriesOf(c, m) /\ \A k : Executed(d, m, k) <=> Executed(c, m, k)
      BY <1>7, <1>10, <2>1, <2>3
    <3>2. /\ d.rob[m].destination_added = c.rob[m].destination_added
          /\ d.rob[m].destination_memory = c.rob[m].destination_memory
          /\ d.rob[m].executed = c.rob[m].executed
          /\ d.rob[m].num_mem_ops = c.rob[m].num_mem_ops
      BY <1>3, <2>1
    <3> QED
      BY <2>1, <2>2, <3>1, <3>2 DEF Counted
  <2>4. CASE m = n
    <3>1. /\ IsFiniteSet(Unadded(P, c, n)) /\ IsFiniteSet(EntriesOf(c, n))
          /\ Cardinality(Unadded(P, c, n)) \in Nat /\ Cardinality(EntriesOf(c, n)) \in Nat
          /\ Cardinality(Unexecuted(P, c, n)) \in Nat
      BY CountedSets
    <3>2. Cardinality(Unadded(P, d, n)) = Cardinality(Unadded(P, c, n)) - 1
      BY <1>8, <3>1, FS_RemoveElement
    <3>3. Cardinality(EntriesOf(d, n)) = Cardinality(EntriesOf(c, n)) + 1
      BY <1>9, <3>1, FS_AddElement
    <3>4. Cardinality(Unexecuted(P, d, n)) = Cardinality(Unexecuted(P, c, n))
      BY <1>5, <1>7
    <3>5. /\ c.rob[n].destination_memory = 1 .. Len(P[n].store)
          /\ c.rob[n].num_mem_ops = Cardinality(Unadded(P, c, n)) + Cardinality(EntriesOf(c, n))
                                       + Cardinality(Unexecuted(P, c, n))
      BY <1>5, <1>11 DEF Counted
    <3>6. /\ d.rob[n].destination_memory = c.rob[n].destination_memory
          /\ d.rob[n].executed = c.rob[n].executed
          /\ d.rob[n].num_mem_ops = c.rob[n].num_mem_ops
      BY <1>3, <1>5
    <3>7. d.rob[n].num_mem_ops = Cardinality(Unadded(P, d, n)) + Cardinality(EntriesOf(d, n))
                                    + Cardinality(Unexecuted(P, d, n))
      BY <3>1, <3>2, <3>3, <3>4, <3>5, <3>6
    <3> QED
      BY <1>11, <2>2, <2>4, <3>5, <3>6, <3>7 DEF Counted
  <2> QED
    BY <2>3, <2>4
<1>13. ASSUME NEW s \in LoadSlots PROVE LoadEntry(P, d, lo, hi, s)
  <2>1. LoadEntry(P, c, lo, hi, s)
    BY SMTT(60) DEF Queues
  <2>2. CASE s = slot
    <3>1. e.instr = n /\ e.address = P[n].load[j] /\ e.producer = p
      OBVIOUS
    <3> HIDE DEF e
    <3>2. j \in d.rob[n].source_added
      BY <1>4
    <3>3. e = [instr |-> e.instr, address |-> e.address, producer |-> e.producer]
      BY DEF e
    <3> QED
      BY <1>2, <1>6, <2>2, <3>1, <3>2, <3>3 DEF LoadEntry
  <2>3. CASE s # slot
    <3>1. d.LQ[s] = c.LQ[s]
      BY <1>2, <2>3
    <3>2. CASE c.LQ[s] = NoEntry
      BY <3>1, <3>2, Zenon DEF LoadEntry
    <3>3. CASE c.LQ[s] # NoEntry
      <4> DEFINE m == c.LQ[s].instr
      <4>1. m \in Ids
        BY <1>0, <2>1, <3>3, LoadEntryBounds, Zenon
      <4>2. PICK i \in c.rob[m].source_added : P[m].load[i] = c.LQ[s].address /\ c.rob[m].lq_index[i] = s
        BY <2>1, <3>3, Zenon DEF LoadEntry
      <4>3. i \in d.rob[m].source_added /\ d.rob[m].lq_index[i] = s
        <5>1. CASE m # n
          BY <1>3, <4>1, <4>2, <5>1
        <5>2. CASE m = n
          <6>1. i # j /\ i \in 1 .. Len(P[n].load)
            BY <1>5, <4>2, <5>2 DEF InstrTyped
          <6> QED
            BY <1>4, <1>6, <4>2, <5>2, <6>1
        <5> QED
          BY <5>1, <5>2, SMTT(60)
      <4> QED
        BY <2>1, <3>1, <3>3, <4>2, <4>3, Zenon DEF LoadEntry
    <3> QED
      BY <3>2, <3>3
  <2> QED
    BY <2>2, <2>3
<1>14. ASSUME NEW s \in StoreSlots PROVE StoreEntry(d, lo, hi, s)
  <2>1. StoreEntry(c, lo, hi, s)
    BY DEF Queues
  <2>2. \A m \in lo + 1 .. hi : LiveStores(d, m) = LiveStores(c, m) /\ d.rob[m].sq_index = c.rob[m].sq_index
    BY <1>0, <1>3, <1>7, SMTT(60)
  <2> QED
    BY <1>1, <2>1, <2>2, StoresSame
<1>15. ASSUME NEW m \in lo + 1 .. hi, NEW k \in LiveStores(d, m) PROVE StorePlaced(P, d, m, k)
  <2>1. StorePlaced(P, c, m, k)
    BY <1>0, <1>7 DEF Queues
  <2> QED
    BY <1>0, <1>1, <1>3, <1>7, <2>1, SMTT(60) DEF StorePlaced
<1>16. ASSUME NEW s \in LoadSlots, s # slot, Pending(P, c, s) PROVE Pending(P, d, s)
  <2>1. c.LQ[s] # NoEntry /\ c.LQ[s].producer # 0 => c.LQ[s].producer \in Ids
    <3>1. LoadEntry(P, c, lo, hi, s)
      BY DEF Queues
    <3> QED
      BY <1>0, <3>1, LoadEntryBounds
  <2>2. d.LQ[s] = c.LQ[s]
    BY <1>2, <1>16
  <2> QED
    BY <1>3, <1>7, <1>16, <2>1, <2>2 DEF Pending
<1>17. QueuesTyped(d)
  BY <1>1 DEF Queues, QueuesTyped
<1> QED
  BY <1>2, <1>12, <1>13, <1>14, <1>15, <1>16, <1>17 DEF Queues

\* A store enters.
StoreEnters(c, d, lo, hi, n, k, slot) ==
    /\ Bounds(program, lo, hi) /\ Queues(program, c, lo, hi)
    /\ n \in lo + 1 .. hi /\ k \in 1 .. Len(program[n].store) /\ k \notin c.rob[n].destination_added
    /\ slot \in StoreSlots /\ c.SQ[slot] = NoEntry
    /\ StoreEntered(c, d, n, k, slot)

HasStore(c, d, lo, hi, n, k, slot) ==
    /\ Queues(program, d, lo, hi)
    /\ \A s \in LoadSlots : Pending(program, c, s) => Pending(program, d, s)
    /\ \A s \in StoreSlots : s # slot => d.SQ[s] = c.SQ[s]
    /\ d.SQ[slot] = [instr |-> n, address |-> program[n].store[k], fetched |-> FALSE]

LEMMA StoreEnteredKeeps ==
    ASSUME NEW c, NEW d, NEW lo, NEW hi, NEW n, NEW k, NEW slot, StoreEnters(c, d, lo, hi, n, k, slot)
    PROVE  HasStore(c, d, lo, hi, n, k, slot)
<1> DEFINE P == program
           e == [instr |-> n, address |-> program[n].store[k], fetched |-> FALSE]
<1> USE DEF StoreEnters
<1>0. lo + 1 .. hi \subseteq Ids /\ 0 \notin lo + 1 .. hi
  BY InBounds
<1>1. /\ d.LQ = c.LQ /\ d.RTL0 = c.RTL0 /\ d.RTL1 = c.RTL1 /\ d.RTS1 = c.RTS1 /\ d.RTS0 = Append(c.RTS0, slot)
  BY DEF StoreEntered, CoreFields
<1>2. /\ \A s \in StoreSlots : s # slot => d.SQ[s] = c.SQ[s]
      /\ d.SQ[slot] = e
  BY DEF StoreEntered, Shape
<1>3. ASSUME NEW m \in Ids
      PROVE  /\ d.rob[m].source_added = c.rob[m].source_added
             /\ d.rob[m].destination_memory = c.rob[m].destination_memory
             /\ d.rob[m].lq_index = c.rob[m].lq_index
             /\ d.rob[m].executed = c.rob[m].executed
             /\ d.rob[m].num_mem_ops = c.rob[m].num_mem_ops
             /\ d.rob[m].memory_instrs_depend_on_me = c.rob[m].memory_instrs_depend_on_me
             /\ m # n => /\ d.rob[m].destination_added = c.rob[m].destination_added
                         /\ d.rob[m].sq_index = c.rob[m].sq_index
  BY DEF StoreEntered, InstrFields
<1>4. /\ d.rob[n].destination_added = c.rob[n].destination_added \cup {k}
      /\ d.rob[n].sq_index = [c.rob[n].sq_index EXCEPT ![k] = slot]
  BY DEF StoreEntered
<1>5. InstrTyped(P, c, n, hi) /\ Counted(P, c, n) /\ n \in Ids
  BY <1>0 DEF Queues
<1>6. d.rob[n].sq_index[k] = slot /\ \A l \in 1 .. Len(P[n].store) : l # k => d.rob[n].sq_index[l] = c.rob[n].sq_index[l]
  BY <1>4, <1>5 DEF InstrTyped
<1>7. c.rob[n].executed # COMPLETED /\ k \in c.rob[n].destination_memory
  BY <1>5 DEF Counted
<1>8. ASSUME NEW m \in lo + 1 .. hi, NEW l \in LiveStores(c, m)
      PROVE  /\ StorePlaced(P, c, m, l) /\ c.rob[m].sq_index[l] \in StoreSlots \ {slot}
             /\ d.rob[m].sq_index[l] = c.rob[m].sq_index[l]
             /\ d.SQ[d.rob[m].sq_index[l]] = c.SQ[c.rob[m].sq_index[l]]
  <2>1. StorePlaced(P, c, m, l)
    BY DEF Queues
  <2>2. c.rob[m].sq_index[l] \in StoreSlots \ {slot}
    BY <2>1 DEF StorePlaced
  <2>3. d.rob[m].sq_index[l] = c.rob[m].sq_index[l]
    <3>1. CASE m # n
      BY <1>0, <1>3, <3>1
    <3>2. CASE m = n
      <4>1. l # k /\ l \in 1 .. Len(P[n].store)
        BY <1>5, <3>2 DEF LiveStores, InstrTyped
      <4> QED
        BY <1>6, <3>2, <4>1
    <3> QED
      BY <3>1, <3>2
  <2> QED
    BY <1>2, <2>1, <2>2, <2>3
<1>9. ASSUME NEW m \in lo + 1 .. hi
      PROVE  LiveStores(d, m) = IF m = n THEN LiveStores(c, n) \cup {k} ELSE LiveStores(c, m)
  BY <1>0, <1>3, <1>4, <1>7 DEF LiveStores
<1>10. ASSUME NEW m \in lo + 1 .. hi, NEW l \in c.rob[m].destination_memory
       PROVE  Executed(d, m, l) <=> Executed(c, m, l)
  <2>1. CASE l \in c.rob[m].destination_added
    <3>1. l \in LiveStores(c, m)
      BY <2>1 DEF LiveStores
    <3>2. l \in d.rob[m].destination_added
      BY <1>0, <1>3, <1>4, <2>1
    <3> QED
      BY <1>8, <2>1, <3>1, <3>2, ZenonT(60) DEF Executed
  <2>2. CASE l \notin c.rob[m].destination_added
    <3>1. ~ Executed(c, m, l)
      BY <2>2 DEF Executed
    <3>2. CASE m = n /\ l = k
      <4>1. ~ e.fetched
        OBVIOUS
      <4> QED
        BY <1>2, <1>6, <3>1, <3>2, <4>1 DEF Executed
    <3>3. CASE ~ (m = n /\ l = k)
      <4>1. l \notin d.rob[m].destination_added
        BY <1>0, <1>3, <1>4, <2>2, <3>3
      <4> QED
        BY <3>1, <4>1 DEF Executed
    <3> QED
      BY <3>2, <3>3
  <2> QED
    BY <2>1, <2>2
<1>11. ASSUME NEW m \in lo + 1 .. hi PROVE InstrTyped(P, d, m, hi) /\ Counted(P, d, m)
  <2>1. InstrTyped(P, c, m, hi) /\ Counted(P, c, m) /\ m \in Ids
    BY <1>0 DEF Queues
  <2>2. InstrTyped(P, d, m, hi)
    <3>1. CASE m = n
      BY <1>3, <1>4, <2>1, <3>1 DEF InstrTyped
    <3>2. CASE m # n
      BY <1>3, <2>1, <3>2 DEF InstrTyped
    <3> QED
      BY <3>1, <3>2
  <2>3. Unadded(P, d, m) = Unadded(P, c, m) /\ EntriesOf(d, m) = EntriesOf(c, m)
    BY <1>1, <1>3, <2>1 DEF Unadded, EntriesOf
  <2>4. CASE c.rob[m].executed # COMPLETED
    <3>1. /\ c.rob[m].destination_memory = 1 .. Len(P[m].store)
          /\ c.rob[m].num_mem_ops = Cardinality(Unadded(P, c, m)) + Cardinality(EntriesOf(c, m))
                                       + Cardinality(Unexecuted(P, c, m))
      BY <2>1, <2>4 DEF Counted
    <3>2. Unexecuted(P, d, m) = Unexecuted(P, c, m)
      BY <1>10, <3>1 DEF Unexecuted
    <3> QED
      BY <1>3, <2>1, <2>2, <2>3, <2>4, <3>1, <3>2 DEF Counted
  <2>5. CASE c.rob[m].executed = COMPLETED
    <3>1. /\ Unadded(P, c, m) = {} /\ EntriesOf(c, m) = {}
          /\ c.rob[m].destination_added = 1 .. Len(P[m].store)
          /\ \A l \in c.rob[m].destination_memory : Executed(c, m, l)
      BY <2>1, <2>5 DEF Counted
    <3>2. /\ d.rob[m].executed = COMPLETED /\ d.rob[m].destination_memory = c.rob[m].destination_memory
          /\ d.rob[m].destination_added = c.rob[m].destination_added
      BY <1>3, <1>7, <2>1, <2>5
    <3> QED
      BY <1>10, <2>2, <2>3, <3>1, <3>2 DEF Counted
  <2> QED
    BY <2>4, <2>5
<1>12. ASSUME NEW s \in LoadSlots PROVE LoadEntry(P, d, lo, hi, s)
  <2>1. LoadEntry(P, c, lo, hi, s)
    BY DEF Queues
  <2>2. \A m \in lo + 1 .. hi : /\ d.rob[m].source_added = c.rob[m].source_added
                                /\ d.rob[m].lq_index = c.rob[m].lq_index
    BY <1>0, <1>3
  <2>3. d.LQ[s] = c.LQ[s]
    BY <1>1
  <2> QED
    BY <2>1, <2>2, <2>3, LoadsSame
<1>13. ASSUME NEW s \in StoreSlots PROVE StoreEntry(d, lo, hi, s)
  <2>1. CASE s = slot
    <3>1. /\ e = [instr |-> e.instr, address |-> e.address, fetched |-> e.fetched]
          /\ e.instr = n /\ e.fetched \in BOOLEAN
      OBVIOUS
    <3> HIDE DEF e
    <3>2. k \in LiveStores(d, n)
      BY <1>9
    <3> QED
      BY <1>2, <1>6, <2>1, <3>1, <3>2 DEF StoreEntry
  <2>2. CASE s # slot
    <3>1. StoreEntry(c, lo, hi, s) /\ d.SQ[s] = c.SQ[s]
      BY <1>2, <2>2 DEF Queues
    <3>2. CASE c.SQ[s] = NoEntry
      BY <3>1, <3>2, Zenon DEF StoreEntry
    <3>3. CASE c.SQ[s] # NoEntry
      <4> DEFINE m == c.SQ[s].instr
      <4>1. m \in lo + 1 .. hi
        BY <3>1, <3>3, Zenon DEF StoreEntry
      <4>2. PICK l \in LiveStores(c, m) : c.rob[m].sq_index[l] = s
        BY <3>1, <3>3, Zenon DEF StoreEntry
      <4>3. l \in LiveStores(d, m) /\ d.rob[m].sq_index[l] = s
        BY <1>8, <1>9, <4>1, <4>2
      <4> QED
        BY <3>1, <3>3, <4>3, Zenon DEF StoreEntry
    <3> QED
      BY <3>2, <3>3
  <2> QED
    BY <2>1, <2>2
<1>14. ASSUME NEW m \in lo + 1 .. hi, NEW l \in LiveStores(d, m) PROVE StorePlaced(P, d, m, l)
  <2>1. CASE m = n /\ l = k
    <3>1. e # NoEntry /\ e.instr = n /\ e.address = P[n].store[k]
      BY <1>0 DEF NoEntry
    <3>2. \A i \in LiveStores(d, n) : d.rob[n].sq_index[i] = slot => i = k
      BY <1>8, <1>9, SMTT(60)
    <3> HIDE DEF e
    <3> QED
      BY <1>2, <1>6, <2>1, <3>1, <3>2 DEF StorePlaced
  <2>2. CASE ~ (m = n /\ l = k)
    <3>1. l \in LiveStores(c, m)
      BY <1>9, <2>2
    <3>2. /\ StorePlaced(P, c, m, l) /\ c.rob[m].sq_index[l] \in StoreSlots \ {slot}
          /\ d.rob[m].sq_index[l] = c.rob[m].sq_index[l]
          /\ d.SQ[d.rob[m].sq_index[l]] = c.SQ[c.rob[m].sq_index[l]]
      BY <1>8, <3>1
    <3>3. ASSUME NEW i \in LiveStores(d, m), d.rob[m].sq_index[i] = d.rob[m].sq_index[l] PROVE i = l
      <4>1. CASE m = n /\ i = k
        BY <1>6, <3>2, <3>3, <4>1, SMTT(60)
      <4>2. CASE ~ (m = n /\ i = k)
        <5>1. i \in LiveStores(c, m)
          BY <1>9, <4>2, SMTT(60)
        <5>2. c.rob[m].sq_index[i] = c.rob[m].sq_index[l]
          BY <1>8, <3>2, <3>3, <5>1, SMTT(60)
        <5> QED
          BY <3>2, <5>1, <5>2 DEF StorePlaced
      <4> QED
        BY <4>1, <4>2
    <3> QED
      BY <3>2, <3>3 DEF StorePlaced
  <2> QED
    BY <2>1, <2>2
<1>15. ASSUME NEW s \in LoadSlots, Pending(P, c, s) PROVE Pending(P, d, s)
  <2>1. c.LQ[s] # NoEntry /\ c.LQ[s].producer # 0 => c.LQ[s].producer \in lo + 1 .. hi
    <3>1. LoadEntry(P, c, lo, hi, s)
      BY DEF Queues
    <3> QED
      BY <3>1, LoadEntryBounds
  <2>2. \A m \in lo + 1 .. hi : /\ d.rob[m].destination_memory = c.rob[m].destination_memory
                                /\ d.rob[m].memory_instrs_depend_on_me = c.rob[m].memory_instrs_depend_on_me
    BY <1>0, <1>3
  <2> QED
    BY <1>1, <1>10, <1>15, <2>1, <2>2 DEF Pending
<1>16. QueuesTyped(d)
  BY <1>1 DEF Queues, QueuesTyped
<1> QED
  BY <1>2, <1>11, <1>12, <1>13, <1>14, <1>15, <1>16 DEF Queues, HasStore

LEMMA FreeSlotIsFree ==
    ASSUME NEW q, NEW N \in Nat, DOMAIN q = 1 .. N, ~ AllValid(q)
    PROVE  FreeSlot(q) \in 1 .. N /\ q[FreeSlot(q)] = NoEntry
<1> DEFINE S == {s \in DOMAIN q : q[s] = NoEntry}
<1>1. S \in SUBSET Nat /\ S # {}
  BY DEF AllValid
<1>2. First(S) \in S
  <2> HIDE DEF S
  <2> QED
    BY <1>1, FirstIsLeast
<1> QED
  BY <1>2 DEF FreeSlot

LEMMA TimesTyped ==
    ASSUME NEW c, QueuesTyped(c), NEW s
    PROVE  /\ Times(s, c.RTL0) \in Nat /\ Times(s, c.RTL1) \in Nat
           /\ Times(s, c.RTS0) \in Nat /\ Times(s, c.RTS1) \in Nat
BY TimesNatural DEF QueuesTyped

\* add_load_queue
LEMMA AddLoadKeeps ==
    ASSUME Order, NEW c, Shape(c), NEW d, NEW l, QueuesHeld(program, c, d, l, retired, dispatched),
           NEW n \in ROB, NEW j \in 1 .. Len(program[n].load)
    PROVE  QueuesHeld(program, AddLoad(c, n, j), d, l, retired, dispatched) /\ Shape(AddLoad(c, n, j))
<1> DEFINE P == program
           a == program[n].load[j]
           slot == FreeSlot(c.LQ)
           p == Closest(StoreProducers(c, n, a))
           e == WithLoad(c, n, j, slot, p)
           f == WithDependent(e, n, p)
           z == AddLoad(c, n, j)
<1>0. Bounds(P, retired, dispatched) /\ n \in Ids /\ ROB = retired + 1 .. dispatched
  BY RobInTrace, SMTT(60) DEF Order, Bounds, ROB
<1>1. CASE z = c
  BY <1>1
<1> SUFFICES ASSUME z # c PROVE QueuesHeld(P, z, d, l, retired, dispatched) /\ Shape(z)
  BY <1>1
<1>2. /\ j \notin c.rob[n].source_added /\ ~ AllValid(c.LQ)
      /\ \/ p = 0 /\ z = [e EXCEPT !.RTL0 = Append(@, slot)]
         \/ p # 0 /\ WillForward(c, p, a) /\ z = Forwarded(f, {slot}, p)
         \/ p # 0 /\ ~ WillForward(c, p, a) /\ z = f
  BY AddLoadCases
<1>3. slot \in LoadSlots /\ c.LQ[slot] = NoEntry
  BY <1>2, FreeSlotIsFree, SizeAssumption DEF Shape, LoadSlots
<1>4. /\ p = 0 <=> StoreProducers(c, n, a) = {}
      /\ p # 0 => p \in StoreProducers(c, n, a) /\ p \in ROB /\ p \in Ids /\ p < n
  BY ProducerIsEarlier
<1>5. p = 0 \/ p \in retired + 1 .. n - 1
  BY <1>0, <1>4 DEF Order, Ids
<1>6. LoadEntered(c, e, n, j, slot, p)
  BY <1>0, WithLoadFields
<1> HIDE DEF p, slot, e, f, z
<1>7. /\ Queues(P, e, retired, dispatched)
      /\ \A s \in LoadSlots : s # slot => Pending(P, e, s)
      /\ \A s \in LoadSlots : s # slot => e.LQ[s] = c.LQ[s]
      /\ e.LQ[slot] = [instr |-> n, address |-> a, producer |-> p]
  <2>1. Queues(P, c, retired, dispatched) /\ \A s \in LoadSlots : Pending(P, c, s)
    BY DEF QueuesHeld
  <2>2. n \in retired + 1 .. dispatched
    BY <1>0
  <2>3. /\ Queues(P, e, retired, dispatched)
        /\ \A s \in LoadSlots : s # slot /\ Pending(P, c, s) => Pending(P, e, s)
        /\ \A s \in LoadSlots : s # slot => e.LQ[s] = c.LQ[s]
        /\ e.LQ[slot] = [instr |-> n, address |-> program[n].load[j], producer |-> p]
    <3>1. LoadEnters(c, e, retired, dispatched, n, j, slot, p)
      BY <1>0, <1>2, <1>3, <1>5, <1>6, <2>1, <2>2 DEF LoadEnters
    <3> QED
      BY <3>1, LoadEnteredKeeps
  <2> QED
    BY <2>1, <2>3
<1>8. /\ Shape(e) /\ e.SQ = c.SQ /\ e.RTL0 = c.RTL0 /\ e.RTL1 = c.RTL1 /\ e.RTS0 = c.RTS0 /\ e.RTS1 = c.RTS1
  BY <1>6 DEF LoadEntered, CoreFields
<1>9. e.LQ[slot] # NoEntry /\ e.LQ[slot].instr = n /\ e.LQ[slot].address = a /\ e.LQ[slot].producer = p
  <2>1. n # 0
    BY <1>0 DEF Ids
  <2> QED
    BY <1>7, <2>1 DEF NoEntry
<1>10. /\ \A s \in LoadSlots : LoadsAt(e, d, l, s) = LoadsAt(c, d, l, s)
       /\ \A s \in StoreSlots : StoreHeld(e, d, s)
       /\ \A s \in LoadSlots : s # slot => LoadHeld(e, d, l, s)
       /\ LoadsAt(e, d, l, slot) = 0
  BY <1>3, <1>7, <1>8 DEF QueuesHeld, Held, LoadHeld, StoreHeld, LoadsAt, StoresAt, OneIf
<1>11. CASE p = 0 /\ z = [e EXCEPT !.RTL0 = Append(@, slot)]
  <2>1. /\ Shape(z) /\ z.rob = e.rob /\ z.LQ = e.LQ /\ z.SQ = e.SQ
        /\ z.RTL0 = Append(e.RTL0, slot) /\ z.RTL1 = e.RTL1 /\ z.RTS0 = e.RTS0 /\ z.RTS1 = e.RTS1
    BY <1>8, <1>11 DEF Shape, CoreFields
  <2>2. QueuesTyped(e)
    BY <1>7 DEF Queues
  <2>3. QueuesTyped(z)
    BY <1>3, <2>1, <2>2 DEF QueuesTyped
  <2>4. QueuesSame(e, z, retired, dispatched)
    <3>1. \A m \in retired + 1 .. dispatched : InstrTyped(P, e, m, dispatched)
      BY <1>7 DEF Queues
    <3> QED
      BY <2>1, <3>1 DEF QueuesSame, InstrTyped
  <2>5. /\ Queues(P, z, retired, dispatched)
        /\ \A s \in LoadSlots : s # slot => Pending(P, z, s)
    BY <1>0, <1>7, <2>3, <2>4, SameQueuesKeep, SMTT(60)
  <2>6. Pending(P, z, slot)
    BY <1>9, <1>11, <2>1 DEF Pending
  <2>7. \A s : Times(s, z.RTL0) = Times(s, e.RTL0) + OneIf(slot = s)
    BY <1>3, <2>1, <2>2, TimesAppend DEF QueuesTyped
  <2>8. ASSUME NEW s \in LoadSlots PROVE LoadHeld(z, d, l, s)
    <3>1. LoadsAt(z, d, l, s) = LoadsAt(e, d, l, s) + OneIf(slot = s)
      BY <2>1, <2>2, <2>7, TimesTyped, SMTT(60) DEF LoadsAt, OneIf
    <3>2. CASE s = slot
      BY <1>9, <1>10, <1>11, <2>1, <3>1, <3>2 DEF LoadHeld, OneIf
    <3>3. CASE s # slot
      <4>1. LoadHeld(e, d, l, s) /\ z.LQ[s] = e.LQ[s]
        BY <1>10, <2>1, <3>3
      <4> QED
        BY <3>1, <3>3, <4>1 DEF LoadHeld, OneIf
    <3> QED
      BY <3>2, <3>3
  <2>9. \A s \in StoreSlots : StoreHeld(z, d, s)
    BY <1>10, <2>1 DEF StoreHeld, StoresAt
  <2> QED
    BY <2>1, <2>5, <2>6, <2>8, <2>9 DEF QueuesHeld, Held
<1>12. CASE p # 0
  <2>1. DependentEntered(e, f, n, p)
    BY <1>4, <1>8, <1>12, WithDependentFields DEF f
  <2>2. /\ Shape(f) /\ f.LQ = e.LQ /\ f.SQ = e.SQ
        /\ f.RTL0 = e.RTL0 /\ f.RTL1 = e.RTL1 /\ f.RTS0 = e.RTS0 /\ f.RTS1 = e.RTS1
    BY <2>1 DEF DependentEntered, CoreFields
  <2>3. ASSUME NEW m \in ROB
        PROVE  /\ f.rob[m].source_added = e.rob[m].source_added
               /\ f.rob[m].destination_added = e.rob[m].destination_added
               /\ f.rob[m].destination_memory = e.rob[m].destination_memory
               /\ f.rob[m].lq_index = e.rob[m].lq_index
               /\ f.rob[m].sq_index = e.rob[m].sq_index
               /\ f.rob[m].executed = e.rob[m].executed
               /\ f.rob[m].num_mem_ops = e.rob[m].num_mem_ops
               /\ m # p => f.rob[m].memory_instrs_depend_on_me = e.rob[m].memory_instrs_depend_on_me
    <3>1. m \in Ids
      BY RobInTrace
    <3> QED
      BY <2>1, <3>1 DEF DependentEntered, InstrFields
  <2>4. f.rob[p].memory_instrs_depend_on_me = Append(e.rob[p].memory_instrs_depend_on_me, n)
    BY <2>1 DEF DependentEntered
  <2>5. \A m \in ROB : e.rob[m].memory_instrs_depend_on_me \in Seq(m + 1 .. dispatched)
    BY <1>0, <1>7 DEF Queues, InstrTyped
  <2>6. p \in ROB /\ n \in p + 1 .. dispatched
    BY <1>0, <1>4, <1>12 DEF Ids, Order
  <2>7. /\ f.rob[p].memory_instrs_depend_on_me \in Seq(p + 1 .. dispatched)
        /\ n \in Range(f.rob[p].memory_instrs_depend_on_me)
        /\ Range(e.rob[p].memory_instrs_depend_on_me) \subseteq Range(f.rob[p].memory_instrs_depend_on_me)
    <3> DEFINE q == e.rob[p].memory_instrs_depend_on_me
    <3>1. q \in Seq(p + 1 .. dispatched)
      BY <2>5, <2>6
    <3> HIDE DEF q
    <3>2. /\ Append(q, n) \in Seq(p + 1 .. dispatched) /\ Append(q, n)[Len(q) + 1] = n /\ Len(q) + 1 \in DOMAIN Append(q, n)
          /\ \A i \in DOMAIN q : i \in DOMAIN Append(q, n) /\ Append(q, n)[i] = q[i]
      BY <2>6, <3>1
    <3> QED
      BY <2>4, <3>2 DEF Range, q
  <2>8. QueuesSame(e, f, retired, dispatched)
    <3>1. ASSUME NEW m \in ROB
          PROVE  /\ f.rob[m].memory_instrs_depend_on_me \in Seq(m + 1 .. dispatched)
                 /\ Range(e.rob[m].memory_instrs_depend_on_me) \subseteq Range(f.rob[m].memory_instrs_depend_on_me)
      <4>1. CASE m = p
        BY <2>7, <4>1
      <4>2. CASE m # p
        BY <2>3, <2>5, <4>2
      <4> QED
        BY <4>1, <4>2
    <3> QED
      BY <1>0, <2>2, <2>3, <3>1 DEF QueuesSame
  <2>9. QueuesTyped(f)
    BY <1>7, <2>2 DEF Queues, QueuesTyped
  <2>10. /\ Queues(P, f, retired, dispatched)
         /\ \A s \in LoadSlots : s # slot => Pending(P, f, s)
    BY <1>0, <1>7, <2>8, <2>9, SameQueuesKeep
  <2>11. Held(f, d, l)
    BY <1>9, <1>10, <1>12, <2>2 DEF Held, LoadHeld, StoreHeld, LoadsAt, StoresAt, OneIf
  <2>12. CASE ~ WillForward(c, p, a) /\ z = f
    <3>1. Pending(P, f, slot)
      <4>1. PICK k \in c.rob[p].destination_memory : P[p].store[k] = a
        BY <1>4, <1>12 DEF StoreProducers
      <4>2. ~ Executed(c, p, k)
        <5>1. ASSUME Executed(c, p, k) PROVE FALSE
          <6>1. k \in LiveStores(c, p)
            BY <4>1, <5>1 DEF Executed, LiveStores
          <6>2. StorePlaced(P, c, p, k)
            BY <1>0, <2>6, <6>1 DEF QueuesHeld, Queues
          <6> QED
            BY <2>12, <4>1, <5>1, <6>2 DEF StorePlaced, WillForward, Executed
        <5> QED
          BY <5>1, SMTT(60)
      <4>3. /\ f.rob[p].destination_memory = c.rob[p].destination_memory
            /\ f.rob[p].destination_added = c.rob[p].destination_added
            /\ f.rob[p].sq_index = c.rob[p].sq_index
        <5>1. p \in Ids /\ p # n
          BY <1>0, <1>4, <1>12 DEF Ids
        <5>2. e.rob[p] = c.rob[p]
          BY <1>6, <5>1 DEF LoadEntered
        <5> QED
          BY <2>3, <2>6, <5>2
      <4>4. ~ Executed(f, p, k)
        BY <1>8, <2>2, <4>2, <4>3 DEF Executed
      <4> QED
        BY <1>9, <2>2, <2>7, <4>1, <4>3, <4>4 DEF Pending
    <3> QED
      BY <2>2, <2>10, <2>11, <2>12, <3>1, SMTT(60) DEF QueuesHeld
  <2>13. CASE z = Forwarded(f, {slot}, p)
    <3> DEFINE v == [x \in Address |-> p]
               S == {slot}
    <3>1. z = Loaded(f, S, v)
      BY <2>13 DEF Forwarded
    <3>2. LoadsOver(f, z, S, v)
      <4> HIDE DEF v
      <4> QED
        BY <1>3, <2>2, <3>1, LoadedFields
    <3>3. /\ Queues(P, z, retired, dispatched)
          /\ \A s \in LoadSlots : s \in S \/ Pending(P, f, s) => Pending(P, z, s)
      <4>1. \A s \in S : f.LQ[s] # NoEntry
        BY <1>9, <2>2
      <4>2. S \in SUBSET LoadSlots
        BY <1>3
      <4> HIDE DEF v, S
      <4> QED
        BY <1>0, <2>10, <3>2, <4>1, <4>2, LoadedKeeps
    <3>4. /\ Shape(z) /\ z.SQ = f.SQ
          /\ z.RTL0 = f.RTL0 /\ z.RTL1 = f.RTL1 /\ z.RTS0 = f.RTS0 /\ z.RTS1 = f.RTS1
      BY <3>2 DEF LoadsOver, CoreFields
    <3>5. /\ z.LQ[slot] = NoEntry
          /\ \A s \in LoadSlots : s # slot => z.LQ[s] = f.LQ[s]
      BY <1>3, <3>2 DEF LoadsOver
    <3>6. Held(z, d, l)
      <4>1. ASSUME NEW s \in LoadSlots PROVE LoadHeld(z, d, l, s)
        <5>1. LoadsAt(z, d, l, s) = LoadsAt(f, d, l, s) /\ LoadHeld(f, d, l, s)
          BY <2>11, <3>4 DEF LoadsAt, Held
        <5>2. CASE s = slot
          BY <1>9, <1>12, <2>2, <3>5, <5>1, <5>2 DEF LoadHeld, OneIf
        <5>3. CASE s # slot
          BY <3>5, <5>1, <5>3 DEF LoadHeld
        <5> QED
          BY <5>2, <5>3
      <4>2. \A s \in StoreSlots : StoreHeld(z, d, s)
        BY <2>11, <3>4 DEF Held, StoreHeld, StoresAt
      <4> QED
        BY <4>1, <4>2 DEF Held
    <3> QED
      BY <2>10, <3>3, <3>4, <3>6 DEF QueuesHeld
  <2> QED
    BY <1>2, <1>12, <2>12, <2>13
<1> QED
  BY <1>2, <1>11, <1>12

\* add_store_queue
LEMMA AddStoreKeeps ==
    ASSUME Order, NEW c, Shape(c), NEW d, NEW l, QueuesHeld(program, c, d, l, retired, dispatched),
           NEW n \in ROB, NEW k \in 1 .. Len(program[n].store)
    PROVE  QueuesHeld(program, AddStore(c, n, k), d, l, retired, dispatched) /\ Shape(AddStore(c, n, k))
<1> DEFINE P == program
           slot == FreeSlot(c.SQ)
           e == WithStore(c, n, k, slot)
           z == AddStore(c, n, k)
<1>0. Bounds(P, retired, dispatched) /\ n \in Ids /\ ROB = retired + 1 .. dispatched
  BY RobInTrace DEF Order, Bounds, ROB
<1>1. CASE z = c
  BY <1>1
<1> SUFFICES ASSUME z # c PROVE QueuesHeld(P, z, d, l, retired, dispatched) /\ Shape(z)
  BY <1>1
<1>2. k \notin c.rob[n].destination_added /\ ~ AllValid(c.SQ) /\ z = e
  BY AddStoreCases
<1>3. slot \in StoreSlots /\ c.SQ[slot] = NoEntry
  BY <1>2, FreeSlotIsFree, SizeAssumption DEF Shape, StoreSlots
<1>4. StoreEntered(c, e, n, k, slot)
  BY <1>0, WithStoreFields
<1> HIDE DEF slot, e, z
<1>5. /\ Queues(P, e, retired, dispatched)
      /\ \A s \in LoadSlots : Pending(P, e, s)
      /\ \A s \in StoreSlots : s # slot => e.SQ[s] = c.SQ[s]
      /\ e.SQ[slot] = [instr |-> n, address |-> program[n].store[k], fetched |-> FALSE]
  <2>1. Queues(P, c, retired, dispatched) /\ \A s \in LoadSlots : Pending(P, c, s)
    BY DEF QueuesHeld
  <2>2. StoreEnters(c, e, retired, dispatched, n, k, slot)
    BY <1>0, <1>2, <1>3, <1>4, <2>1 DEF StoreEnters
  <2>3. HasStore(c, e, retired, dispatched, n, k, slot)
    BY <2>2, StoreEnteredKeeps
  <2> QED
    BY <2>1, <2>3 DEF HasStore
<1>6. /\ Shape(e) /\ e.LQ = c.LQ /\ e.RTL0 = c.RTL0 /\ e.RTL1 = c.RTL1
      /\ e.RTS0 = Append(c.RTS0, slot) /\ e.RTS1 = c.RTS1
  BY <1>4 DEF StoreEntered, CoreFields
<1>7. e.SQ[slot] # NoEntry /\ ~ e.SQ[slot].fetched
  <2>1. n # 0
    BY <1>0 DEF Ids
  <2> QED
    BY <1>5, <2>1 DEF NoEntry
<1>8. QueuesTyped(c)
  BY DEF QueuesHeld, Queues
<1>9. \A s : Times(s, e.RTS0) = Times(s, c.RTS0) + OneIf(slot = s)
  BY <1>3, <1>6, <1>8, TimesAppend DEF QueuesTyped
<1>10. ASSUME NEW s \in StoreSlots PROVE StoreHeld(e, d, s)
  <2>1. StoresAt(e, d, s) = StoresAt(c, d, s) + OneIf(slot = s) /\ StoreHeld(c, d, s)
    <3>1. /\ Times(s, c.RTS0) \in Nat /\ Times(s, c.RTS1) \in Nat
          /\ Times(s, e.RTS0) = Times(s, c.RTS0) + OneIf(slot = s) /\ e.RTS1 = c.RTS1
      BY <1>6, <1>8, <1>9, TimesTyped
    <3>2. OneIf(slot = s) \in Nat /\ OneIf([queue |-> "SQ", slot |-> s] \in d) \in Nat
      BY DEF OneIf
    <3>3. StoresAt(e, d, s) = StoresAt(c, d, s) + OneIf(slot = s)
      BY <3>1, <3>2 DEF StoresAt
    <3> QED
      BY <3>3 DEF QueuesHeld, Held
  <2>2. CASE s = slot
    BY <1>3, <1>7, <2>1, <2>2 DEF StoreHeld, OneIf
  <2>3. CASE s # slot
    BY <1>5, <2>1, <2>3 DEF StoreHeld, OneIf
  <2> QED
    BY <2>2, <2>3
<1>11. \A s \in LoadSlots : LoadHeld(e, d, l, s)
  BY <1>6 DEF QueuesHeld, Held, LoadHeld, LoadsAt
<1> QED
  BY <1>2, <1>5, <1>6, <1>10, <1>11 DEF QueuesHeld, Held

\* z and c differ in nothing the invariant reads.
SameQueues(c, z, lo, hi) ==
    /\ z.LQ = c.LQ /\ z.SQ = c.SQ
    /\ z.RTL0 = c.RTL0 /\ z.RTL1 = c.RTL1 /\ z.RTS0 = c.RTS0 /\ z.RTS1 = c.RTS1
    /\ \A m \in lo + 1 .. hi :
          /\ z.rob[m].source_added = c.rob[m].source_added
          /\ z.rob[m].destination_added = c.rob[m].destination_added
          /\ z.rob[m].destination_memory = c.rob[m].destination_memory
          /\ z.rob[m].lq_index = c.rob[m].lq_index
          /\ z.rob[m].sq_index = c.rob[m].sq_index
          /\ z.rob[m].num_mem_ops = c.rob[m].num_mem_ops
          /\ z.rob[m].memory_instrs_depend_on_me = c.rob[m].memory_instrs_depend_on_me
          /\ c.rob[m].executed = COMPLETED => z.rob[m].executed = COMPLETED
          /\ z.rob[m].executed = COMPLETED => c.rob[m].executed = COMPLETED \/ c.rob[m].num_mem_ops = 0

LEMMA SameQueuesHeld ==
    ASSUME NEW P, NEW c, NEW z, NEW d, NEW l, NEW lo, NEW hi, Bounds(P, lo, hi),
           QueuesHeld(P, c, d, l, lo, hi), SameQueues(c, z, lo, hi)
    PROVE  QueuesHeld(P, z, d, l, lo, hi)
<1>1. Queues(P, c, lo, hi) /\ (\A s \in LoadSlots : Pending(P, c, s)) /\ Held(c, d, l)
  BY DEF QueuesHeld
<1>2. QueuesTyped(z)
  BY <1>1 DEF Queues, QueuesTyped, SameQueues
<1>3. QueuesSame(c, z, lo, hi)
  <2>1. \A m \in lo + 1 .. hi : c.rob[m].memory_instrs_depend_on_me \in Seq(m + 1 .. hi)
    BY <1>1 DEF Queues, InstrTyped
  <2> QED
    BY <2>1 DEF QueuesSame, SameQueues
<1>4. Held(z, d, l)
  BY <1>1 DEF Held, LoadHeld, StoreHeld, LoadsAt, StoresAt, SameQueues
<1>5. Queues(P, z, lo, hi) /\ \A s \in LoadSlots : Pending(P, z, s)
  BY <1>1, <1>2, <1>3, SameQueuesKeep
<1> QED
  BY <1>4, <1>5 DEF QueuesHeld

LEMMA LoadsAddedKeeps ==
    ASSUME Order, NEW c, Shape(c), NEW d, NEW l, QueuesHeld(program, c, d, l, retired, dispatched), NEW n \in ROB
    PROVE  QueuesHeld(program, LoadsAdded(c, n), d, l, retired, dispatched) /\ Shape(LoadsAdded(c, n))
<1>1. n \in Ids /\ n \in 1 .. Len(program)
  BY RobInTrace
<1>2. Len(program[n].load) \in Nat
  BY <1>1, InstructionInTrace
<1>3. PICK f : LoadRun(c, n, f)
  BY <1>2, LoadsAddedSteps
<1>4. /\ f[0] = c
      /\ \A j \in 1 .. Len(program[n].load) : f[j] = AddLoad(f[j - 1], n, j)
      /\ LoadsAdded(c, n) = f[Len(program[n].load)]
  BY <1>3 DEF LoadRun
<1> DEFINE L == Len(program[n].load)
           Good(i) == QueuesHeld(program, f[i], d, l, retired, dispatched) /\ Shape(f[i])
           S == {i \in Nat : i <= L => Good(i)}
<1>5. 0 \in S
  BY <1>4
<1>6. ASSUME NEW i \in Nat, i \in S PROVE i + 1 \in S
  <2> SUFFICES ASSUME i + 1 <= L PROVE Good(i + 1)
    OBVIOUS
  <2>1. Good(i)
    BY <1>2, <1>6
  <2>2. i + 1 \in 1 .. L /\ (i + 1) - 1 = i
    BY <1>2
  <2>3. f[i + 1] = AddLoad(f[i], n, i + 1)
    BY <1>4, <2>2
  <2> HIDE DEF S
  <2> QED
    BY <2>1, <2>2, <2>3, AddLoadKeeps
<1>7. L \in S
  <2> HIDE DEF S
  <2> QED
    BY <1>2, <1>5, <1>6, SetInduction
<1> QED
  BY <1>2, <1>4, <1>7

LEMMA StoresAddedKeeps ==
    ASSUME Order, NEW c, Shape(c), NEW d, NEW l, QueuesHeld(program, c, d, l, retired, dispatched), NEW n \in ROB
    PROVE  QueuesHeld(program, StoresAdded(c, n), d, l, retired, dispatched) /\ Shape(StoresAdded(c, n))
<1>1. n \in Ids /\ n \in 1 .. Len(program)
  BY RobInTrace
<1>2. Len(program[n].store) \in Nat
  BY <1>1, InstructionInTrace
<1>3. PICK f : StoreRun(c, n, f)
  BY <1>2, StoresAddedSteps
<1>4. /\ f[0] = c
      /\ \A k \in 1 .. Len(program[n].store) : f[k] = AddStore(f[k - 1], n, k)
      /\ StoresAdded(c, n) = f[Len(program[n].store)]
  BY <1>3 DEF StoreRun
<1> DEFINE L == Len(program[n].store)
           Good(i) == QueuesHeld(program, f[i], d, l, retired, dispatched) /\ Shape(f[i])
           S == {i \in Nat : i <= L => Good(i)}
<1>5. 0 \in S
  BY <1>4
<1>6. ASSUME NEW i \in Nat, i \in S PROVE i + 1 \in S
  <2> SUFFICES ASSUME i + 1 <= L PROVE Good(i + 1)
    OBVIOUS
  <2>1. Good(i)
    BY <1>2, <1>6
  <2>2. i + 1 \in 1 .. L /\ (i + 1) - 1 = i
    BY <1>2
  <2>3. f[i + 1] = AddStore(f[i], n, i + 1)
    BY <1>4, <2>2
  <2> HIDE DEF S
  <2> QED
    BY <2>1, <2>2, <2>3, AddStoreKeeps
<1>7. L \in S
  <2> HIDE DEF S
  <2> QED
    BY <1>2, <1>5, <1>6, SetInduction
<1> QED
  BY <1>2, <1>4, <1>7

\* What do_memory_scheduling does once the operations are in the queues.
LEMMA MemoryScheduledTail ==
    ASSUME Order, NEW c, NEW n \in ROB, NEW e, e = StoresAdded(LoadsAdded(c, n), n), Shape(e)
    PROVE  LET z == MemoryScheduled(c, n)
           IN  /\ SameQueues(e, z, retired, dispatched)
               /\ z.data = e.data /\ z.inflight_reg = e.inflight_reg /\ z.inflight_mem = e.inflight_mem
               /\ \A m \in ROB : m # n => z.rob[m] = e.rob[m]
               /\ \A m \in ROB : z.rob[m].executed = COMPLETED <=> e.rob[m].executed = COMPLETED
<1> DEFINE done == e.rob[n].source_added = Loads(n) /\ e.rob[n].destination_added = StoresOf(n)
           z == MemoryScheduled(c, n)
<1>1. Shape(e)
  OBVIOUS
<1>2. \/ ~ done /\ z = e
      \/ done /\ z = [e EXCEPT !.rob[n].scheduled = COMPLETED,
                               !.rob[n].executed = IF @ = None THEN INFLIGHT ELSE @]
  BY DEF MemoryScheduled
<1>3. n \in Ids /\ ROB \subseteq Ids /\ ROB = retired + 1 .. dispatched /\ Bounds(program, retired, dispatched)
  BY RobInTrace DEF Order, Bounds, ROB
<1> HIDE DEF done, z
<1>4. CASE z = [e EXCEPT !.rob[n].scheduled = COMPLETED,
                         !.rob[n].executed = IF @ = None THEN INFLIGHT ELSE @]
  <2> DEFINE x == IF e.rob[n].executed = None THEN INFLIGHT ELSE e.rob[n].executed
             i == [[e.rob[n] EXCEPT !.scheduled = COMPLETED] EXCEPT !.executed = x]
             R == [e.rob EXCEPT ![n] = i]
  <2>1. z = [e EXCEPT !.rob = R]
    <3>1. /\ "rob" \in DOMAIN e /\ n \in DOMAIN e.rob
          /\ "scheduled" \in DOMAIN e.rob[n] /\ "executed" \in DOMAIN e.rob[n]
      BY <1>1, <1>3 DEF Shape, CoreFields, InstrFields
    <3> QED
      BY <1>4, <3>1
  <2>2. R[n] = i /\ \A m \in Ids : m # n => R[m] = e.rob[m]
    BY <1>1, <1>3 DEF Shape
  <2>3. /\ i.executed = x
        /\ \A f \in InstrFields \ {"scheduled", "executed"} : i[f] = e.rob[n][f]
    BY <1>1, <1>3 DEF Shape, InstrFields
  <2>4. x = COMPLETED <=> e.rob[n].executed = COMPLETED
    BY DEF None, INFLIGHT, COMPLETED
  <2> HIDE DEF x, i, R
  <2>5. /\ z.rob = R /\ \A f \in CoreFields \ {"rob"} : z[f] = e[f]
    BY <1>1, <2>1 DEF Shape, CoreFields
  <2>6. /\ SameQueues(e, z, retired, dispatched)
        /\ \A m \in ROB : z.rob[m].executed = COMPLETED <=> e.rob[m].executed = COMPLETED
    <3>1. ASSUME NEW m \in ROB
          PROVE  /\ z.rob[m].executed = COMPLETED <=> e.rob[m].executed = COMPLETED
                 /\ \A f \in InstrFields \ {"scheduled", "executed"} : z.rob[m][f] = e.rob[m][f]
      <4>1. CASE m = n
        BY <2>2, <2>3, <2>4, <2>5, <4>1
      <4>2. CASE m # n
        BY <1>3, <2>2, <2>5, <4>2, SMTT(60)
      <4> QED
        BY <4>1, <4>2
    <3> QED
      BY <1>3, <2>5, <3>1 DEF SameQueues, CoreFields, InstrFields
  <2>7. \A m \in ROB : m # n => z.rob[m] = e.rob[m]
    BY <1>3, <2>2, <2>5
  <2> QED
    BY <2>5, <2>6, <2>7 DEF z, CoreFields
<1>5. CASE z = e
  BY <1>5 DEF z, SameQueues
<1> QED
  BY <1>2, <1>4, <1>5

\* do_memory_scheduling
LEMMA MemoryScheduledKeeps ==
    ASSUME Order, NEW c, Shape(c), NEW d, NEW l, QueuesHeld(program, c, d, l, retired, dispatched), NEW n \in ROB
    PROVE  QueuesHeld(program, MemoryScheduled(c, n), d, l, retired, dispatched)
<1> DEFINE e == StoresAdded(LoadsAdded(c, n), n)
           z == MemoryScheduled(c, n)
<1>1. QueuesHeld(program, e, d, l, retired, dispatched) /\ Shape(e)
  BY LoadsAddedKeeps, StoresAddedKeeps
<1>2. SameQueues(e, z, retired, dispatched)
  BY <1>1, MemoryScheduledTail
<1>3. Bounds(program, retired, dispatched)
  BY SMTT(60) DEF Order, Bounds
<1> HIDE DEF e, z
<1> QED
  BY <1>1, <1>2, <1>3, SameQueuesHeld DEF z

\* e is c after the store of n in a slot of the store queue has executed.
StoreDone(c, e, n, slot) ==
    /\ Shape(e)
    /\ e.LQ = c.LQ /\ e.data = c.data /\ e.inflight_reg = c.inflight_reg
    /\ e.inflight_mem = c.inflight_mem + Cardinality({m \in Ids : m = n /\ c.rob[m].num_mem_ops = 1})
    /\ e.RTL0 = c.RTL0 /\ e.RTL1 = c.RTL1 /\ e.RTS0 = c.RTS0 /\ e.RTS1 = Tail(c.RTS1)
    /\ e.SQ[slot] = [c.SQ[slot] EXCEPT !.fetched = TRUE]
    /\ \A s \in StoreSlots : s # slot => e.SQ[s] = c.SQ[s]
    /\ \A m \in Ids :
          /\ \A f \in InstrFields \ {"num_mem_ops"} : e.rob[m][f] = c.rob[m][f]
          /\ e.rob[m].num_mem_ops = c.rob[m].num_mem_ops - OneIf(m = n)

LEMMA StoreDoneFields ==
    ASSUME NEW c, Shape(c), NEW n, NEW slot \in StoreSlots, "fetched" \in DOMAIN c.SQ[slot]
    PROVE  StoreDone(c, Performed([c EXCEPT !.RTS1 = Tail(@), !.SQ[slot].fetched = TRUE],
                                  {[instr |-> n, slot |-> slot]}), n, slot)
<1> DEFINE x == [c.SQ[slot] EXCEPT !.fetched = TRUE]
           L == [c.SQ EXCEPT ![slot] = x]
           t == Tail(c.RTS1)
           b == [c EXCEPT !.RTS1 = Tail(@), !.SQ[slot].fetched = TRUE]
           op == [instr |-> n, slot |-> slot]
           ops == {op}
           e == Performed(b, ops)
<1>1. b = [[c EXCEPT !.RTS1 = t] EXCEPT !.SQ = L]
  <2>1. "RTS1" \in DOMAIN c /\ "SQ" \in DOMAIN c /\ slot \in DOMAIN c.SQ
    BY DEF Shape, CoreFields
  <2> QED
    BY <2>1
<1>2. L[slot] = x /\ DOMAIN L = StoreSlots /\ \A s \in StoreSlots : s # slot => L[s] = c.SQ[s]
  BY DEF Shape
<1> HIDE DEF x, L, t, b
<1>3. /\ DOMAIN b = CoreFields /\ b.RTS1 = t /\ b.SQ = L
      /\ \A f \in CoreFields \ {"RTS1", "SQ"} : b[f] = c[f]
  BY <1>1 DEF Shape, CoreFields
<1>4. Shape(b)
  BY <1>2, <1>3 DEF Shape, CoreFields
<1>5. \A m : OverOf(ops, m) = OneIf(m = n)
  <2> SUFFICES ASSUME NEW m PROVE OverOf(ops, m) = OneIf(m = n)
    OBVIOUS
  <2> DEFINE T == {o \in ops : o.instr = m}
  <2>1. CASE m = n
    <3>1. T = {op}
      BY <2>1
    <3> HIDE DEF op
    <3> QED
      BY <2>1, <3>1, FS_Singleton DEF OverOf, OneIf
  <2>2. CASE m # n
    <3>1. T = {}
      BY <2>2
    <3> HIDE DEF op
    <3> QED
      BY <2>2, <3>1, FS_EmptySet DEF OverOf, OneIf
  <2> QED
    BY <2>1, <2>2
<1> HIDE DEF ops
<1>6. /\ Shape(e)
      /\ \A f \in CoreFields \ {"rob", "inflight_mem"} : e[f] = b[f]
      /\ \A m \in Ids : e.rob[m] = [b.rob[m] EXCEPT !.num_mem_ops = @ - OverOf(ops, m)]
      /\ e.inflight_mem = b.inflight_mem + Cardinality(Finishing(b, ops))
  BY <1>4, PerformedFields
<1> HIDE DEF e
<1>7. /\ e.LQ = c.LQ /\ e.data = c.data /\ e.SQ = L
      /\ e.RTL0 = c.RTL0 /\ e.RTL1 = c.RTL1 /\ e.RTS0 = c.RTS0 /\ e.RTS1 = t /\ b.rob = c.rob
  BY <1>3, <1>6 DEF CoreFields
<1>8. ASSUME NEW m \in Ids
      PROVE  /\ \A f \in InstrFields \ {"num_mem_ops"} : e.rob[m][f] = c.rob[m][f]
             /\ e.rob[m].num_mem_ops = c.rob[m].num_mem_ops - OneIf(m = n)
  <2>1. DOMAIN c.rob[m] = InstrFields
    BY DEF Shape
  <2>2. e.rob[m] = [c.rob[m] EXCEPT !.num_mem_ops = c.rob[m].num_mem_ops - OneIf(m = n)]
    BY <1>5, <1>6, <1>7
  <2> QED
    BY <2>1, <2>2 DEF InstrFields
<1>9. /\ e.inflight_reg = c.inflight_reg
      /\ e.inflight_mem = c.inflight_mem + Cardinality({m \in Ids : m = n /\ c.rob[m].num_mem_ops = 1})
  <2>1. Finishing(b, ops) = {m \in Ids : m = n /\ c.rob[m].num_mem_ops = 1}
    BY <1>5, <1>7 DEF Finishing, OneIf
  <2> QED
    BY <1>3, <1>6, <2>1 DEF CoreFields
<1> QED
  BY <1>2, <1>6, <1>7, <1>8, <1>9 DEF StoreDone, e, b, ops, t, x, op

\* Of n's stores to be written, k executes now, from its slot.
StoreExecutes(P, c, e, lo, hi, n, k, slot) ==
    /\ Bounds(P, lo, hi) /\ Queues(P, c, lo, hi)
    /\ n \in lo + 1 .. hi /\ k \in LiveStores(c, n) /\ c.rob[n].sq_index[k] = slot
    /\ ~ c.SQ[slot].fetched /\ c.RTS1 # <<>>
    /\ StoreDone(c, e, n, slot)

\* All that waits is kept, but for the loads that wait for this store.
ButForwarded(P, c, e, lo, hi, n, k) ==
    /\ Queues(P, e, lo, hi)
    /\ \A s \in LoadSlots :
          Pending(P, c, s) => \/ Pending(P, e, s)
                              \/ c.LQ[s] # NoEntry /\ c.LQ[s].producer = n /\ c.LQ[s].address = P[n].store[k]

LEMMA StoreDoneKeeps ==
    ASSUME NEW P, NEW c, NEW e, NEW lo, NEW hi, NEW n, NEW k, NEW slot,
           StoreExecutes(P, c, e, lo, hi, n, k, slot)
    PROVE  ButForwarded(P, c, e, lo, hi, n, k)
<1> USE DEF StoreExecutes
<1>0. lo + 1 .. hi \subseteq Ids /\ 0 \notin lo + 1 .. hi
  BY InBounds
<1>1. /\ e.LQ = c.LQ /\ e.RTL0 = c.RTL0 /\ e.RTL1 = c.RTL1 /\ e.RTS0 = c.RTS0 /\ e.RTS1 = Tail(c.RTS1)
  BY DEF StoreDone
<1>2. ASSUME NEW m \in lo + 1 .. hi
      PROVE  /\ e.rob[m].source_added = c.rob[m].source_added
             /\ e.rob[m].destination_added = c.rob[m].destination_added
             /\ e.rob[m].destination_memory = c.rob[m].destination_memory
             /\ e.rob[m].lq_index = c.rob[m].lq_index
             /\ e.rob[m].sq_index = c.rob[m].sq_index
             /\ e.rob[m].executed = c.rob[m].executed
             /\ e.rob[m].memory_instrs_depend_on_me = c.rob[m].memory_instrs_depend_on_me
             /\ e.rob[m].num_mem_ops = c.rob[m].num_mem_ops - OneIf(m = n)
             /\ LiveStores(e, m) = LiveStores(c, m)
             /\ Unadded(P, e, m) = Unadded(P, c, m)
             /\ EntriesOf(e, m) = EntriesOf(c, m)
  <2>1. m \in Ids
    BY <1>0
  <2>2. \A f \in InstrFields \ {"num_mem_ops"} : e.rob[m][f] = c.rob[m][f]
    BY <2>1 DEF StoreDone
  <2>3. e.rob[m].num_mem_ops = c.rob[m].num_mem_ops - OneIf(m = n)
    BY <2>1 DEF StoreDone
  <2>4. /\ e.rob[m].source_added = c.rob[m].source_added
        /\ e.rob[m].destination_added = c.rob[m].destination_added
        /\ e.rob[m].destination_memory = c.rob[m].destination_memory
        /\ e.rob[m].lq_index = c.rob[m].lq_index
        /\ e.rob[m].sq_index = c.rob[m].sq_index
        /\ e.rob[m].executed = c.rob[m].executed
        /\ e.rob[m].memory_instrs_depend_on_me = c.rob[m].memory_instrs_depend_on_me
    BY <2>2 DEF InstrFields
  <2> QED
    BY <1>1, <2>3, <2>4 DEF LiveStores, Unadded, EntriesOf
<1>3. ASSUME NEW m \in lo + 1 .. hi, NEW l \in LiveStores(c, m) PROVE StorePlaced(P, c, m, l)
  BY DEF Queues
<1>4. slot \in StoreSlots /\ c.SQ[slot] # NoEntry /\ c.SQ[slot].instr = n /\ c.SQ[slot].address = P[n].store[k]
  BY <1>3 DEF StorePlaced
<1>5. ~ Executed(c, n, k) /\ k \in c.rob[n].destination_memory /\ k \in c.rob[n].destination_added
  BY DEF Executed, LiveStores
<1>6. InstrTyped(P, c, n, hi) /\ Counted(P, c, n)
  BY DEF Queues
<1>7. c.rob[n].executed # COMPLETED /\ k \in Unexecuted(P, c, n)
  BY <1>5, <1>6 DEF Counted, Unexecuted, InstrTyped
<1>8. StoreEntry(c, lo, hi, slot)
  BY <1>4 DEF Queues
<1>9. e.SQ[slot] = [instr |-> n, address |-> c.SQ[slot].address, fetched |-> TRUE]
  <2>1. c.SQ[slot] = [instr |-> c.SQ[slot].instr, address |-> c.SQ[slot].address, fetched |-> c.SQ[slot].fetched]
    BY <1>4, <1>8 DEF StoreEntry
  <2>2. e.SQ[slot] = [c.SQ[slot] EXCEPT !.fetched = TRUE]
    BY DEF StoreDone
  <2> QED
    BY <1>4, <2>1, <2>2
<1>10. \A s \in StoreSlots : s # slot => e.SQ[s] = c.SQ[s]
  BY DEF StoreDone
<1>11. ASSUME NEW m \in lo + 1 .. hi, NEW l \in c.rob[m].destination_memory
       PROVE  Executed(e, m, l) <=> Executed(c, m, l) \/ (m = n /\ l = k)
  <2>1. CASE l \notin c.rob[m].destination_added
    BY <1>2, <1>5, <2>1 DEF Executed
  <2>2. CASE l \in c.rob[m].destination_added
    <3>1. l \in LiveStores(c, m) /\ l \in e.rob[m].destination_added /\ e.rob[m].sq_index[l] = c.rob[m].sq_index[l]
      BY <1>2, <2>2 DEF LiveStores
    <3>2. CASE m = n /\ l = k
      BY <1>9, <3>1, <3>2 DEF Executed
    <3>3. CASE ~ (m = n /\ l = k)
      <4>1. c.rob[m].sq_index[l] \in StoreSlots \ {slot}
        <5>1. StorePlaced(P, c, m, l) /\ StorePlaced(P, c, n, k)
          BY <1>3, <3>1
        <5> QED
          BY <1>4, <3>1, <3>3, <5>1 DEF StorePlaced
      <4> QED
        BY <1>10, <2>2, <3>1, <3>3, <4>1, SMTT(60) DEF Executed
    <3> QED
      BY <3>2, <3>3
  <2> QED
    BY <2>1, <2>2
<1>12. ASSUME NEW m \in lo + 1 .. hi PROVE InstrTyped(P, e, m, hi) /\ Counted(P, e, m)
  <2>1. InstrTyped(P, c, m, hi) /\ Counted(P, c, m)
    BY DEF Queues
  <2>2. InstrTyped(P, e, m, hi)
    BY <1>2, <2>1 DEF InstrTyped
  <2>3. CASE c.rob[m].executed # COMPLETED
    <3>1. /\ c.rob[m].destination_memory = 1 .. Len(P[m].store)
          /\ c.rob[m].num_mem_ops = Cardinality(Unadded(P, c, m)) + Cardinality(EntriesOf(c, m))
                                       + Cardinality(Unexecuted(P, c, m))
      BY <2>1, <2>3 DEF Counted
    <3>2. Unexecuted(P, e, m) = IF m = n THEN Unexecuted(P, c, m) \ {k} ELSE Unexecuted(P, c, m)
      BY <1>11, <3>1 DEF Unexecuted
    <3>3. /\ IsFiniteSet(Unexecuted(P, c, m)) /\ Cardinality(Unexecuted(P, c, m)) \in Nat
          /\ Cardinality(Unadded(P, c, m)) \in Nat /\ Cardinality(EntriesOf(c, m)) \in Nat
      BY CountedSets
    <3>4. Cardinality(Unexecuted(P, e, m)) = Cardinality(Unexecuted(P, c, m)) - OneIf(m = n)
      <4>1. CASE m = n
        <5>1. Cardinality(Unexecuted(P, c, m) \ {k}) = Cardinality(Unexecuted(P, c, m)) - 1
          BY <1>7, <3>3, <4>1, FS_RemoveElement
        <5> QED
          BY <3>2, <4>1, <5>1 DEF OneIf
      <4>2. CASE m # n
        BY <3>2, <3>3, <4>2 DEF OneIf
      <4> QED
        BY <4>1, <4>2
    <3>5. OneIf(m = n) \in Nat
      BY DEF OneIf
    <3>6. e.rob[m].num_mem_ops = Cardinality(Unadded(P, e, m)) + Cardinality(EntriesOf(e, m))
                                    + Cardinality(Unexecuted(P, e, m))
      BY <1>2, <3>1, <3>3, <3>4, <3>5
    <3>7. e.rob[m].executed # COMPLETED /\ e.rob[m].destination_memory = 1 .. Len(P[m].store)
      BY <1>2, <2>3, <3>1
    <3> QED
      BY <2>2, <3>6, <3>7 DEF Counted
  <2>4. CASE c.rob[m].executed = COMPLETED
    <3>1. /\ Unadded(P, c, m) = {} /\ EntriesOf(c, m) = {}
          /\ c.rob[m].destination_added = 1 .. Len(P[m].store)
          /\ \A l \in c.rob[m].destination_memory : Executed(c, m, l)
      BY <2>1, <2>4 DEF Counted
    <3>2. /\ Unadded(P, e, m) = {} /\ EntriesOf(e, m) = {} /\ e.rob[m].executed = COMPLETED
          /\ e.rob[m].destination_added = c.rob[m].destination_added
          /\ e.rob[m].destination_memory = c.rob[m].destination_memory
      BY <1>2, <2>4, <3>1
    <3> QED
      BY <1>11, <2>2, <3>1, <3>2 DEF Counted
  <2> QED
    BY <2>3, <2>4
<1>13. ASSUME NEW s \in LoadSlots PROVE LoadEntry(P, e, lo, hi, s)
  <2>1. LoadEntry(P, c, lo, hi, s) /\ e.LQ[s] = c.LQ[s]
    BY <1>1 DEF Queues
  <2>2. \A m \in lo + 1 .. hi : /\ e.rob[m].source_added = c.rob[m].source_added
                                /\ e.rob[m].lq_index = c.rob[m].lq_index
    BY <1>2
  <2> QED
    BY <2>1, <2>2, LoadsSame
<1>14. ASSUME NEW s \in StoreSlots PROVE StoreEntry(e, lo, hi, s)
  <2>1. CASE s = slot
    <3> DEFINE x == e.SQ[slot]
    <3>1. x = [instr |-> x.instr, address |-> x.address, fetched |-> x.fetched] /\ x.instr = n /\ x.fetched \in BOOLEAN
      BY <1>9
    <3> HIDE DEF x
    <3>2. k \in LiveStores(e, n) /\ e.rob[n].sq_index[k] = slot
      BY <1>2
    <3> QED
      BY <2>1, <3>1, <3>2 DEF StoreEntry, x
  <2>2. CASE s # slot
    <3>1. StoreEntry(c, lo, hi, s) /\ e.SQ[s] = c.SQ[s]
      BY <1>10, <2>2 DEF Queues
    <3>2. CASE c.SQ[s] = NoEntry
      BY <3>1, <3>2, Zenon DEF StoreEntry
    <3>3. CASE c.SQ[s] # NoEntry
      <4> DEFINE m == c.SQ[s].instr
      <4>1. m \in lo + 1 .. hi
        BY <3>1, <3>3 DEF StoreEntry
      <4>2. LiveStores(e, m) = LiveStores(c, m) /\ e.rob[m].sq_index = c.rob[m].sq_index
        BY <1>2, <4>1, ZenonT(60)
      <4> QED
        BY <3>1, <3>3, <4>2, Zenon DEF StoreEntry
    <3> QED
      BY <3>2, <3>3
  <2> QED
    BY <2>1, <2>2
<1>15. ASSUME NEW m \in lo + 1 .. hi, NEW l \in LiveStores(e, m) PROVE StorePlaced(P, e, m, l)
  <2>1. LiveStores(e, m) = LiveStores(c, m) /\ e.rob[m].sq_index = c.rob[m].sq_index
    BY <1>2
  <2>2. StorePlaced(P, c, m, l)
    BY <1>3, <2>1
  <2> DEFINE s == c.rob[m].sq_index[l]
  <2>3. s \in StoreSlots /\ c.SQ[s] # NoEntry /\ c.SQ[s].instr = m /\ c.SQ[s].address = P[m].store[l]
    BY <2>2, SMTT(60) DEF StorePlaced
  <2>4. e.SQ[s] # NoEntry /\ e.SQ[s].instr = m /\ e.SQ[s].address = P[m].store[l]
    <3>1. CASE s = slot
      <4>1. e.SQ[slot].instr = n /\ e.SQ[slot].address = c.SQ[slot].address
        BY <1>9
      <4>2. e.SQ[slot] # NoEntry
        BY <1>0, <4>1 DEF NoEntry
      <4> QED
        BY <1>4, <2>3, <3>1, <4>1, <4>2
    <3>2. CASE s # slot
      BY <1>10, <2>3, <3>2, Zenon
    <3> QED
      BY <3>1, <3>2
  <2> QED
    BY <2>1, <2>2, <2>3, <2>4 DEF StorePlaced
<1>16. ASSUME NEW s \in LoadSlots, Pending(P, c, s)
       PROVE  \/ Pending(P, e, s)
              \/ c.LQ[s] # NoEntry /\ c.LQ[s].producer = n /\ c.LQ[s].address = P[n].store[k]
  <2> SUFFICES ASSUME c.LQ[s] # NoEntry, c.LQ[s].producer # 0,
                      ~ (c.LQ[s].producer = n /\ c.LQ[s].address = P[n].store[k])
               PROVE  Pending(P, e, s)
    BY <1>1 DEF Pending
  <2> DEFINE m == c.LQ[s].producer
  <2>1. m \in lo + 1 .. hi
    <3>1. LoadEntry(P, c, lo, hi, s)
      BY DEF Queues
    <3> QED
      BY <3>1, LoadEntryBounds
  <2>2. /\ c.LQ[s].instr \in Range(c.rob[m].memory_instrs_depend_on_me)
        /\ \E l \in c.rob[m].destination_memory : P[m].store[l] = c.LQ[s].address /\ ~ Executed(c, m, l)
    BY <1>16 DEF Pending
  <2>3. PICK l \in c.rob[m].destination_memory : P[m].store[l] = c.LQ[s].address /\ ~ Executed(c, m, l)
    BY <2>2
  <2>4. ~ Executed(e, m, l)
    BY <1>11, <2>1, <2>3
  <2>5. /\ e.rob[m].destination_memory = c.rob[m].destination_memory
        /\ e.rob[m].memory_instrs_depend_on_me = c.rob[m].memory_instrs_depend_on_me
    BY <1>2, <2>1
  <2> QED
    BY <1>1, <2>2, <2>3, <2>4, <2>5, Zenon DEF Pending
<1>17. QueuesTyped(e)
  <2>1. QueuesTyped(c)
    BY DEF Queues
  <2>2. Tail(c.RTS1) \in Seq(StoreSlots)
    BY <2>1, TimesTail DEF QueuesTyped
  <2> QED
    BY <1>1, <2>1, <2>2 DEF QueuesTyped
<1> QED
  BY <1>12, <1>13, <1>14, <1>15, <1>16, <1>17 DEF Queues, ButForwarded

-----------------------------------------------------------------------------
(* The actions keep it. *)

LsqStanding ==
    /\ Order /\ Shape(core) /\ LsqInv
    /\ Bounds(program, retired, dispatched) /\ ROB = retired + 1 .. dispatched /\ ROB \subseteq Ids

\* The head of a ready queue is an entry that is in that queue only.
LEMMA HeadOfStores ==
    ASSUME NEW P, NEW c, NEW d, NEW l, NEW lo, NEW hi, QueuesHeld(P, c, d, l, lo, hi),
           NEW q, q = c.RTS0 \/ q = c.RTS1, q # <<>>
    PROVE  /\ Head(q) \in StoreSlots
           /\ c.SQ[Head(q)] # NoEntry /\ ~ c.SQ[Head(q)].fetched
           /\ StoresAt(c, d, Head(q)) = 1
<1>1. QueuesTyped(c) /\ Held(c, d, l)
  BY DEF QueuesHeld, Queues
<1>2. q \in Seq(StoreSlots)
  BY <1>1 DEF QueuesTyped
<1>3. Head(q) \in StoreSlots /\ Times(Head(q), q) >= 1
  BY <1>2, TimesTail, TimesPositive
<1>4. Times(Head(q), c.RTS0) \in Nat /\ Times(Head(q), c.RTS1) \in Nat
  BY <1>1, TimesTyped
<1>5. OneIf([queue |-> "SQ", slot |-> Head(q)] \in d) \in Nat
  BY DEF OneIf
<1>6. StoresAt(c, d, Head(q)) >= 1
  BY <1>3, <1>4, <1>5 DEF StoresAt
<1>7. StoreHeld(c, d, Head(q))
  BY <1>1, <1>3 DEF Held
<1> QED
  BY <1>3, <1>6, <1>7 DEF StoreHeld, OneIf

LEMMA HeadOfLoads ==
    ASSUME NEW P, NEW c, NEW d, NEW l, NEW lo, NEW hi, QueuesHeld(P, c, d, l, lo, hi),
           NEW q, q = c.RTL0 \/ q = c.RTL1, q # <<>>
    PROVE  /\ Head(q) \in LoadSlots
           /\ c.LQ[Head(q)] # NoEntry /\ c.LQ[Head(q)].producer = 0
           /\ LoadsAt(c, d, l, Head(q)) = 1
<1>1. QueuesTyped(c) /\ Held(c, d, l)
  BY DEF QueuesHeld, Queues
<1>2. q \in Seq(LoadSlots)
  BY <1>1 DEF QueuesTyped
<1>3. Head(q) \in LoadSlots /\ Times(Head(q), q) >= 1
  BY <1>2, TimesTail, TimesPositive
<1>4. Times(Head(q), c.RTL0) \in Nat /\ Times(Head(q), c.RTL1) \in Nat
  BY <1>1, TimesTyped
<1>5. OneIf([queue |-> "LQ", slot |-> Head(q)] \in d) \in Nat /\ OneIf(Head(q) \in l) \in Nat
  BY DEF OneIf
<1>6. LoadsAt(c, d, l, Head(q)) >= 1
  BY <1>3, <1>4, <1>5 DEF LoadsAt
<1>7. LoadHeld(c, d, l, Head(q))
  BY <1>1, <1>3 DEF Held
<1> QED
  BY <1>3, <1>6, <1>7 DEF LoadHeld, OneIf

\* What execute_store does: from slot it executes store k of n, and the loads in the
\* slots S, all that wait for it, get its data.
StoreForwards(c, b, z, n, k, slot, S) ==
    /\ StoreExecutes(program, c, b, retired, dispatched, n, k, slot)
    /\ S \in SUBSET LoadSlots
    /\ \A s \in S : c.LQ[s] # NoEntry /\ c.LQ[s].producer = n
    /\ \A s \in LoadSlots :
          c.LQ[s] # NoEntry /\ c.LQ[s].producer = n /\ c.LQ[s].address = program[n].store[k] => s \in S
    /\ LoadsOver(b, z, S, [x \in Address |-> n])

LEMMA ExecuteStoreForwards ==
    ASSUME LsqStanding, ExecuteStore
    PROVE  \E b, n, k, S : StoreForwards(core, b, core', n, k, Head(core.RTS1), S)
<1> USE DEF LsqStanding
<1> DEFINE P == program
           lo == retired
           hi == dispatched
           slot == Head(core.RTS1)
           n == core.SQ[slot].instr
           a == core.SQ[slot].address
           visits == Visits(n, a)
           S == {v.slot : v \in visits}
           b == Performed([core EXCEPT !.RTS1 = Tail(@), !.SQ[slot].fetched = TRUE],
                          {[instr |-> n, slot |-> slot]})
           z == core'
<1>1. core.RTS1 # <<>> /\ Asserted(n, visits) /\ z = Forwarded(b, S, n)
  BY DEF ExecuteStore
<1>2. /\ Queues(P, core, lo, hi) /\ (\A s \in LoadSlots : Pending(P, core, s)) /\ Held(core, dtlb, l1d)
      /\ QueuesTyped(core)
  BY Zenon DEF LsqInv, QueuesHeld, Queues
<1>3. /\ slot \in StoreSlots /\ core.SQ[slot] # NoEntry /\ ~ core.SQ[slot].fetched
      /\ StoresAt(core, dtlb, slot) = 1
  BY <1>1, HeadOfStores, Zenon DEF LsqInv
<1>4. /\ core.SQ[slot] = [instr |-> n, address |-> a, fetched |-> core.SQ[slot].fetched]
      /\ n \in lo + 1 .. hi
      /\ \E k \in LiveStores(core, n) : core.rob[n].sq_index[k] = slot
  <2>1. StoreEntry(core, lo, hi, slot)
    BY <1>2, <1>3, Zenon DEF Queues
  <2> QED
    BY <1>3, <2>1, Zenon DEF StoreEntry
<1>5. PICK k \in LiveStores(core, n) : core.rob[n].sq_index[k] = slot
  BY <1>4, Zenon
<1>6. a = P[n].store[k]
  <2>1. StorePlaced(P, core, n, k)
    BY <1>2, <1>4 DEF Queues
  <2> QED
    BY <1>5, <2>1, ZenonT(60) DEF StorePlaced
<1>7. StoreDone(core, b, n, slot)
  <2>1. "fetched" \in DOMAIN core.SQ[slot]
    BY <1>4
  <2> HIDE DEF slot, n
  <2> QED
    BY <1>3, <2>1, StoreDoneFields, ZenonT(60)
<1> HIDE DEF slot, n, a, visits, S, b, z
<1>8. StoreExecutes(P, core, b, lo, hi, n, k, slot)
  BY <1>1, <1>2, <1>3, <1>4, <1>5, <1>7 DEF StoreExecutes
<1>9. Shape(b) /\ b.LQ = core.LQ
  BY <1>7, Zenon DEF StoreDone
<1>10. ASSUME NEW v \in visits
       PROVE  v.slot \in LoadSlots /\ core.LQ[v.slot] # NoEntry /\ core.LQ[v.slot].producer = n
  <2>1. core.LQ[v.slot] # NoEntry /\ core.LQ[v.slot].producer = n
    BY <1>1, Zenon DEF Asserted
  <2>2. PICK i \in DOMAIN core.rob[n].memory_instrs_depend_on_me :
           \E j \in core.rob[core.rob[n].memory_instrs_depend_on_me[i]].source_added :
              v = [at |-> i, slot |-> core.rob[core.rob[n].memory_instrs_depend_on_me[i]].lq_index[j]]
    BY ZenonT(60) DEF Visits, visits
  <2> DEFINE m == core.rob[n].memory_instrs_depend_on_me[i]
  <2>3. PICK j \in core.rob[core.rob[n].memory_instrs_depend_on_me[i]].source_added :
           v = [at |-> i, slot |-> core.rob[core.rob[n].memory_instrs_depend_on_me[i]].lq_index[j]]
    BY <2>2, Zenon
  <2>4. v.slot = core.rob[m].lq_index[j] /\ j \in core.rob[m].source_added
    <3> DEFINE x == core.rob[m].lq_index[j]
    <3>1. v = [at |-> i, slot |-> x]
      BY <2>3, Zenon
    <3> HIDE DEF x
    <3>2. v.slot = x
      BY <3>1, SMTT(60)
    <3> QED
      BY <2>3, <3>2, Zenon DEF x
  <2>5. m \in lo + 1 .. hi
    <3>1. core.rob[n].memory_instrs_depend_on_me \in Seq(n + 1 .. hi)
      BY <1>2, <1>4 DEF Queues, InstrTyped
    <3>2. m \in n + 1 .. hi
      <4> DEFINE q == core.rob[n].memory_instrs_depend_on_me
                 T == n + 1 .. hi
      <4>1. q \in Seq(T) /\ i \in DOMAIN q /\ m = q[i]
        BY <2>2, <3>1
      <4> HIDE DEF q, m, T
      <4>2. q[i] \in T
        BY <4>1
      <4> QED
        BY <4>1, <4>2, SMTT(60) DEF T
    <3> HIDE DEF m
    <3> QED
      BY <1>4, <3>2 DEF Order
  <2>6. InstrTyped(P, core, m, hi)
    BY <1>2, <2>5 DEF Queues
  <2> QED
    BY <2>1, <2>4, <2>6, Zenon DEF InstrTyped
<1>11. S \in SUBSET LoadSlots /\ \A s \in S : core.LQ[s] # NoEntry /\ core.LQ[s].producer = n
  BY <1>10 DEF S
<1>12. ASSUME NEW s \in LoadSlots, core.LQ[s] # NoEntry, core.LQ[s].producer = n, core.LQ[s].address = a
       PROVE  s \in S
  <2> DEFINE m == core.LQ[s].instr
             q == core.rob[n].memory_instrs_depend_on_me
  <2>1. n # 0
    BY <1>4, InBounds
  <2>2. m \in Range(q)
    BY <1>2, <1>12, <2>1 DEF Pending
  <2>3. PICK i \in DOMAIN q : q[i] = m
    BY <2>2 DEF Range
  <2>4. LoadEntry(P, core, lo, hi, s)
    BY <1>2, Zenon DEF Queues
  <2>5. PICK j \in core.rob[m].source_added : P[m].load[j] = a /\ core.rob[m].lq_index[j] = s
    BY <1>12, <2>4, ZenonT(60) DEF LoadEntry
  <2>6. [at |-> i, slot |-> s] \in visits
    BY <2>3, <2>5 DEF Visits, visits
  <2> QED
    BY <2>6 DEF S
<1> DEFINE val == [x \in Address |-> n]
<1>13. LoadsOver(b, z, S, val)
  <2>1. z = Loaded(b, S, val)
    BY <1>1 DEF Forwarded
  <2> HIDE DEF val
  <2> QED
    BY <1>9, <1>11, <2>1, LoadedFields
<1>14. \A s \in LoadSlots :
          core.LQ[s] # NoEntry /\ core.LQ[s].producer = n /\ core.LQ[s].address = P[n].store[k] => s \in S
  BY <1>6, <1>12
<1>15. StoreForwards(core, b, z, n, k, slot, S)
  BY <1>8, <1>11, <1>13, <1>14 DEF StoreForwards, val
<1> QED
  BY <1>15, SMTT(60) DEF slot, z

LEMMA ExecuteStoreHeld ==
    ASSUME LsqStanding, ExecuteStore
    PROVE  QueuesHeld(program, core', dtlb, l1d, retired, dispatched)
<1> USE DEF LsqStanding
<1> DEFINE P == program
           lo == retired
           hi == dispatched
           slot == Head(core.RTS1)
           z == core'
<1>1. PICK b, n, k, S : StoreForwards(core, b, z, n, k, slot, S)
  BY ExecuteStoreForwards
<1> DEFINE val == [x \in Address |-> n]
<1>2. /\ Queues(P, core, lo, hi) /\ (\A s \in LoadSlots : Pending(P, core, s)) /\ Held(core, dtlb, l1d)
      /\ QueuesTyped(core)
  BY Zenon DEF LsqInv, QueuesHeld, Queues
<1> HIDE DEF slot, z, val
<1>3. /\ StoreExecutes(P, core, b, lo, hi, n, k, slot) /\ LoadsOver(b, z, S, val)
      /\ S \in SUBSET LoadSlots
      /\ \A s \in S : core.LQ[s] # NoEntry /\ core.LQ[s].producer = n
      /\ \A s \in LoadSlots :
            core.LQ[s] # NoEntry /\ core.LQ[s].producer = n /\ core.LQ[s].address = P[n].store[k] => s \in S
  BY <1>1, Zenon DEF StoreForwards, val
<1>4. core.RTS1 # <<>> /\ n \in lo + 1 .. hi /\ StoreDone(core, b, n, slot)
  BY <1>3 DEF StoreExecutes
<1>5. slot \in StoreSlots /\ core.SQ[slot] # NoEntry /\ StoresAt(core, dtlb, slot) = 1
  BY <1>4, HeadOfStores, Zenon DEF LsqInv, slot
<1>6. core.SQ[slot] = [instr |-> core.SQ[slot].instr, address |-> core.SQ[slot].address, fetched |-> core.SQ[slot].fetched]
  <2>1. StoreEntry(core, lo, hi, slot)
    BY <1>2, <1>5, Zenon DEF Queues
  <2> QED
    BY <1>5, <2>1, Zenon DEF StoreEntry
<1>7. ButForwarded(P, core, b, lo, hi, n, k)
  BY <1>3, StoreDoneKeeps
<1>8. /\ Queues(P, z, lo, hi)
       /\ \A s \in LoadSlots : s \in S \/ Pending(P, b, s) => Pending(P, z, s)
  <2>1. Queues(P, b, lo, hi)
    BY <1>7 DEF ButForwarded
  <2>2. \A s \in S : b.LQ[s] # NoEntry
    BY <1>3, <1>4 DEF StoreDone
  <2> QED
    BY <1>3, <2>1, <2>2, LoadedKeeps
<1>9. \A s \in LoadSlots : Pending(P, z, s)
  <2>1. \A s \in LoadSlots : Pending(P, b, s) \/ s \in S
    BY <1>2, <1>3, <1>7 DEF ButForwarded
  <2> QED
    BY <1>8, <2>1
<1>10. /\ z.SQ = b.SQ /\ z.RTL0 = core.RTL0 /\ z.RTL1 = core.RTL1 /\ z.RTS0 = core.RTS0 /\ z.RTS1 = Tail(core.RTS1)
       /\ \A s \in S : z.LQ[s] = NoEntry
       /\ \A s \in LoadSlots \ S : z.LQ[s] = core.LQ[s]
  BY <1>3, <1>4 DEF LoadsOver, StoreDone, CoreFields
<1>11. ASSUME NEW s \in LoadSlots PROVE LoadHeld(z, dtlb, l1d, s)
  <2>1. LoadHeld(core, dtlb, l1d, s) /\ LoadsAt(z, dtlb, l1d, s) = LoadsAt(core, dtlb, l1d, s)
    BY <1>2, <1>10 DEF Held, LoadsAt
  <2>2. CASE s \in S
    <3>1. n # 0
      BY <1>4, InBounds
    <3> QED
      BY <1>3, <1>10, <2>1, <2>2, <3>1 DEF LoadHeld, OneIf
  <2>3. CASE s \notin S
    BY <1>10, <2>1, <2>3 DEF LoadHeld
  <2> QED
    BY <2>2, <2>3
<1>12. ASSUME NEW s \in StoreSlots PROVE StoreHeld(z, dtlb, s)
  <2>1. StoreHeld(core, dtlb, s)
    BY <1>2 DEF Held
  <2>2. Times(s, core.RTS1) = Times(s, Tail(core.RTS1)) + OneIf(slot = s)
    BY <1>2, <1>4, TimesTail DEF QueuesTyped, slot
  <2>3. /\ Times(s, core.RTS0) \in Nat /\ Times(s, Tail(core.RTS1)) \in Nat
        /\ OneIf([queue |-> "SQ", slot |-> s] \in dtlb) \in Nat
    <3>1. Tail(core.RTS1) \in Seq(StoreSlots)
      BY <1>2, <1>4, TimesTail DEF QueuesTyped
    <3>2. Times(s, Tail(core.RTS1)) \in Nat
      BY <3>1, TimesNatural
    <3> QED
      BY <1>2, <3>2, TimesTyped DEF OneIf
  <2>4. OneIf(slot = s) \in Nat
    BY DEF OneIf
  <2>5. StoresAt(core, dtlb, s) = StoresAt(z, dtlb, s) + OneIf(slot = s) /\ StoresAt(z, dtlb, s) \in Nat
    BY <1>10, <2>2, <2>3, <2>4 DEF StoresAt
  <2>6. CASE s = slot
    <3>1. StoresAt(z, dtlb, s) = 0
      BY <1>5, <2>5, <2>6 DEF OneIf
    <3>2. z.SQ[s].fetched
      BY <1>4, <1>6, <1>10, <2>6 DEF StoreDone
    <3> QED
      BY <3>1, <3>2 DEF StoreHeld, OneIf
  <2>7. CASE s # slot
    <3>1. StoresAt(core, dtlb, s) = StoresAt(z, dtlb, s)
      BY <2>5, <2>7 DEF OneIf
    <3>2. z.SQ[s] = core.SQ[s]
      BY <1>4, <1>10, <2>7 DEF StoreDone
    <3> QED
      BY <2>1, <3>1, <3>2 DEF StoreHeld
  <2> QED
    BY <2>6, <2>7
<1> QED
  BY <1>8, <1>9, <1>11, <1>12, ZenonT(60) DEF QueuesHeld, Held, z

\* Between c and z entries have moved from queue to queue.
Moved(c, z) ==
    /\ z.LQ = c.LQ /\ z.SQ = c.SQ /\ z.rob = c.rob /\ QueuesTyped(z)

LEMMA MovedKeeps ==
    ASSUME NEW P, NEW c, NEW z, NEW d, NEW l, NEW e, NEW m, NEW lo, NEW hi, Bounds(P, lo, hi),
           QueuesHeld(P, c, d, l, lo, hi), Moved(c, z),
           \A s \in LoadSlots : LoadsAt(z, e, m, s) = LoadsAt(c, d, l, s),
           \A s \in StoreSlots : StoresAt(z, e, s) = StoresAt(c, d, s)
    PROVE  QueuesHeld(P, z, e, m, lo, hi)
<1>1. Queues(P, c, lo, hi) /\ (\A s \in LoadSlots : Pending(P, c, s)) /\ Held(c, d, l)
  BY DEF QueuesHeld
<1>2. QueuesSame(c, z, lo, hi)
  <2>1. \A n \in lo + 1 .. hi : c.rob[n].memory_instrs_depend_on_me \in Seq(n + 1 .. hi)
    BY <1>1 DEF Queues, InstrTyped
  <2> QED
    BY <2>1 DEF QueuesSame, Moved
<1>3. Queues(P, z, lo, hi) /\ \A s \in LoadSlots : Pending(P, z, s)
  <2>1. QueuesTyped(z)
    BY DEF Moved
  <2> QED
    BY <1>1, <1>2, <2>1, SameQueuesKeep
<1>4. Held(z, e, m)
  BY <1>1 DEF Held, LoadHeld, StoreHeld, Moved
<1> QED
  BY <1>3, <1>4 DEF QueuesHeld

LEMMA TranslateStoreHeld ==
    ASSUME LsqStanding, TranslateStore
    PROVE  QueuesHeld(program, core', dtlb', l1d, retired, dispatched) /\ dtlb' \subseteq DtlbEntry
<1> USE DEF LsqStanding
<1> DEFINE q == core.RTS0
           slot == Head(q)
           z == core'
<1>1. q # <<>> /\ z = [core EXCEPT !.RTS0 = Tail(@)] /\ dtlb' = dtlb \cup {[queue |-> "SQ", slot |-> slot]}
  BY DEF TranslateStore
<1>2. QueuesTyped(core)
  BY DEF LsqInv, QueuesHeld, Queues
<1>3. slot \in StoreSlots /\ StoresAt(core, dtlb, slot) = 1
  BY <1>1, HeadOfStores DEF LsqInv
<1>4. /\ Tail(q) \in Seq(StoreSlots)
      /\ \A s : Times(s, q) = Times(s, Tail(q)) + OneIf(slot = s)
  BY <1>1, <1>2, TimesTail DEF QueuesTyped
<1>5. /\ z.LQ = core.LQ /\ z.SQ = core.SQ /\ z.rob = core.rob
      /\ z.RTL0 = core.RTL0 /\ z.RTL1 = core.RTL1 /\ z.RTS0 = Tail(q) /\ z.RTS1 = core.RTS1
  BY <1>1 DEF Shape, CoreFields
<1>6. Moved(core, z)
  BY <1>2, <1>4, <1>5 DEF Moved, QueuesTyped
<1>7. \A s : Times(s, Tail(q)) \in Nat /\ Times(s, core.RTS1) \in Nat
  BY <1>2, <1>4, TimesNatural, TimesTyped
<1> HIDE DEF slot, z, q
<1>8. [queue |-> "SQ", slot |-> slot] \notin dtlb
  <2>1. Times(slot, q) = Times(slot, Tail(q)) + OneIf(slot = slot)
    BY <1>4
  <2> QED
    BY <1>3, <1>7, <2>1 DEF StoresAt, OneIf, q
<1>9. ASSUME NEW s \in StoreSlots PROVE StoresAt(z, dtlb', s) = StoresAt(core, dtlb, s)
  <2>1. Times(s, q) = Times(s, Tail(q)) + OneIf(slot = s) /\ Times(s, Tail(q)) \in Nat /\ Times(s, core.RTS1) \in Nat
    BY <1>4, <1>7
  <2>2. OneIf([queue |-> "SQ", slot |-> s] \in dtlb') = OneIf([queue |-> "SQ", slot |-> s] \in dtlb) + OneIf(slot = s)
    <3>1. CASE s = slot
      BY <1>1, <1>8, <3>1 DEF OneIf
    <3>2. CASE s # slot
      <4>1. [queue |-> "SQ", slot |-> s] # [queue |-> "SQ", slot |-> slot]
        BY <3>2
      <4> QED
        BY <1>1, <3>2, <4>1 DEF OneIf
    <3> QED
      BY <3>1, <3>2
  <2>3. OneIf(slot = s) \in Nat /\ OneIf([queue |-> "SQ", slot |-> s] \in dtlb) \in Nat
    BY DEF OneIf
  <2> QED
    BY <1>5, <2>1, <2>2, <2>3 DEF StoresAt, q
<1>10. ASSUME NEW s \in LoadSlots PROVE LoadsAt(z, dtlb', l1d, s) = LoadsAt(core, dtlb, l1d, s)
  <2>1. [queue |-> "LQ", slot |-> s] \in dtlb' <=> [queue |-> "LQ", slot |-> s] \in dtlb
    BY <1>1
  <2> QED
    BY <1>5, <2>1 DEF LoadsAt, OneIf
<1>11. dtlb' \subseteq DtlbEntry
  BY <1>1, <1>3 DEF LsqInv, DtlbEntry
<1> QED
  BY <1>6, <1>9, <1>10, <1>11, MovedKeeps DEF LsqInv, z

LEMMA TranslateLoadHeld ==
    ASSUME LsqStanding, TranslateLoad
    PROVE  QueuesHeld(program, core', dtlb', l1d, retired, dispatched) /\ dtlb' \subseteq DtlbEntry
<1> USE DEF LsqStanding
<1> DEFINE q == core.RTL0
           slot == Head(q)
           z == core'
<1>1. q # <<>> /\ z = [core EXCEPT !.RTL0 = Tail(@)] /\ dtlb' = dtlb \cup {[queue |-> "LQ", slot |-> slot]}
  BY DEF TranslateLoad
<1>2. QueuesTyped(core)
  BY DEF LsqInv, QueuesHeld, Queues
<1>3. slot \in LoadSlots /\ LoadsAt(core, dtlb, l1d, slot) = 1
  BY <1>1, HeadOfLoads DEF LsqInv
<1>4. /\ Tail(q) \in Seq(LoadSlots)
      /\ \A s : Times(s, q) = Times(s, Tail(q)) + OneIf(slot = s)
  BY <1>1, <1>2, TimesTail DEF QueuesTyped
<1>5. /\ z.LQ = core.LQ /\ z.SQ = core.SQ /\ z.rob = core.rob
      /\ z.RTL0 = Tail(q) /\ z.RTL1 = core.RTL1 /\ z.RTS0 = core.RTS0 /\ z.RTS1 = core.RTS1
  BY <1>1 DEF Shape, CoreFields
<1>6. Moved(core, z)
  BY <1>2, <1>4, <1>5 DEF Moved, QueuesTyped
<1>7. \A s : Times(s, Tail(q)) \in Nat /\ Times(s, core.RTL1) \in Nat /\ OneIf(s \in l1d) \in Nat
  BY <1>2, <1>4, TimesNatural, TimesTyped DEF OneIf
<1> HIDE DEF slot, z, q
<1>8. [queue |-> "LQ", slot |-> slot] \notin dtlb
  <2>1. Times(slot, q) = Times(slot, Tail(q)) + OneIf(slot = slot)
    BY <1>4
  <2>2. OneIf(slot \in l1d) \in Nat
    BY <1>7
  <2> QED
    BY <1>3, <1>7, <2>1, <2>2 DEF LoadsAt, OneIf, q
<1>9. ASSUME NEW s \in LoadSlots PROVE LoadsAt(z, dtlb', l1d, s) = LoadsAt(core, dtlb, l1d, s)
  <2>1. /\ Times(s, q) = Times(s, Tail(q)) + OneIf(slot = s) /\ Times(s, Tail(q)) \in Nat
        /\ Times(s, core.RTL1) \in Nat /\ OneIf(s \in l1d) \in Nat
    BY <1>4, <1>7
  <2>2. OneIf([queue |-> "LQ", slot |-> s] \in dtlb') = OneIf([queue |-> "LQ", slot |-> s] \in dtlb) + OneIf(slot = s)
    <3>1. CASE s = slot
      BY <1>1, <1>8, <3>1 DEF OneIf
    <3>2. CASE s # slot
      <4>1. [queue |-> "LQ", slot |-> s] # [queue |-> "LQ", slot |-> slot]
        BY <3>2
      <4> QED
        BY <1>1, <3>2, <4>1 DEF OneIf
    <3> QED
      BY <3>1, <3>2
  <2>3. OneIf(slot = s) \in Nat /\ OneIf([queue |-> "LQ", slot |-> s] \in dtlb) \in Nat
    BY DEF OneIf
  <2> QED
    BY <1>5, <2>1, <2>2, <2>3 DEF LoadsAt, q
<1>10. ASSUME NEW s \in StoreSlots PROVE StoresAt(z, dtlb', s) = StoresAt(core, dtlb, s)
  <2>1. [queue |-> "SQ", slot |-> s] \in dtlb' <=> [queue |-> "SQ", slot |-> s] \in dtlb
    BY <1>1
  <2> QED
    BY <1>5, <2>1 DEF StoresAt, OneIf
<1>11. dtlb' \subseteq DtlbEntry
  BY <1>1, <1>3 DEF LsqInv, DtlbEntry
<1> QED
  BY <1>6, <1>9, <1>10, <1>11, MovedKeeps DEF LsqInv, z

LEMMA DataTranslatedHeld ==
    ASSUME LsqStanding, DataTranslated
    PROVE  QueuesHeld(program, core', dtlb', l1d, retired, dispatched) /\ dtlb' \subseteq DtlbEntry
<1> USE DEF LsqStanding
<1> DEFINE z == core'
<1>1. PICK e \in dtlb : /\ dtlb' = dtlb \ {e}
                        /\ z = IF e.queue = "SQ" THEN [core EXCEPT !.RTS1 = Append(@, e.slot)]
                               ELSE [core EXCEPT !.RTL1 = Append(@, e.slot)]
  BY DEF DataTranslated
<1>2. QueuesTyped(core) /\ dtlb \subseteq DtlbEntry
  BY DEF LsqInv, QueuesHeld, Queues
<1> DEFINE slot == e.slot
<1>3. \/ e = [queue |-> "SQ", slot |-> slot] /\ slot \in StoreSlots
      \/ e = [queue |-> "LQ", slot |-> slot] /\ slot \in LoadSlots
  BY <1>2 DEF DtlbEntry
<1>4. ASSUME e = [queue |-> "SQ", slot |-> slot], slot \in StoreSlots
      PROVE  QueuesHeld(program, z, dtlb', l1d, retired, dispatched)
  <2>1. z = [core EXCEPT !.RTS1 = Append(@, slot)]
    BY <1>1, <1>4
  <2>2. /\ z.LQ = core.LQ /\ z.SQ = core.SQ /\ z.rob = core.rob
        /\ z.RTL0 = core.RTL0 /\ z.RTL1 = core.RTL1 /\ z.RTS0 = core.RTS0 /\ z.RTS1 = Append(core.RTS1, slot)
    BY <2>1 DEF Shape, CoreFields
  <2> HIDE DEF z, slot
  <2>3. Moved(core, z)
    BY <1>2, <1>4, <2>2 DEF Moved, QueuesTyped
  <2>4. ASSUME NEW s \in StoreSlots PROVE StoresAt(z, dtlb', s) = StoresAt(core, dtlb, s)
    <3>1. Times(s, z.RTS1) = Times(s, core.RTS1) + OneIf(slot = s)
      BY <1>2, <1>4, <2>2, TimesAppend DEF QueuesTyped
    <3>2. OneIf([queue |-> "SQ", slot |-> s] \in dtlb) = OneIf([queue |-> "SQ", slot |-> s] \in dtlb') + OneIf(slot = s)
      <4>1. CASE s = slot
        BY <1>1, <1>4, <4>1 DEF OneIf
      <4>2. CASE s # slot
        <5>1. [queue |-> "SQ", slot |-> s] # [queue |-> "SQ", slot |-> slot]
          BY <4>2
        <5> QED
          BY <1>1, <1>4, <4>2, <5>1 DEF OneIf
      <4> QED
        BY <4>1, <4>2
    <3>3. /\ OneIf(slot = s) \in Nat /\ OneIf([queue |-> "SQ", slot |-> s] \in dtlb') \in Nat
          /\ Times(s, core.RTS0) \in Nat /\ Times(s, core.RTS1) \in Nat
      BY <1>2, TimesTyped DEF OneIf
    <3> QED
      BY <2>2, <3>1, <3>2, <3>3 DEF StoresAt
  <2>5. ASSUME NEW s \in LoadSlots PROVE LoadsAt(z, dtlb', l1d, s) = LoadsAt(core, dtlb, l1d, s)
    <3>1. [queue |-> "LQ", slot |-> s] \in dtlb' <=> [queue |-> "LQ", slot |-> s] \in dtlb
      BY <1>1, <1>4
    <3> QED
      BY <2>2, <3>1 DEF LoadsAt, OneIf
  <2> QED
    BY <2>3, <2>4, <2>5, MovedKeeps DEF LsqInv
<1>5. ASSUME e = [queue |-> "LQ", slot |-> slot], slot \in LoadSlots
      PROVE  QueuesHeld(program, z, dtlb', l1d, retired, dispatched)
  <2>1. z = [core EXCEPT !.RTL1 = Append(@, slot)]
    <3>1. e.queue # "SQ"
      BY <1>5
    <3> QED
      BY <1>1, <3>1
  <2>2. /\ z.LQ = core.LQ /\ z.SQ = core.SQ /\ z.rob = core.rob
        /\ z.RTL0 = core.RTL0 /\ z.RTL1 = Append(core.RTL1, slot) /\ z.RTS0 = core.RTS0 /\ z.RTS1 = core.RTS1
    BY <2>1 DEF Shape, CoreFields
  <2> HIDE DEF z, slot
  <2>3. Moved(core, z)
    BY <1>2, <1>5, <2>2 DEF Moved, QueuesTyped
  <2>4. ASSUME NEW s \in LoadSlots PROVE LoadsAt(z, dtlb', l1d, s) = LoadsAt(core, dtlb, l1d, s)
    <3>1. Times(s, z.RTL1) = Times(s, core.RTL1) + OneIf(slot = s)
      BY <1>2, <1>5, <2>2, TimesAppend DEF QueuesTyped
    <3>2. OneIf([queue |-> "LQ", slot |-> s] \in dtlb) = OneIf([queue |-> "LQ", slot |-> s] \in dtlb') + OneIf(slot = s)
      <4>1. CASE s = slot
        BY <1>1, <1>5, <4>1 DEF OneIf
      <4>2. CASE s # slot
        <5>1. [queue |-> "LQ", slot |-> s] # [queue |-> "LQ", slot |-> slot]
          BY <4>2
        <5> QED
          BY <1>1, <1>5, <4>2, <5>1 DEF OneIf
      <4> QED
        BY <4>1, <4>2
    <3>3. /\ OneIf(slot = s) \in Nat /\ OneIf([queue |-> "LQ", slot |-> s] \in dtlb') \in Nat /\ OneIf(s \in l1d) \in Nat
          /\ Times(s, core.RTL0) \in Nat /\ Times(s, core.RTL1) \in Nat
      BY <1>2, TimesTyped DEF OneIf
    <3> QED
      BY <2>2, <3>1, <3>2, <3>3 DEF LoadsAt
  <2>5. ASSUME NEW s \in StoreSlots PROVE StoresAt(z, dtlb', s) = StoresAt(core, dtlb, s)
    <3>1. [queue |-> "SQ", slot |-> s] \in dtlb' <=> [queue |-> "SQ", slot |-> s] \in dtlb
      BY <1>1, <1>5
    <3> QED
      BY <2>2, <3>1 DEF StoresAt, OneIf
  <2> QED
    BY <2>3, <2>4, <2>5, MovedKeeps DEF LsqInv
<1>6. dtlb' \subseteq DtlbEntry
  BY <1>1, <1>2
<1> HIDE DEF slot
<1> QED
  BY <1>3, <1>4, <1>5, <1>6

LEMMA ExecuteLoadHeld ==
    ASSUME LsqStanding, ExecuteLoad
    PROVE  QueuesHeld(program, core', dtlb, l1d', retired, dispatched) /\ l1d' \subseteq LoadSlots
<1> USE DEF LsqStanding
<1> DEFINE q == core.RTL1
           slot == Head(q)
           z == core'
<1>1. q # <<>> /\ z = [core EXCEPT !.RTL1 = Tail(@)] /\ l1d' = l1d \cup {slot}
  BY DEF ExecuteLoad
<1>2. QueuesTyped(core)
  BY DEF LsqInv, QueuesHeld, Queues
<1>3. slot \in LoadSlots /\ LoadsAt(core, dtlb, l1d, slot) = 1
  BY <1>1, HeadOfLoads DEF LsqInv
<1>4. /\ Tail(q) \in Seq(LoadSlots)
      /\ \A s : Times(s, q) = Times(s, Tail(q)) + OneIf(slot = s)
  BY <1>1, <1>2, TimesTail DEF QueuesTyped
<1>5. /\ z.LQ = core.LQ /\ z.SQ = core.SQ /\ z.rob = core.rob
      /\ z.RTL0 = core.RTL0 /\ z.RTL1 = Tail(q) /\ z.RTS0 = core.RTS0 /\ z.RTS1 = core.RTS1
  BY <1>1 DEF Shape, CoreFields
<1>6. Moved(core, z)
  BY <1>2, <1>4, <1>5 DEF Moved, QueuesTyped
<1>7. \A s : /\ Times(s, Tail(q)) \in Nat /\ Times(s, core.RTL0) \in Nat
             /\ OneIf(s \in l1d) \in Nat /\ OneIf([queue |-> "LQ", slot |-> s] \in dtlb) \in Nat
  BY <1>2, <1>4, TimesNatural, TimesTyped DEF OneIf
<1> HIDE DEF slot, z, q
<1>8. slot \notin l1d
  <2>1. Times(slot, q) = Times(slot, Tail(q)) + OneIf(slot = slot)
    BY <1>4
  <2>2. OneIf([queue |-> "LQ", slot |-> slot] \in dtlb) \in Nat
    BY <1>7
  <2> QED
    BY <1>3, <1>7, <2>1, <2>2 DEF LoadsAt, OneIf, q
<1>9. ASSUME NEW s \in LoadSlots PROVE LoadsAt(z, dtlb, l1d', s) = LoadsAt(core, dtlb, l1d, s)
  <2>1. /\ Times(s, q) = Times(s, Tail(q)) + OneIf(slot = s) /\ Times(s, Tail(q)) \in Nat
        /\ Times(s, core.RTL0) \in Nat /\ OneIf([queue |-> "LQ", slot |-> s] \in dtlb) \in Nat
    BY <1>4, <1>7
  <2>2. OneIf(s \in l1d') = OneIf(s \in l1d) + OneIf(slot = s)
    BY <1>1, <1>8 DEF OneIf
  <2>3. OneIf(slot = s) \in Nat /\ OneIf(s \in l1d) \in Nat
    BY DEF OneIf
  <2> QED
    BY <1>5, <2>1, <2>2, <2>3 DEF LoadsAt, q
<1>10. \A s \in StoreSlots : StoresAt(z, dtlb, s) = StoresAt(core, dtlb, s)
  BY <1>5 DEF StoresAt
<1>11. l1d' \subseteq LoadSlots
  BY <1>1, <1>3 DEF LsqInv
<1> QED
  BY <1>6, <1>9, <1>10, <1>11, MovedKeeps DEF LsqInv, z

\* An answer of the L1D is for an entry that waits for no store.
LEMMA AwaitedLoad ==
    ASSUME LsqStanding, NEW slot \in l1d
    PROVE  slot \in LoadSlots /\ core.LQ[slot] # NoEntry /\ core.LQ[slot].producer = 0
           /\ LoadsAt(core, dtlb, l1d, slot) = 1
<1>1. QueuesTyped(core) /\ Held(core, dtlb, l1d) /\ slot \in LoadSlots
  BY DEF LsqStanding, LsqInv, QueuesHeld, Queues
<1>2. /\ Times(slot, core.RTL0) \in Nat /\ Times(slot, core.RTL1) \in Nat
      /\ OneIf(slot \in l1d) = 1 /\ OneIf([queue |-> "LQ", slot |-> slot] \in dtlb) \in Nat
      /\ LoadHeld(core, dtlb, l1d, slot)
  BY <1>1, TimesTyped DEF Held, OneIf
<1>3. LoadsAt(core, dtlb, l1d, slot) >= 1
  BY <1>2 DEF LoadsAt
<1> QED
  BY <1>1, <1>2, <1>3 DEF LoadHeld, OneIf

LEMMA DataReturnedHeld ==
    ASSUME LsqStanding, DataReturned
    PROVE  QueuesHeld(program, core', dtlb, l1d', retired, dispatched) /\ l1d' \subseteq LoadSlots
<1> USE DEF LsqStanding
<1>1. PICK slot \in l1d : l1d' = l1d \ {slot} /\ core' = Loaded(core, {slot}, memory)
  BY DEF DataReturned
<1> DEFINE z == core'
           S == {slot}
<1>2. /\ Queues(program, core, retired, dispatched) /\ (\A s \in LoadSlots : Pending(program, core, s))
      /\ Held(core, dtlb, l1d) /\ QueuesTyped(core) /\ l1d \subseteq LoadSlots
  BY DEF LsqInv, QueuesHeld, Queues
<1>3. LoadsOver(core, z, S, memory)
  BY <1>1, <1>2, LoadedFields
<1> HIDE DEF z
<1>4. ASSUME NEW s \in LoadSlots
      PROVE  /\ Times(s, core.RTL0) \in Nat /\ Times(s, core.RTL1) \in Nat
             /\ OneIf(s \in l1d) \in Nat /\ OneIf([queue |-> "LQ", slot |-> s] \in dtlb) \in Nat
             /\ LoadHeld(core, dtlb, l1d, s)
  BY <1>2, TimesTyped DEF Held, OneIf
<1>5. core.LQ[slot] # NoEntry /\ LoadsAt(core, dtlb, l1d, slot) = 1
  BY AwaitedLoad, Zenon
<1>6. /\ Queues(program, z, retired, dispatched)
      /\ \A s \in LoadSlots : Pending(program, z, s)
  <2>1. S \in SUBSET LoadSlots /\ \A s \in S : core.LQ[s] # NoEntry
    BY <1>2, <1>5
  <2> HIDE DEF S
  <2>2. /\ Queues(program, z, retired, dispatched)
        /\ \A s \in LoadSlots : s \in S \/ Pending(program, core, s) => Pending(program, z, s)
    BY <1>2, <1>3, <2>1, LoadedKeeps
  <2> QED
    BY <1>2, <2>2
<1>7. /\ z.SQ = core.SQ /\ z.RTL0 = core.RTL0 /\ z.RTL1 = core.RTL1 /\ z.RTS0 = core.RTS0 /\ z.RTS1 = core.RTS1
      /\ z.LQ[slot] = NoEntry /\ \A s \in LoadSlots : s # slot => z.LQ[s] = core.LQ[s]
  BY <1>2, <1>3 DEF LoadsOver, CoreFields
<1>8. ASSUME NEW s \in LoadSlots PROVE LoadHeld(z, dtlb, l1d', s)
  <2>1. CASE s = slot
    <3>1. OneIf(slot \in l1d) = 1 /\ OneIf(slot \in l1d') = 0
      BY <1>1 DEF OneIf
    <3>2. LoadsAt(z, dtlb, l1d', slot) = 0
      BY <1>2, <1>4, <1>5, <1>7, <3>1 DEF LoadsAt
    <3> QED
      BY <1>7, <2>1, <3>2 DEF LoadHeld, OneIf
  <2>2. CASE s # slot
    <3>1. s \in l1d' <=> s \in l1d
      BY <1>1, <2>2
    <3>2. LoadsAt(z, dtlb, l1d', s) = LoadsAt(core, dtlb, l1d, s)
      BY <1>7, <3>1 DEF LoadsAt, OneIf
    <3> QED
      BY <1>4, <1>7, <2>2, <3>2 DEF LoadHeld
  <2> QED
    BY <2>1, <2>2
<1>9. \A s \in StoreSlots : StoreHeld(z, dtlb, s)
  BY <1>2, <1>7 DEF Held, StoreHeld, StoresAt
<1>10. l1d' \subseteq LoadSlots
  BY <1>1, <1>2
<1> QED
  BY <1>6, <1>8, <1>9, <1>10 DEF QueuesHeld, Held, z

\* The stages that work on the ROB touch none of the queues.
RobOnly(c, z) ==
    /\ \A f \in {"LQ", "SQ", "RTL0", "RTL1", "RTS0", "RTS1", "data"} : z[f] = c[f]
    /\ \A m \in ROB :
          /\ \A f \in {"source_added", "destination_added", "destination_memory", "lq_index", "sq_index",
                       "num_mem_ops", "memory_instrs_depend_on_me"} : z.rob[m][f] = c.rob[m][f]
          /\ c.rob[m].executed = COMPLETED => z.rob[m].executed = COMPLETED
          /\ z.rob[m].executed = COMPLETED => c.rob[m].executed = COMPLETED \/ c.rob[m].num_mem_ops = 0

\* Nor does any instruction begin or complete.
CountsSame(c, z) ==
    /\ z.inflight_reg = c.inflight_reg /\ z.inflight_mem = c.inflight_mem
    /\ \A m \in ROB : z.rob[m].executed = c.rob[m].executed

\* An instruction without memory operations begins.
Issued(c, z, h) ==
    /\ h \in ROB /\ ~IsMemory(h) /\ c.rob[h].executed = None /\ z.rob[h].executed = INFLIGHT
    /\ \A m \in ROB : m # h => z.rob[m].executed = c.rob[m].executed
    /\ z.inflight_reg = c.inflight_reg + 1 /\ z.inflight_mem = c.inflight_mem

\* x completes.
Finished(c, z, x) ==
    /\ c.rob[x].executed = INFLIGHT /\ z.rob[x].executed = COMPLETED
    /\ \A m \in ROB : m # x => z.rob[m].executed = c.rob[m].executed
    /\ z.inflight_reg = IF IsMemory(x) THEN c.inflight_reg ELSE c.inflight_reg - 1
    /\ z.inflight_mem = IF IsMemory(x) THEN c.inflight_mem - 1 ELSE c.inflight_mem

LEMMA RobOnlyHeld ==
    ASSUME LsqStanding, RobOnly(core, core')
    PROVE  QueuesHeld(program, core', dtlb, l1d, retired, dispatched)
<1>1. SameQueues(core, core', retired, dispatched)
  BY DEF RobOnly, SameQueues, LsqStanding
<1> QED
  BY <1>1, SameQueuesHeld DEF LsqStanding, LsqInv

LEMMA ExecuteRobOnly ==
    ASSUME LsqStanding, Registers, Execute
    PROVE  RobOnly(core, core') /\ \E h : Issued(core, core', h)
<1> DEFINE ready == core.ready_to_execute
           h == Head(ready)
           i == [core.rob[h] EXCEPT !.executed = INFLIGHT]
           R == [core.rob EXCEPT ![h] = i]
           t == Tail(ready)
           r == core.inflight_reg + 1
<1>1. h \in ROB /\ core.rob[h].executed = None /\ ~IsMemory(h)
  <2>1. /\ ready \in Seq(ROB) /\ ready # <<>>
        /\ \A n \in Range(ready) : core.rob[n].executed = None /\ ~IsMemory(n)
    BY DEF Registers, ReadyOnce, Execute
  <2> HIDE DEF ready
  <2>2. h = ready[1] /\ 1 \in DOMAIN ready /\ h \in ROB
    BY <2>1
  <2> QED
    BY <2>1, <2>2 DEF Range
<1>2. ROB \subseteq Ids /\ Shape(core)
  BY DEF LsqStanding
<1>3. core' = [[[core EXCEPT !.rob = R] EXCEPT !.ready_to_execute = t] EXCEPT !.inflight_reg = r]
  <2>1. /\ "rob" \in DOMAIN core /\ "ready_to_execute" \in DOMAIN core /\ "inflight_reg" \in DOMAIN core
        /\ h \in DOMAIN core.rob /\ "executed" \in DOMAIN core.rob[h]
    BY <1>1, <1>2 DEF Shape, CoreFields, InstrFields
  <2> QED
    BY <2>1 DEF Execute
<1>4. R[h] = i /\ \A m \in Ids : m # h => R[m] = core.rob[m]
  BY <1>1, <1>2 DEF Shape
<1>5. i.executed = INFLIGHT /\ \A f \in InstrFields \ {"executed"} : i[f] = core.rob[h][f]
  BY <1>1, <1>2 DEF Shape, InstrFields
<1> HIDE DEF i, R, t, ready, h
<1>6. /\ core'.rob = R
      /\ \A f \in CoreFields \ {"rob", "ready_to_execute", "inflight_reg"} : core'[f] = core[f]
      /\ core'.inflight_reg = r
  BY <1>2, <1>3 DEF Shape, CoreFields
<1>7. ASSUME NEW m \in ROB
      PROVE  /\ \A f \in InstrFields \ {"executed"} : core'.rob[m][f] = core.rob[m][f]
             /\ core'.rob[m].executed = COMPLETED <=> core.rob[m].executed = COMPLETED
  <2>1. CASE m = h
    BY <1>1, <1>4, <1>5, <1>6, <2>1 DEF None, INFLIGHT, COMPLETED
  <2>2. CASE m # h
    BY <1>2, <1>4, <1>6, <2>2
  <2> QED
    BY <2>1, <2>2
<1>8. Issued(core, core', h)
  <2>1. \A m \in ROB : m # h => core'.rob[m].executed = core.rob[m].executed
    BY <1>2, <1>4, <1>6
  <2> QED
    BY <1>1, <1>2, <1>4, <1>5, <1>6, <2>1 DEF Issued, CoreFields
<1> QED
  BY <1>6, <1>7, <1>8 DEF RobOnly, CoreFields, InstrFields

LEMMA ScheduleRobOnly ==
    ASSUME LsqStanding, Schedule
    PROVE  RobOnly(core, core') /\ CountsSame(core, core')
<1> DEFINE waiting == {n \in ROB : core.rob[n].scheduled = None}
           x == First(waiting)
           producers == RegisterProducers(x)
           s == IF IsMemory(x) THEN INFLIGHT ELSE COMPLETED
           R == [m \in Ids |->
                  CASE m \in producers -> [core.rob[m] EXCEPT !.registers_instrs_depend_on_me = @ \cup {x}]
                    [] m = x -> [core.rob[m] EXCEPT !.num_reg_dependent = Cardinality(producers), !.scheduled = s]
                    [] OTHER -> core.rob[m]]
           t == IF producers = {} /\ ~IsMemory(x) THEN Append(core.ready_to_execute, x) ELSE core.ready_to_execute
<1>1. ROB \subseteq Ids /\ Shape(core)
  BY DEF LsqStanding
<1>2. core' = [[core EXCEPT !.rob = R] EXCEPT !.ready_to_execute = t]
  <2>1. core' = [core EXCEPT !.rob = R,
                             !.ready_to_execute = IF producers = {} /\ ~IsMemory(x) THEN Append(@, x) ELSE @]
    BY DEF Schedule
  <2>2. "ready_to_execute" \in DOMAIN core /\ "rob" \in DOMAIN core
    BY <1>1 DEF Shape, CoreFields
  <2> HIDE DEF R, x, producers
  <2> QED
    BY <2>1, <2>2
<1>3. x \notin producers
  <2>1. ASSUME x \in producers PROVE FALSE
    <3>1. x \in ROB /\ x < x
      BY <2>1 DEF RegisterProducers
    <3>2. x \in Nat
      BY <1>1, <3>1, RobInTrace, SMTT(60) DEF LsqStanding
    <3> HIDE DEF x
    <3> QED
      BY <3>1, <3>2
  <2> QED
    BY <2>1
<1> HIDE DEF waiting, x, producers, s
<1>4. ASSUME NEW m \in ROB
      PROVE  \A f \in InstrFields \ {"registers_instrs_depend_on_me", "num_reg_dependent", "scheduled"} :
                R[m][f] = core.rob[m][f]
  <2>0. m \in Ids /\ DOMAIN core.rob[m] = InstrFields
    BY <1>1 DEF Shape
  <2>1. CASE m \in producers
    <3>1. m # x /\ R[m] = [core.rob[m] EXCEPT !.registers_instrs_depend_on_me = core.rob[m].registers_instrs_depend_on_me \cup {x}]
      BY <1>3, <2>0, <2>1 DEF InstrFields
    <3> HIDE DEF R
    <3> QED
      BY <2>0, <3>1 DEF InstrFields
  <2>2. CASE m = x
    <3>1. R[m] = [[core.rob[m] EXCEPT !.num_reg_dependent = Cardinality(producers)] EXCEPT !.scheduled = s]
      BY <1>3, <2>0, <2>2 DEF InstrFields
    <3> HIDE DEF R
    <3> QED
      BY <2>0, <3>1 DEF InstrFields
  <2>3. CASE m \notin producers /\ m # x
    <3>1. R[m] = core.rob[m]
      BY <2>0, <2>3
    <3> HIDE DEF R
    <3> QED
      BY <3>1
  <2> QED
    BY <2>1, <2>2, <2>3
<1> HIDE DEF R, t
<1>5. core'.rob = R /\ \A f \in CoreFields \ {"rob", "ready_to_execute"} : core'[f] = core[f]
  BY <1>1, <1>2 DEF Shape, CoreFields
<1> QED
  BY <1>4, <1>5 DEF RobOnly, CountsSame, CoreFields, InstrFields

LEMMA CompleteRobOnly ==
    ASSUME LsqStanding, NEW x \in ROB, Completes(x), core.rob[x].num_mem_ops = 0
    PROVE  RobOnly(core, core') /\ Finished(core, core', x)
<1> DEFINE D == core.rob[x].registers_instrs_depend_on_me
           u(m) == IF m \notin Freed(x) THEN core.rob[m].scheduled ELSE IF IsMemory(m) THEN INFLIGHT ELSE COMPLETED
           R == [m \in Ids |->
                    IF m = x THEN [core.rob[m] EXCEPT !.executed = COMPLETED]
                    ELSE IF m \in D
                    THEN [core.rob[m] EXCEPT !.num_reg_dependent = @ - 1,
                                !.scheduled = IF m \notin Freed(x) THEN @
                                              ELSE IF IsMemory(m) THEN INFLIGHT ELSE COMPLETED]
                    ELSE core.rob[m]]
           o == InOrder({m \in Freed(x) : ~IsMemory(m)})
           t == core.ready_to_execute \o o
           g == IF IsMemory(x) THEN core.inflight_reg ELSE core.inflight_reg - 1
           h == IF IsMemory(x) THEN core.inflight_mem - 1 ELSE core.inflight_mem
<1>1. ROB \subseteq Ids /\ Shape(core)
  BY DEF LsqStanding
<1>2. core' = [[[[core EXCEPT !.rob = R] EXCEPT !.ready_to_execute = t] EXCEPT !.inflight_reg = g] EXCEPT !.inflight_mem = h]
  <2>1. core' = [core EXCEPT !.rob = R, !.ready_to_execute = @ \o o,
                             !.inflight_reg = IF IsMemory(x) THEN @ ELSE @ - 1,
                             !.inflight_mem = IF IsMemory(x) THEN @ - 1 ELSE @]
    BY DEF Completes
  <2>2. /\ "rob" \in DOMAIN core /\ "ready_to_execute" \in DOMAIN core
        /\ "inflight_reg" \in DOMAIN core /\ "inflight_mem" \in DOMAIN core
    BY <1>1, ZenonT(60) DEF Shape, CoreFields
  <2> HIDE DEF R, o
  <2> QED
    BY <2>1, <2>2
<1> HIDE DEF t, g, h
<1>3. ASSUME NEW m \in ROB
      PROVE  /\ \A f \in InstrFields \ {"executed", "num_reg_dependent", "scheduled"} : R[m][f] = core.rob[m][f]
             /\ R[m].executed = IF m = x THEN COMPLETED ELSE core.rob[m].executed
  <2>0. m \in Ids /\ DOMAIN core.rob[m] = InstrFields
    BY <1>1 DEF Shape
  <2>1. CASE m = x
    <3>1. R[m] = [core.rob[m] EXCEPT !.executed = COMPLETED]
      BY <2>0, <2>1
    <3> HIDE DEF R
    <3> QED
      BY <2>0, <2>1, <3>1 DEF InstrFields
  <2>2. CASE m # x /\ m \in D
    <3>1. R[m] = [[core.rob[m] EXCEPT !.num_reg_dependent = core.rob[m].num_reg_dependent - 1] EXCEPT !.scheduled = u(m)]
      BY <2>0, <2>2 DEF InstrFields
    <3> HIDE DEF R, u
    <3> QED
      BY <2>0, <2>2, <3>1 DEF InstrFields
  <2>3. CASE m # x /\ m \notin D
    <3>1. R[m] = core.rob[m]
      BY <2>0, <2>3
    <3> HIDE DEF R
    <3> QED
      BY <2>3, <3>1
  <2> QED
    BY <2>1, <2>2, <2>3
<1> HIDE DEF R, D
<1>4. /\ core'.rob = R
      /\ \A f \in CoreFields \ {"rob", "ready_to_execute", "inflight_reg", "inflight_mem"} : core'[f] = core[f]
      /\ core'.inflight_reg = g /\ core'.inflight_mem = h
  BY <1>1, <1>2 DEF Shape, CoreFields
<1>5. Finished(core, core', x)
  BY <1>3, <1>4, ZenonT(60) DEF Finished, Completes, g, h
<1> QED
  BY <1>3, <1>4, <1>5 DEF RobOnly, CoreFields, InstrFields

LEMMA FetchRobOnly ==
    ASSUME LsqStanding, Fetch \/ UNCHANGED vars
    PROVE  RobOnly(core, core') /\ CountsSame(core, core')
<1>1. core' = core \/ PushSTA
  BY DEF Fetch, vars, backVars
<1>2. \A f \in CoreFields \ {"STA"} : core'[f] = core[f]
  BY <1>1 DEF PushSTA, LsqStanding, Shape, CoreFields
<1> QED
  BY <1>2 DEF RobOnly, CountsSame, CoreFields

\* Between c and z the L1D accepts the stores of n that are not refused; when it refuses
\* none, n leaves the ROB.
Accepted(c, z, n, lo, hi, refused) ==
    LET gone == {c.rob[n].sq_index[k] : k \in c.rob[n].destination_memory \ refused}
    IN  /\ \A f \in {"LQ", "RTL0", "RTL1", "RTS0", "RTS1", "data", "inflight_reg", "inflight_mem"} : z[f] = c[f]
        /\ \A s \in StoreSlots : z.SQ[s] = IF s \in gone THEN NoEntry ELSE c.SQ[s]
        /\ \A m \in lo + 1 .. hi : m # n => z.rob[m] = c.rob[m]
        /\ refused # {} =>
              /\ z.rob[n].destination_memory = refused
              /\ \A f \in InstrFields \ {"destination_memory"} : z.rob[n][f] = c.rob[n][f]

LEMMA AcceptedKeeps ==
    ASSUME NEW P, NEW c, NEW z, NEW d, NEW l, NEW lo, NEW hi, Bounds(P, lo, hi), lo < hi,
           QueuesHeld(P, c, d, l, lo, hi), NEW n, n = lo + 1, c.rob[n].executed = COMPLETED,
           NEW refused \in SUBSET c.rob[n].destination_memory, Accepted(c, z, n, lo, hi, refused),
           NEW low, low = IF refused = {} THEN n ELSE lo
    PROVE  QueuesHeld(P, z, d, l, low, hi)
<1> DEFINE gone == {c.rob[n].sq_index[k] : k \in c.rob[n].destination_memory \ refused}
<1>0. /\ lo \in Nat /\ hi \in Nat /\ n \in lo + 1 .. hi /\ low \in Nat
      /\ \A m : m \in low + 1 .. hi <=> m \in lo + 1 .. hi /\ (refused = {} => m # n)
  <2>1. lo \in Nat /\ hi \in Nat
    BY DEF Bounds
  <2> QED
    BY <2>1
<1>1. /\ Queues(P, c, lo, hi) /\ (\A s \in LoadSlots : Pending(P, c, s)) /\ Held(c, d, l)
      /\ QueuesTyped(c)
      /\ \A m \in lo + 1 .. hi : /\ InstrTyped(P, c, m, hi) /\ Counted(P, c, m)
                                 /\ \A k \in LiveStores(c, m) : StorePlaced(P, c, m, k)
  BY DEF QueuesHeld, Queues
<1>2. /\ EntriesOf(c, n) = {} /\ LiveStores(c, n) = c.rob[n].destination_memory
      /\ \A k \in c.rob[n].destination_memory : Executed(c, n, k) /\ StorePlaced(P, c, n, k)
  <2>1. InstrTyped(P, c, n, hi) /\ Counted(P, c, n)
    BY <1>0, <1>1
  <2>2. LiveStores(c, n) = c.rob[n].destination_memory
    BY <2>1, ZenonT(60) DEF InstrTyped, Counted, LiveStores
  <2> QED
    BY <1>0, <1>1, <2>1, <2>2 DEF Counted
<1>3. ASSUME NEW s \in gone
      PROVE  s \in StoreSlots /\ c.SQ[s] # NoEntry /\ c.SQ[s].instr = n /\ c.SQ[s].fetched
  <2>1. PICK k \in c.rob[n].destination_memory \ refused : s = c.rob[n].sq_index[k]
    OBVIOUS
  <2>2. Executed(c, n, k) /\ StorePlaced(P, c, n, k)
    BY <1>2
  <2> QED
    BY <2>1, <2>2 DEF Executed, StorePlaced
<1>4. ASSUME NEW m \in lo + 1 .. hi, m # n, NEW k \in LiveStores(c, m)
      PROVE  c.rob[m].sq_index[k] \notin gone
  <2>1. StorePlaced(P, c, m, k)
    BY <1>1
  <2> HIDE DEF gone
  <2> QED
    BY <1>3, <1>4, <2>1 DEF StorePlaced
<1>5. ASSUME NEW k \in refused PROVE c.rob[n].sq_index[k] \notin gone
  <2>1. StorePlaced(P, c, n, k)
    BY <1>2, SMTT(60)
  <2>2. ASSUME NEW j \in c.rob[n].destination_memory \ refused PROVE c.rob[n].sq_index[j] # c.rob[n].sq_index[k]
    <3>1. j \in LiveStores(c, n) /\ j # k
      BY <1>2
    <3> QED
      BY <2>1, <3>1 DEF StorePlaced
  <2> QED
    BY <2>2
<1>6. /\ z.LQ = c.LQ /\ z.RTL0 = c.RTL0 /\ z.RTL1 = c.RTL1 /\ z.RTS0 = c.RTS0 /\ z.RTS1 = c.RTS1
      /\ \A s \in StoreSlots : z.SQ[s] = IF s \in gone THEN NoEntry ELSE c.SQ[s]
      /\ \A m \in lo + 1 .. hi : m # n => z.rob[m] = c.rob[m]
  BY DEF Accepted
<1>7. refused # {} =>
         /\ z.rob[n].destination_memory = refused
         /\ z.rob[n].executed = COMPLETED
         /\ z.rob[n].source_added = c.rob[n].source_added
         /\ z.rob[n].destination_added = c.rob[n].destination_added
         /\ z.rob[n].lq_index = c.rob[n].lq_index
         /\ z.rob[n].sq_index = c.rob[n].sq_index
         /\ z.rob[n].memory_instrs_depend_on_me = c.rob[n].memory_instrs_depend_on_me
  BY DEF Accepted, InstrFields
<1> HIDE DEF gone
<1>8. ASSUME NEW m \in lo + 1 .. hi, m # n, NEW k \in c.rob[m].destination_memory
      PROVE  Executed(z, m, k) <=> Executed(c, m, k)
  <2>1. CASE k \in c.rob[m].destination_added
    <3>1. k \in LiveStores(c, m)
      BY <2>1 DEF LiveStores
    <3>2. c.rob[m].sq_index[k] \notin gone /\ c.rob[m].sq_index[k] \in StoreSlots
      BY <1>1, <1>4, <1>8, <3>1 DEF StorePlaced
    <3> QED
      BY <1>6, <1>8, <3>2, SMTT(60) DEF Executed
  <2>2. CASE k \notin c.rob[m].destination_added
    BY <1>6, <1>8, <2>2, ZenonT(60) DEF Executed
  <2> QED
    BY <2>1, <2>2
<1>9. ASSUME NEW k \in refused PROVE Executed(z, n, k)
  <2>1. Executed(c, n, k) /\ StorePlaced(P, c, n, k)
    BY <1>2
  <2> QED
    BY <1>5, <1>6, <1>7, <2>1, SMTT(60) DEF Executed, StorePlaced
<1>10. ASSUME NEW m \in low + 1 .. hi
       PROVE  InstrTyped(P, z, m, hi) /\ Counted(P, z, m)
  <2>0. InstrTyped(P, c, m, hi) /\ Counted(P, c, m) /\ m \in lo + 1 .. hi /\ (refused = {} => m # n)
    BY <1>0, <1>1
  <2>1. CASE m # n
    <3>1. z.rob[m] = c.rob[m]
      BY <1>6, <2>0, <2>1
    <3>2. Unadded(P, z, m) = Unadded(P, c, m) /\ EntriesOf(z, m) = EntriesOf(c, m)
      BY <1>6, <3>1 DEF Unadded, EntriesOf
    <3>3. \A k \in c.rob[m].destination_memory : Executed(z, m, k) <=> Executed(c, m, k)
      BY <1>8, <2>0, <2>1
    <3>4. CASE c.rob[m].executed # COMPLETED
      <4>1. c.rob[m].destination_memory = 1 .. Len(P[m].store)
        BY <2>0, <3>4 DEF Counted
      <4>2. Unexecuted(P, z, m) = Unexecuted(P, c, m)
        BY <3>3, <4>1 DEF Unexecuted
      <4> QED
        BY <2>0, <3>1, <3>2, <3>4, <4>1, <4>2 DEF InstrTyped, Counted
    <3>5. CASE c.rob[m].executed = COMPLETED
      BY <2>0, <3>1, <3>2, <3>3, <3>5 DEF InstrTyped, Counted
    <3> QED
      BY <3>4, <3>5
  <2>2. CASE m = n
    <3>1. refused # {}
      BY <2>0, <2>2
    <3>2. InstrTyped(P, z, n, hi)
      BY <1>7, <2>0, <2>2, <3>1 DEF InstrTyped
    <3>3. Unadded(P, z, n) = Unadded(P, c, n) /\ EntriesOf(z, n) = EntriesOf(c, n)
      BY <1>6, <1>7, <3>1 DEF Unadded, EntriesOf
    <3>4. Counted(P, z, n)
      BY <1>7, <1>9, <2>0, <2>2, <3>1, <3>3 DEF Counted
    <3> QED
      BY <2>2, <3>2, <3>4
  <2> QED
    BY <2>1, <2>2
<1>11. ASSUME NEW s \in LoadSlots
       PROVE  LoadEntry(P, z, low, hi, s) /\ Pending(P, z, s)
  <2>0. LoadEntry(P, c, lo, hi, s) /\ Pending(P, c, s)
    BY <1>1 DEF Queues
  <2>1. CASE c.LQ[s] = NoEntry
    BY <1>6, <2>1 DEF LoadEntry, Pending
  <2>2. CASE c.LQ[s] # NoEntry
    <3> DEFINE i == c.LQ[s].instr
               p == c.LQ[s].producer
    <3>1. i \in lo + 1 .. hi /\ (p # 0 => p \in lo + 1 .. hi /\ p < i)
      BY <2>0, <2>2, LoadEntryBounds
    <3>2. i # n
      BY <1>2 DEF EntriesOf
    <3>3. p # 0 => /\ p # n /\ i \in Range(c.rob[p].memory_instrs_depend_on_me)
                   /\ \E k \in c.rob[p].destination_memory :
                         P[p].store[k] = c.LQ[s].address /\ ~ Executed(c, p, k)
      BY <1>2, <2>0, <2>2 DEF Pending
    <3>4. i \in low + 1 .. hi /\ z.rob[i] = c.rob[i] /\ z.LQ[s] = c.LQ[s]
      BY <1>0, <1>6, <3>1, <3>2
    <3>5. p # 0 => p \in low + 1 .. i - 1 /\ z.rob[p] = c.rob[p]
      <4> SUFFICES ASSUME p # 0 PROVE p \in low + 1 .. i - 1 /\ z.rob[p] = c.rob[p]
        OBVIOUS
      <4> HIDE DEF p, i
      <4>1. p \in low + 1 .. hi /\ p < i /\ z.rob[p] = c.rob[p]
        BY <1>0, <1>6, <3>1, <3>3
      <4>2. i \in Nat
        BY <1>0, <3>1
      <4> QED
        BY <1>0, <4>1, <4>2
    <3>6. p # 0 => \E k \in z.rob[p].destination_memory :
                      P[p].store[k] = c.LQ[s].address /\ ~ Executed(z, p, k)
      BY <1>8, <3>1, <3>3, <3>5, Zenon
    <3>7. Pending(P, z, s)
      BY <3>3, <3>4, <3>5, <3>6, Zenon DEF Pending
    <3>8. LoadEntry(P, z, low, hi, s)
      BY <2>0, <2>2, <3>4, <3>5, Zenon DEF LoadEntry
    <3> QED
      BY <3>7, <3>8
  <2> QED
    BY <2>1, <2>2
<1>12. ASSUME NEW s \in StoreSlots PROVE StoreEntry(z, low, hi, s)
  <2>0. StoreEntry(c, lo, hi, s)
    BY <1>1 DEF Queues
  <2>1. CASE z.SQ[s] = NoEntry
    BY <2>1, Zenon DEF StoreEntry
  <2>2. CASE z.SQ[s] # NoEntry
    <3> DEFINE m == c.SQ[s].instr
    <3>1. s \notin gone /\ z.SQ[s] = c.SQ[s] /\ c.SQ[s] # NoEntry
      BY <1>6, <2>2, Zenon
    <3>2. PICK k \in LiveStores(c, m) : c.rob[m].sq_index[k] = s
      BY <2>0, <3>1, Zenon DEF StoreEntry
    <3>3. m \in lo + 1 .. hi
      BY <2>0, <3>1 DEF StoreEntry
    <3>4. m \in low + 1 .. hi /\ k \in LiveStores(z, m) /\ z.rob[m].sq_index[k] = s
      <4>1. CASE m = n
        <5>1. k \in refused
          BY <1>2, <3>1, <3>2, <4>1, SMTT(60) DEF gone
        <5> QED
          BY <1>0, <1>7, <3>2, <3>3, <4>1, <5>1 DEF LiveStores
      <4>2. CASE m # n
        BY <1>0, <1>6, <3>2, <3>3, <4>2, SMTT(60) DEF LiveStores
      <4> QED
        BY <4>1, <4>2
    <3> QED
      BY <2>0, <3>1, <3>4, Zenon DEF StoreEntry
  <2> QED
    BY <2>1, <2>2
<1>13. ASSUME NEW m \in low + 1 .. hi, NEW k \in LiveStores(z, m) PROVE StorePlaced(P, z, m, k)
  <2>0. m \in lo + 1 .. hi /\ (refused = {} => m # n)
    BY <1>0
  <2>1. /\ k \in LiveStores(c, m) /\ z.rob[m].sq_index = c.rob[m].sq_index
        /\ LiveStores(z, m) \subseteq LiveStores(c, m)
        /\ c.rob[m].sq_index[k] \notin gone
    <3>1. CASE m = n
      BY <1>5, <1>7, <2>0, <3>1 DEF LiveStores
    <3>2. CASE m # n
      BY <1>4, <1>6, <2>0, <3>2 DEF LiveStores
    <3> QED
      BY <3>1, <3>2
  <2>2. StorePlaced(P, c, m, k)
    BY <1>1, <2>0, <2>1
  <2> QED
    BY <1>6, <2>1, <2>2 DEF StorePlaced
<1>14. ASSUME NEW s \in StoreSlots PROVE StoreHeld(z, d, s)
  <2>1. StoreHeld(c, d, s) /\ StoresAt(z, d, s) = StoresAt(c, d, s)
    BY <1>1, <1>6 DEF Held, StoresAt
  <2>2. CASE s \in gone
    BY <1>3, <1>6, <2>1, <2>2 DEF StoreHeld, OneIf
  <2>3. CASE s \notin gone
    BY <1>6, <2>1, <2>3 DEF StoreHeld
  <2> QED
    BY <2>2, <2>3
<1>15. \A s \in LoadSlots : LoadHeld(z, d, l, s)
  BY <1>1, <1>6 DEF Held, LoadHeld, LoadsAt
<1>16. QueuesTyped(z)
  BY <1>1, <1>6 DEF QueuesTyped
<1> QED
  BY <1>10, <1>11, <1>12, <1>13, <1>14, <1>15, <1>16 DEF QueuesHeld, Queues, Held

\* What retire_rob does to the first instruction in the ROB.
RetiresFirst(n, refused) ==
    /\ retired < dispatched /\ n = retired + 1 /\ n \in ROB /\ core.rob[n].executed = COMPLETED
    /\ refused \subseteq core.rob[n].destination_memory
    /\ Accepted(core, core', n, retired, dispatched, refused)
    /\ retired' = IF refused = {} THEN n ELSE retired
    /\ \A k \in core.rob[n].destination_memory \ refused, i \in refused : k < i
    /\ memory' = [a \in Address |-> IF \E k \in core.rob[n].destination_memory \ refused : program[n].store[k] = a
                                   THEN n ELSE memory[a]]

LEMMA RetireAccepts ==
    ASSUME LsqStanding, Retire
    PROVE  \E refused : RetiresFirst(retired + 1, refused)
<1> DEFINE n == retired + 1
<1>1. /\ retired < dispatched /\ n \in ROB /\ n \in Ids /\ core.rob[n].executed = COMPLETED
      /\ Shape(core) /\ ROB = retired + 1 .. dispatched /\ ROB \subseteq Ids
  <2>1. retired \in Nat /\ dispatched \in Nat /\ retired + 1 .. dispatched # {}
    BY DEF Retire, LsqStanding, Bounds
  <2>2. retired < dispatched /\ n \in retired + 1 .. dispatched
    BY <2>1, SMTT(60)
  <2> QED
    BY <2>2 DEF Retire, LsqStanding
<1>2. PICK refused \in SUBSET core.rob[n].destination_memory :
         LET accepted == core.rob[n].destination_memory \ refused
             gone == {core.rob[n].sq_index[k] : k \in accepted}
         IN  /\ \A k \in accepted, i \in refused : k < i
             /\ memory' = [a \in Address |-> IF \E k \in accepted : program[n].store[k] = a THEN n ELSE memory[a]]
             /\ retired' = IF refused = {} THEN n ELSE retired
             /\ mispredicted' = IF refused = {} THEN mispredicted \ {n} ELSE mispredicted
             /\ core' = [core EXCEPT
                   !.rob[n] = IF refused = {} THEN NoInstr ELSE [@ EXCEPT !.destination_memory = refused],
                   !.SQ = [s \in StoreSlots |-> IF s \in gone THEN NoEntry ELSE @[s]]]
  BY DEF Retire
<1> DEFINE gone == {core.rob[n].sq_index[k] : k \in core.rob[n].destination_memory \ refused}
           Q == [s \in StoreSlots |-> IF s \in gone THEN NoEntry ELSE core.SQ[s]]
           i == IF refused = {} THEN NoInstr ELSE [core.rob[n] EXCEPT !.destination_memory = refused]
           R == [core.rob EXCEPT ![n] = i]
<1>3. core' = [[core EXCEPT !.rob = R] EXCEPT !.SQ = Q]
  <2>1. core' = [core EXCEPT
                   !.rob[n] = IF refused = {} THEN NoInstr ELSE [@ EXCEPT !.destination_memory = refused],
                   !.SQ = [s \in StoreSlots |-> IF s \in gone THEN NoEntry ELSE @[s]]]
    BY <1>2
  <2>2. "rob" \in DOMAIN core /\ n \in DOMAIN core.rob /\ "SQ" \in DOMAIN core
    BY <1>1 DEF Shape, CoreFields
  <2>3. core' = [core EXCEPT
                   !.rob[n] = IF refused = {} THEN NoInstr ELSE [@ EXCEPT !.destination_memory = refused],
                   !.SQ = Q]
    <3> HIDE DEF gone, n
    <3> QED
      BY <2>1, <2>2
  <2> HIDE DEF Q
  <2> QED
    BY <2>2, <2>3
<1>4. R[n] = i /\ \A m \in Ids : m # n => R[m] = core.rob[m]
  BY <1>1 DEF Shape
<1>5. refused # {} => /\ i.destination_memory = refused
                      /\ \A f \in InstrFields \ {"destination_memory"} : i[f] = core.rob[n][f]
  <2> SUFFICES ASSUME refused # {}
               PROVE  /\ i.destination_memory = refused
                      /\ \A f \in InstrFields \ {"destination_memory"} : i[f] = core.rob[n][f]
    OBVIOUS
  <2>1. DOMAIN core.rob[n] = InstrFields /\ i = [core.rob[n] EXCEPT !.destination_memory = refused]
    BY <1>1 DEF Shape
  <2> HIDE DEF i, n
  <2> QED
    BY <2>1 DEF InstrFields
<1>6. \A s \in StoreSlots : Q[s] = IF s \in gone THEN NoEntry ELSE core.SQ[s]
  OBVIOUS
<1> HIDE DEF i, R, Q
<1>7. /\ core'.rob = R /\ core'.SQ = Q
      /\ \A f \in CoreFields \ {"rob", "SQ"} : core'[f] = core[f]
  BY <1>1, <1>3 DEF Shape, CoreFields
<1>8. Accepted(core, core', n, retired, dispatched, refused)
  <2>1. \A f \in {"LQ", "RTL0", "RTL1", "RTS0", "RTS1", "data", "inflight_reg", "inflight_mem"} : core'[f] = core[f]
    BY <1>7 DEF CoreFields
  <2>2. \A m \in retired + 1 .. dispatched : m # n => core'.rob[m] = core.rob[m]
    BY <1>1, <1>4, <1>7
  <2> HIDE DEF n
  <2> QED
    BY <1>4, <1>5, <1>6, <1>7, <2>1, <2>2 DEF Accepted, gone
<1>9. /\ retired' = IF refused = {} THEN n ELSE retired
      /\ \A k \in core.rob[n].destination_memory \ refused, l \in refused : k < l
      /\ memory' = [a \in Address |-> IF \E k \in core.rob[n].destination_memory \ refused : program[n].store[k] = a
                                     THEN n ELSE memory[a]]
  BY <1>2
<1> QED
  BY <1>1, <1>8, <1>9, Zenon DEF RetiresFirst

LEMMA RetireHeld ==
    ASSUME LsqStanding, Retire
    PROVE  QueuesHeld(program, core', dtlb, l1d, retired', dispatched)
<1>1. PICK refused : RetiresFirst(retired + 1, refused)
  BY RetireAccepts
<1>2. /\ Bounds(program, retired, dispatched)
      /\ QueuesHeld(program, core, dtlb, l1d, retired, dispatched)
  BY DEF LsqStanding, LsqInv
<1> QED
  BY <1>1, <1>2, AcceptedKeeps DEF RetiresFirst

\* Between c and z the instruction x comes to the ROB.
Dispatched(P, c, z, lo, hi, x) ==
    /\ \A f \in {"LQ", "SQ", "RTL0", "RTL1", "RTS0", "RTS1", "data", "inflight_reg", "inflight_mem"} : z[f] = c[f]
    /\ \A m \in lo + 1 .. hi : z.rob[m] = c.rob[m]
    /\ z.rob[x].executed = None
    /\ z.rob[x].source_added = {} /\ z.rob[x].destination_added = {}
    /\ z.rob[x].destination_memory = 1 .. Len(P[x].store)
    /\ z.rob[x].num_mem_ops = Len(P[x].load) + Len(P[x].store)
    /\ DOMAIN z.rob[x].lq_index = 1 .. Len(P[x].load)
    /\ DOMAIN z.rob[x].sq_index = 1 .. Len(P[x].store)
    /\ z.rob[x].memory_instrs_depend_on_me = <<>>

LEMMA WiderSeq ==
    ASSUME NEW S, NEW T, S \subseteq T
    PROVE  Seq(S) \subseteq Seq(T)
<1> SUFFICES ASSUME NEW q \in Seq(S) PROVE q \in Seq(T)
  OBVIOUS
<1>1. Len(q) \in Nat /\ q \in [1 .. Len(q) -> S]
  OBVIOUS
<1>2. q \in [1 .. Len(q) -> T]
  BY <1>1
<1> QED
  BY <1>1, <1>2

LEMMA DispatchedKeeps ==
    ASSUME NEW P, NEW c, NEW z, NEW d, NEW l, NEW lo, NEW hi, Bounds(P, lo, hi),
           QueuesHeld(P, c, d, l, lo, hi), NEW x, x = hi + 1, x <= Len(P), Dispatched(P, c, z, lo, hi, x)
    PROVE  QueuesHeld(P, z, d, l, lo, x)
<1>0. /\ lo \in Nat /\ hi \in Nat /\ x \in Nat \ {0} /\ x \notin lo + 1 .. hi
      /\ \A m : m \in lo + 1 .. x <=> m \in lo + 1 .. hi \/ m = x
      /\ Bounds(P, lo, x) /\ x \in 1 .. Len(P)
  <2>1. lo \in Nat /\ hi \in Nat /\ lo <= hi /\ Len(P) \in Nat
    BY DEF Bounds
  <2>2. x \in Nat \ {0} /\ x \notin lo + 1 .. hi /\ lo <= x /\ x \in 1 .. Len(P)
    BY <2>1
  <2>3. \A m : m \in lo + 1 .. x <=> m \in lo + 1 .. hi \/ m = x
    BY <2>1
  <2> QED
    BY <2>1, <2>2, <2>3 DEF Bounds
<1>1. /\ Queues(P, c, lo, hi) /\ (\A s \in LoadSlots : Pending(P, c, s)) /\ Held(c, d, l)
      /\ QueuesTyped(c)
      /\ \A m \in lo + 1 .. hi : /\ InstrTyped(P, c, m, hi) /\ Counted(P, c, m)
                                 /\ \A k \in LiveStores(c, m) : StorePlaced(P, c, m, k)
  BY DEF QueuesHeld, Queues
<1>2. /\ z.LQ = c.LQ /\ z.SQ = c.SQ
      /\ z.RTL0 = c.RTL0 /\ z.RTL1 = c.RTL1 /\ z.RTS0 = c.RTS0 /\ z.RTS1 = c.RTS1
      /\ \A m \in lo + 1 .. hi : z.rob[m] = c.rob[m]
  BY DEF Dispatched
<1>3. ASSUME NEW m \in lo + 1 .. hi PROVE InstrTyped(P, z, m, x) /\ Counted(P, z, m)
  <2>1. z.rob[m] = c.rob[m] /\ InstrTyped(P, c, m, hi) /\ Counted(P, c, m)
    BY <1>1, <1>2
  <2>2. Seq(m + 1 .. hi) \subseteq Seq(m + 1 .. x)
    <3> DEFINE S == m + 1 .. hi
               T == m + 1 .. x
    <3>1. S \subseteq T
      BY <1>0
    <3> HIDE DEF S, T
    <3>2. Seq(S) \subseteq Seq(T)
      BY <3>1, WiderSeq
    <3> QED
      BY <3>2 DEF S, T
  <2>3. InstrTyped(P, z, m, x)
    BY <2>1, <2>2 DEF InstrTyped
  <2>4. Unadded(P, z, m) = Unadded(P, c, m) /\ EntriesOf(z, m) = EntriesOf(c, m)
        /\ \A k : Executed(z, m, k) <=> Executed(c, m, k)
    BY <1>2, <2>1 DEF Unadded, EntriesOf, Executed
  <2>5. Unexecuted(P, z, m) = Unexecuted(P, c, m)
    BY <2>4 DEF Unexecuted
  <2>6. Counted(P, z, m)
    BY <2>1, <2>4, <2>5 DEF Counted
  <2> QED
    BY <2>3, <2>6
<1>4. /\ P[x].load \in Seq(Address) /\ Len(P[x].load) \in Nat /\ Len(P[x].store) \in Nat
  BY <1>0, InBounds
<1>5. InstrTyped(P, z, x, x)
  BY DEF InstrTyped, Dispatched
<1>6. Counted(P, z, x)
  <2>1. Unadded(P, z, x) = 1 .. Len(P[x].load)
    BY DEF Unadded, Dispatched
  <2>2. Unexecuted(P, z, x) = 1 .. Len(P[x].store)
    BY DEF Unexecuted, Executed, Dispatched
  <2>3. EntriesOf(z, x) = {}
    <3>1. ASSUME NEW s \in LoadSlots PROVE c.LQ[s].instr # x
      <4>1. LoadEntry(P, c, lo, hi, s)
        BY <1>1 DEF Queues
      <4>2. CASE c.LQ[s] = NoEntry
        BY <1>0, <4>2 DEF NoEntry
      <4>3. CASE c.LQ[s] # NoEntry
        <5>1. c.LQ[s].instr \in lo + 1 .. hi
          BY <4>1, <4>3, LoadEntryBounds
        <5> QED
          BY <1>0, <5>1
      <4> QED
        BY <4>2, <4>3
    <3> QED
      BY <1>2, <3>1 DEF EntriesOf
  <2>4. Cardinality(1 .. Len(P[x].load)) = Len(P[x].load) /\ Cardinality(1 .. Len(P[x].store)) = Len(P[x].store)
    <3>1. \A k \in Nat : Cardinality(1 .. k) = k
      <4> SUFFICES ASSUME NEW k \in Nat PROVE Cardinality(1 .. k) = k
        OBVIOUS
      <4>1. Cardinality(1 .. k) = IF 1 > k THEN 0 ELSE k - 1 + 1
        BY FS_Interval
      <4> QED
        BY <4>1
    <3> QED
      BY <1>4, <3>1
  <2>5. Cardinality({}) = 0
    BY FS_EmptySet
  <2>6. /\ z.rob[x].executed # COMPLETED /\ z.rob[x].destination_memory = 1 .. Len(P[x].store)
        /\ z.rob[x].num_mem_ops = Len(P[x].load) + Len(P[x].store)
    BY DEF Dispatched, None, COMPLETED
  <2>7. z.rob[x].num_mem_ops = Cardinality(Unadded(P, z, x)) + Cardinality(EntriesOf(z, x))
                                 + Cardinality(Unexecuted(P, z, x))
    <3>1. /\ Cardinality(Unadded(P, z, x)) = Len(P[x].load) /\ Cardinality(EntriesOf(z, x)) = 0
          /\ Cardinality(Unexecuted(P, z, x)) = Len(P[x].store)
      BY <2>1, <2>2, <2>3, <2>4, <2>5, Zenon
    <3>2. Len(P[x].load) + Len(P[x].store) = Len(P[x].load) + 0 + Len(P[x].store)
      BY <1>4
    <3> QED
      BY <2>6, <3>1, <3>2, Zenon
  <2> QED
    BY <2>6, <2>7 DEF Counted
<1>7. ASSUME NEW s \in LoadSlots PROVE LoadEntry(P, z, lo, x, s) /\ Pending(P, z, s)
  <2>0. LoadEntry(P, c, lo, hi, s) /\ Pending(P, c, s)
    BY <1>1 DEF Queues
  <2>1. CASE c.LQ[s] = NoEntry
    BY <1>2, <2>1 DEF LoadEntry, Pending
  <2>2. CASE c.LQ[s] # NoEntry
    <3> DEFINE i == c.LQ[s].instr
               p == c.LQ[s].producer
    <3>1. i \in lo + 1 .. hi /\ (p # 0 => p \in lo + 1 .. hi /\ p < i)
      BY <2>0, <2>2, LoadEntryBounds
    <3>2. i \in lo + 1 .. x /\ z.rob[i] = c.rob[i] /\ (p # 0 => z.rob[p] = c.rob[p])
      BY <1>0, <1>2, <3>1, Zenon
    <3>3. LoadEntry(P, z, lo, x, s)
      BY <1>2, <2>0, <2>2, <3>2, ZenonT(60) DEF LoadEntry
    <3>4. Pending(P, z, s)
      BY <1>2, <2>0, <2>2, <3>2, Zenon DEF Pending, Executed
    <3> QED
      BY <3>3, <3>4
  <2> QED
    BY <2>1, <2>2
<1>8. ASSUME NEW s \in StoreSlots PROVE StoreEntry(z, lo, x, s)
  <2>0. StoreEntry(c, lo, hi, s)
    BY <1>1 DEF Queues
  <2>1. CASE c.SQ[s] = NoEntry
    BY <1>2, <2>1 DEF StoreEntry
  <2>2. CASE c.SQ[s] # NoEntry
    <3> DEFINE i == c.SQ[s].instr
    <3>1. i \in lo + 1 .. hi
      BY <2>0, <2>2 DEF StoreEntry
    <3>2. i \in lo + 1 .. x /\ z.rob[i] = c.rob[i]
      BY <1>0, <1>2, <3>1, SMTT(60)
    <3> QED
      BY <1>2, <2>0, <2>2, <3>2, ZenonT(60) DEF StoreEntry, LiveStores
  <2> QED
    BY <2>1, <2>2
<1>9. ASSUME NEW m \in lo + 1 .. x, NEW k \in LiveStores(z, m) PROVE StorePlaced(P, z, m, k)
  <2>1. m # x
    BY DEF LiveStores, Dispatched
  <2>2. m \in lo + 1 .. hi /\ z.rob[m] = c.rob[m]
    BY <1>0, <1>2, <2>1
  <2>3. LiveStores(z, m) = LiveStores(c, m)
    BY <2>2 DEF LiveStores
  <2>4. StorePlaced(P, c, m, k)
    BY <1>1, <2>2, <2>3
  <2> QED
    BY <1>2, <2>2, <2>3, <2>4 DEF StorePlaced
<1>10. Held(z, d, l)
  BY <1>1, <1>2 DEF Held, LoadHeld, StoreHeld, LoadsAt, StoresAt
<1>11. QueuesTyped(z)
  BY <1>1, <1>2 DEF QueuesTyped
<1>12. \A m \in lo + 1 .. x : InstrTyped(P, z, m, x) /\ Counted(P, z, m)
  BY <1>0, <1>3, <1>5, <1>6
<1> QED
  BY <1>7, <1>8, <1>9, <1>10, <1>11, <1>12 DEF QueuesHeld, Queues

LEMMA DispatchEnters ==
    ASSUME LsqStanding, Dispatch
    PROVE  /\ Dispatched(program, core, core', retired, dispatched, dispatched + 1)
           /\ dispatched' = dispatched + 1 /\ dispatched + 1 <= Len(program)
<1> DEFINE x == dispatched + 1
           i == [NoInstr EXCEPT !.num_mem_ops = Operations(x),
                                !.destination_memory = StoresOf(x),
                                !.lq_index = [j \in Loads(x) |-> 0],
                                !.sq_index = [k \in StoresOf(x) |-> 0]]
           R == [core.rob EXCEPT ![x] = i]
<1>0. /\ Shape(core) /\ Order /\ ROB = retired + 1 .. dispatched /\ ROB \subseteq Ids
      /\ Bounds(program, retired, dispatched)
      /\ QueuesHeld(program, core, dtlb, l1d, retired, dispatched)
  BY DEF LsqStanding, LsqInv
<1>1. dispatched' = x /\ x <= decoded
  BY DEF Dispatch
<1>2. x \in 1 .. Len(program) /\ x <= Len(program) /\ x \in Ids /\ x \notin ROB
  <2>1. /\ dispatched \in Nat /\ decoded \in Nat /\ decoding \in Nat /\ read \in Nat /\ Len(program) \in Nat
        /\ decoded <= decoding /\ decoding <= read /\ read <= Len(program) /\ Len(program) <= MaxLength
    BY <1>0 DEF Order
  <2>2. MaxLength \in Nat /\ \A m : m \in ROB => m <= dispatched
    BY <1>0, RobInTrace, SizeAssumption
  <2> QED
    BY <1>1, <2>1, <2>2 DEF Ids
<1>3. core' = [core EXCEPT !.rob = R]
  <2>1. "rob" \in DOMAIN core /\ x \in DOMAIN core.rob
    BY <1>0, <1>2 DEF Shape, CoreFields
  <2> QED
    BY <2>1 DEF Dispatch
<1>4. /\ Loads(x) = 1 .. Len(program[x].load) /\ StoresOf(x) = 1 .. Len(program[x].store)
  BY <1>0, <1>2, InstructionInTrace
<1>5. /\ i.executed = None /\ i.source_added = {} /\ i.destination_added = {}
      /\ i.destination_memory = StoresOf(x) /\ i.num_mem_ops = Operations(x)
      /\ DOMAIN i.lq_index = Loads(x) /\ DOMAIN i.sq_index = StoresOf(x)
      /\ i.memory_instrs_depend_on_me = <<>>
  BY DEF NoInstr
<1> HIDE DEF i
<1>6. R[x] = i /\ \A m \in ROB : R[m] = core.rob[m]
  BY <1>0, <1>2 DEF Shape
<1> HIDE DEF R, x
<1>7. core'.rob = R /\ \A f \in CoreFields \ {"rob"} : core'[f] = core[f]
  BY <1>0, <1>3 DEF Shape, CoreFields
<1>8. Dispatched(program, core, core', retired, dispatched, x)
  BY <1>0, <1>4, <1>5, <1>6, <1>7 DEF Dispatched, CoreFields, Operations
<1> QED
  BY <1>1, <1>2, <1>8 DEF x

LEMMA DispatchHeld ==
    ASSUME LsqStanding, Dispatch
    PROVE  QueuesHeld(program, core', dtlb, l1d, retired, dispatched')
<1>1. /\ Dispatched(program, core, core', retired, dispatched, dispatched + 1)
      /\ dispatched' = dispatched + 1 /\ dispatched + 1 <= Len(program)
  BY DispatchEnters
<1>2. /\ Bounds(program, retired, dispatched)
      /\ QueuesHeld(program, core, dtlb, l1d, retired, dispatched)
  BY DEF LsqStanding, LsqInv
<1> QED
  BY <1>1, <1>2, DispatchedKeeps

LEMMA LsqStands ==
    ASSUME Registers, LsqInv
    PROVE  LsqStanding
<1>1. Order /\ Shape(core)
  BY DEF Registers
<1>2. ROB \subseteq Ids /\ ROB = retired + 1 .. dispatched
  BY <1>1, RobInTrace DEF ROB
<1>3. Bounds(program, retired, dispatched)
  BY <1>1 DEF Order, Bounds
<1> QED
  BY <1>1, <1>2, <1>3 DEF LsqStanding

LEMMA LsqInit == Init => LsqInv
<1> SUFFICES ASSUME Init PROVE LsqInv
  OBVIOUS
<1>1. /\ core = NewCore /\ dtlb = {} /\ l1d = {} /\ retired = 0 /\ dispatched = 0
  BY DEF Init
<1>2. /\ core.RTL0 = <<>> /\ core.RTL1 = <<>> /\ core.RTS0 = <<>> /\ core.RTS1 = <<>>
      /\ (\A s \in LoadSlots : core.LQ[s] = NoEntry) /\ \A s \in StoreSlots : core.SQ[s] = NoEntry
  BY <1>1 DEF NewCore
<1>3. QueuesTyped(core)
  BY <1>2 DEF QueuesTyped
<1>4. /\ \A s \in LoadSlots : LoadEntry(program, core, 0, 0, s) /\ Pending(program, core, s)
      /\ \A s \in StoreSlots : StoreEntry(core, 0, 0, s)
  BY <1>2 DEF LoadEntry, Pending, StoreEntry
<1>5. \A n : n \notin 0 + 1 .. 0
  OBVIOUS
<1>6. Queues(program, core, 0, 0)
  BY <1>3, <1>4, <1>5 DEF Queues
<1>7. \A s : Times(s, <<>>) = 0
  BY TimesNone
<1>8. \A s \in LoadSlots : LoadHeld(core, dtlb, l1d, s)
  <2>1. \A s : LoadsAt(core, dtlb, l1d, s) = 0
    BY <1>1, <1>2, <1>7 DEF LoadsAt, OneIf
  <2> QED
    BY <1>2, <2>1 DEF LoadHeld, OneIf
<1>9. \A s \in StoreSlots : StoreHeld(core, dtlb, s)
  <2>1. \A s : StoresAt(core, dtlb, s) = 0
    BY <1>1, <1>2, <1>7 DEF StoresAt, OneIf
  <2> QED
    BY <1>2, <2>1 DEF StoreHeld, OneIf
<1>10. QueuesHeld(program, core, dtlb, l1d, 0, 0)
  BY <1>4, <1>6, <1>8, <1>9 DEF QueuesHeld, Held
<1> QED
  BY <1>1, <1>10 DEF LsqInv

LEMMA LsqStep ==
    ASSUME Registers, LsqInv, [Next]_vars
    PROVE  LsqInv'
<1>0. /\ LsqStanding
      /\ l1d \subseteq LoadSlots /\ dtlb \subseteq DtlbEntry
      /\ QueuesHeld(program, core, dtlb, l1d, retired, dispatched)
  BY LsqStands DEF LsqInv
<1>1. CASE Fetch \/ UNCHANGED vars
  <2>1. UNCHANGED <<program, dtlb, l1d, retired, dispatched>>
    BY <1>1 DEF Fetch, FetchNext, InitInstruction, CheckDib, TranslateFetch, Translated, FetchInstruction,
               Fetched, PromoteToDecode, DecodeInstruction, ResumeFetch, vars, backVars, fetchVars
  <2>2. QueuesHeld(program, core', dtlb, l1d, retired, dispatched)
    BY <1>0, <1>1, FetchRobOnly, RobOnlyHeld
  <2> QED
    BY <1>0, <2>1, <2>2, ZenonT(60) DEF LsqInv
<1>2. CASE Dispatch
  <2>1. UNCHANGED <<program, dtlb, l1d, retired>>
    BY <1>2 DEF Dispatch, fetchVars
  <2>2. QueuesHeld(program, core', dtlb, l1d, retired, dispatched')
    BY <1>0, <1>2, DispatchHeld
  <2> QED
    BY <1>0, <2>1, <2>2 DEF LsqInv
<1>3. CASE Schedule
  <2>1. UNCHANGED <<program, dtlb, l1d, retired, dispatched>>
    BY <1>3 DEF Schedule, fetchVars
  <2>2. QueuesHeld(program, core', dtlb, l1d, retired, dispatched)
    BY <1>0, <1>3, ScheduleRobOnly, RobOnlyHeld
  <2> QED
    BY <1>0, <2>1, <2>2 DEF LsqInv
<1>4. CASE Execute
  <2>1. UNCHANGED <<program, dtlb, l1d, retired, dispatched>>
    BY <1>4 DEF Execute, fetchVars
  <2>2. QueuesHeld(program, core', dtlb, l1d, retired, dispatched)
    BY <1>0, <1>4, ExecuteRobOnly, RobOnlyHeld
  <2> QED
    BY <1>0, <2>1, <2>2 DEF LsqInv
<1>5. CASE ScheduleMemory
  <2>1. UNCHANGED <<program, dtlb, l1d, retired, dispatched>>
    BY <1>5 DEF ScheduleMemory, fetchVars
  <2>2. PICK n \in ROB : core' = MemoryScheduled(core, n)
    BY <1>5 DEF ScheduleMemory
  <2>3. Order /\ Shape(core)
    BY DEF Registers
  <2>4. QueuesHeld(program, core', dtlb, l1d, retired, dispatched)
    BY <1>0, <2>2, <2>3, MemoryScheduledKeeps
  <2> QED
    BY <1>0, <2>1, <2>4 DEF LsqInv
<1>6. CASE TranslateStore
  <2>1. UNCHANGED <<program, l1d, retired, dispatched>>
    BY <1>6 DEF TranslateStore, fetchVars
  <2>2. QueuesHeld(program, core', dtlb', l1d, retired, dispatched) /\ dtlb' \subseteq DtlbEntry
    BY <1>0, <1>6, TranslateStoreHeld
  <2> QED
    BY <1>0, <2>1, <2>2 DEF LsqInv
<1>7. CASE TranslateLoad
  <2>1. UNCHANGED <<program, l1d, retired, dispatched>>
    BY <1>7 DEF TranslateLoad, fetchVars
  <2>2. QueuesHeld(program, core', dtlb', l1d, retired, dispatched) /\ dtlb' \subseteq DtlbEntry
    BY <1>0, <1>7, TranslateLoadHeld
  <2> QED
    BY <1>0, <2>1, <2>2 DEF LsqInv
<1>8. CASE DataTranslated
  <2>1. UNCHANGED <<program, l1d, retired, dispatched>>
    BY <1>8, ZenonT(60) DEF DataTranslated, fetchVars
  <2>2. QueuesHeld(program, core', dtlb', l1d, retired, dispatched) /\ dtlb' \subseteq DtlbEntry
    BY <1>0, <1>8, DataTranslatedHeld
  <2> QED
    BY <1>0, <2>1, <2>2 DEF LsqInv
<1>9. CASE ExecuteStore
  <2>1. UNCHANGED <<program, dtlb, l1d, retired, dispatched>>
    BY <1>9 DEF ExecuteStore, fetchVars
  <2>2. QueuesHeld(program, core', dtlb, l1d, retired, dispatched)
    BY <1>0, <1>9, ExecuteStoreHeld
  <2> QED
    BY <1>0, <2>1, <2>2 DEF LsqInv
<1>10. CASE ExecuteLoad
  <2>1. UNCHANGED <<program, dtlb, retired, dispatched>>
    BY <1>10 DEF ExecuteLoad, fetchVars
  <2>2. QueuesHeld(program, core', dtlb, l1d', retired, dispatched) /\ l1d' \subseteq LoadSlots
    BY <1>0, <1>10, ExecuteLoadHeld
  <2> QED
    BY <1>0, <2>1, <2>2 DEF LsqInv
<1>11. CASE DataReturned
  <2>1. UNCHANGED <<program, dtlb, retired, dispatched>>
    BY <1>11 DEF DataReturned, fetchVars
  <2>2. QueuesHeld(program, core', dtlb, l1d', retired, dispatched) /\ l1d' \subseteq LoadSlots
    BY <1>0, <1>11, DataReturnedHeld
  <2> QED
    BY <1>0, <2>1, <2>2 DEF LsqInv
<1>12. CASE Complete
  <2>1. UNCHANGED <<program, dtlb, l1d, retired, dispatched>>
    BY <1>12, Zenon DEF Complete
  <2>2. PICK x \in ROB : Completes(x) /\ core.rob[x].num_mem_ops = 0
    BY <1>12, Zenon DEF Complete, Completes
  <2>3. QueuesHeld(program, core', dtlb, l1d, retired, dispatched)
    BY <1>0, <2>2, CompleteRobOnly, RobOnlyHeld
  <2> QED
    BY <1>0, <2>1, <2>3 DEF LsqInv
<1>13. CASE Retire
  <2>1. UNCHANGED <<program, dtlb, l1d, dispatched>>
    BY <1>13 DEF Retire
  <2>2. QueuesHeld(program, core', dtlb, l1d, retired', dispatched)
    BY <1>0, <1>13, RetireHeld, Zenon
  <2> QED
    BY <1>0, <2>1, <2>2 DEF LsqInv
<1> QED
  BY <1>1, <1>2, <1>3, <1>4, <1>5, <1>6, <1>7, <1>8, <1>9, <1>10, <1>11, <1>12, <1>13 DEF Next

LEMMA EntriesHeldOnceFrom ==
    ASSUME Registers, LsqInv
    PROVE  EntriesHeldOnce
<1>0. /\ LsqStanding
      /\ l1d \subseteq LoadSlots /\ dtlb \subseteq DtlbEntry
      /\ Queues(program, core, retired, dispatched) /\ (\A s \in LoadSlots : Pending(program, core, s))
      /\ Held(core, dtlb, l1d)
  BY LsqStands DEF LsqInv, QueuesHeld
<1>1. Cardinality({}) = 0 /\ \A x : Cardinality({x}) = 1
  BY FS_EmptySet, FS_Singleton
<1>2. ASSUME NEW s, NEW q \in {"LQ", "SQ"}
      PROVE  Cardinality({e \in dtlb : e.queue = q /\ e.slot = s}) = OneIf([queue |-> q, slot |-> s] \in dtlb)
  <2> DEFINE x == [queue |-> q, slot |-> s]
             E == {e \in dtlb : e.queue = q /\ e.slot = s}
  <2>1. \A e \in E : e = x
    BY <1>0 DEF DtlbEntry
  <2>2. x \in dtlb => E = {x}
    BY <2>1
  <2>3. x \notin dtlb => E = {}
    BY <2>1
  <2> HIDE DEF x, E
  <2> QED
    BY <1>1, <2>2, <2>3 DEF OneIf, x, E
<1>3. ASSUME NEW s PROVE Cardinality({s} \cap l1d) = OneIf(s \in l1d)
  <2>1. s \in l1d => {s} \cap l1d = {s}
    OBVIOUS
  <2>2. s \notin l1d => {s} \cap l1d = {}
    OBVIOUS
  <2> QED
    BY <1>1, <2>1, <2>2 DEF OneIf
<1>4. ASSUME NEW s \in LoadSlots
      PROVE  HeldLoad(s) = IF core.LQ[s] # NoEntry /\ core.LQ[s].producer = 0 THEN 1 ELSE 0
  <2>1. LoadHeld(core, dtlb, l1d, s)
    BY <1>0 DEF Held
  <2>2. HeldLoad(s) = LoadsAt(core, dtlb, l1d, s)
    BY <1>2, <1>3 DEF HeldLoad, LoadsAt
  <2> QED
    BY <2>1, <2>2 DEF LoadHeld, OneIf
<1>5. ASSUME NEW s \in StoreSlots
      PROVE  HeldStore(s) = IF core.SQ[s] # NoEntry /\ ~ core.SQ[s].fetched THEN 1 ELSE 0
  <2>1. StoreHeld(core, dtlb, s)
    BY <1>0 DEF Held
  <2>2. HeldStore(s) = StoresAt(core, dtlb, s)
    BY <1>2, Zenon DEF HeldStore, StoresAt
  <2> QED
    BY <2>1, <2>2 DEF StoreHeld, OneIf
<1>6. ASSUME NEW s \in LoadSlots, core.LQ[s] # NoEntry, core.LQ[s].producer # 0
      PROVE  /\ core.LQ[s].instr \in Range(core.rob[core.LQ[s].producer].memory_instrs_depend_on_me)
             /\ \E k \in StoresOf(core.LQ[s].producer) :
                   /\ program[core.LQ[s].producer].store[k] = core.LQ[s].address
                   /\ k \in core.rob[core.LQ[s].producer].destination_added =>
                         ~ core.SQ[core.rob[core.LQ[s].producer].sq_index[k]].fetched
  <2> DEFINE p == core.LQ[s].producer
  <2>1. LoadEntry(program, core, retired, dispatched, s) /\ Pending(program, core, s)
    BY <1>0 DEF Queues
  <2>2. Bounds(program, retired, dispatched) /\ Order
    BY <1>0 DEF LsqStanding
  <2>3. p \in retired + 1 .. dispatched
    BY <1>6, <2>1, <2>2, LoadEntryBounds
  <2>4. p \in 1 .. Len(program) /\ InstrTyped(program, core, p, dispatched)
    BY <1>0, <2>2, <2>3, InBounds DEF Queues
  <2>5. StoresOf(p) = 1 .. Len(program[p].store)
    BY <2>2, <2>4, InstructionInTrace, Zenon
  <2>6. core.rob[p].destination_memory \subseteq StoresOf(p)
    BY <2>4, <2>5, Zenon DEF InstrTyped
  <2> QED
    BY <1>6, <2>1, <2>6, Zenon DEF Pending, Executed
<1> QED
  BY <1>4, <1>5, <1>6, Zenon DEF EntriesHeldOnce

\* Each entry of the load and the store queue is in exactly one place that will move it
\* on, a free one in none (operate_lsq, add_load_queue, handle_memory_return).
THEOREM CoreEntriesHeldOnce == Spec => []EntriesHeldOnce
<1>1. Init => Registers /\ LsqInv
  BY RegistersInit, LsqInit
<1>2. Registers /\ LsqInv /\ [Next]_vars => Registers' /\ LsqInv'
  BY RegistersStep, LsqStep
<1>3. Registers /\ LsqInv => EntriesHeldOnce
  BY EntriesHeldOnceFrom
<1> QED
  BY <1>1, <1>2, <1>3, PTL DEF Spec

=============================================================================
