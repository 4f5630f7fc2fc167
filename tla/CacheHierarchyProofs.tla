------------------------ MODULE CacheHierarchyProofs ------------------------
(***************************************************************************)
(* CacheHierarchy for every tree of caches, every size of queue and every  *)
(* set of addresses.                                                       *)
(***************************************************************************)
EXTENDS CacheHierarchy, SequenceTheorems, FiniteSetTheorems, WellFoundedInduction, TLAPS

MshrEntry == [addr : Addr, type : Type, fill : Nat, returned : BOOLEAN,
              to_return : SUBSET Node, deps : SUBSET Addr]

Block == [addr : Addr, dirty : BOOLEAN] \cup {Invalid}

\* Queues of all caches, none longer than its size.
Queues(r, size, S) ==
    r \in [Cache -> Seq(S)] /\ \A c \in Cache : Len(r[c]) <= size[c]

Blocks(b) ==
    /\ b = [c \in Cache |-> [s \in Sets |-> b[c][s]]]
    /\ \A c \in Cache, s \in Sets : b[c][s] \in [1 .. Ways[c] -> Block]

AtMost(S, n) == IsFiniteSet(S) /\ Cardinality(S) <= n

MemoryReads(g) == g \subseteq Packet /\ AtMost(g, MEM_RQ_SIZE)

MemoryWrites(d) == d \subseteq Line /\ AtMost(d, MEM_WQ_SIZE)

\* What the reads of all levels are kept in.
Requests(r, q, m, g, w) ==
    /\ Queues(r, RQ_SIZE, Packet)
    /\ Queues(q, PQ_SIZE, Packet)
    /\ Queues(m, MSHR_SIZE, MshrEntry)
    /\ MemoryReads(g)
    /\ w \in [Client -> SUBSET Addr]

TypeInv ==
    /\ Requests(rq, pq, mshr, memRQ, pending)
    /\ Queues(wq, WQ_SIZE, Packet)
    /\ Blocks(block)
    /\ MemoryWrites(memWQ)
    /\ fastForward \in BOOLEAN
    /\ requests \in 0 .. MaxRequests

-----------------------------------------------------------------------------
\* Lists, and the first entry of one that has a line.

LEMMA LeastNatural ==
    ASSUME NEW T \in SUBSET Nat, T # {}
    PROVE  \E i \in T : \A j \in T : i <= j
<1>1. PICK i \in T : \A j \in T : ~ (<<j, i>> \in OpToRel(<, Nat))
  BY NatLessThanWellFounded, WFMin
<1>2. \A j \in T : ~ (j < i)
  BY <1>1 DEF OpToRel
<1> QED
  BY <1>2

LEMMA ChosenLeast ==
    ASSUME NEW T \in SUBSET Nat, T # {}
    PROVE  LET first == CHOOSE i \in T : \A j \in T : i <= j
           IN  first \in T /\ \A j \in T : first <= j
BY LeastNatural

LEMMA FindFields ==
    ASSUME NEW S, NEW q \in Seq(S), NEW a
    PROVE  /\ Find(q, a) \in 0 .. Len(q)
           /\ Find(q, a) = 0 => \A j \in 1 .. Len(q) : ~ SameLine(q[j].addr, a)
           /\ Find(q, a) # 0 => /\ Find(q, a) \in 1 .. Len(q)
                                /\ SameLine(q[Find(q, a)].addr, a)
                                /\ \A j \in 1 .. Len(q) : SameLine(q[j].addr, a) => Find(q, a) <= j
<1> DEFINE found == {i \in DOMAIN q : SameLine(q[i].addr, a)}
<1>1. DOMAIN q = 1 .. Len(q) /\ Len(q) \in Nat
  OBVIOUS
<1>2. found \in SUBSET Nat
  BY <1>1
<1>3. CASE found = {}
  <2>1. Find(q, a) = 0
    BY <1>3 DEF Find
  <2> QED
    BY <1>1, <1>3, <2>1
<1>4. CASE found # {}
  <2>1. Find(q, a) = CHOOSE i \in found : \A j \in found : i <= j
    BY <1>4 DEF Find
  <2>2. Find(q, a) \in found /\ \A j \in found : Find(q, a) <= j
    BY <1>2, <1>4, <2>1, ChosenLeast
  <2> QED
    BY <1>1, <2>2
<1> QED
  BY <1>3, <1>4

LEMMA ReplaceAtFields ==
    ASSUME NEW S, NEW q \in Seq(S), NEW i, NEW e \in S
    PROVE  /\ ReplaceAt(q, i, e) \in Seq(S)
           /\ Len(ReplaceAt(q, i, e)) = Len(q)
           /\ \A j \in 1 .. Len(q) : ReplaceAt(q, i, e)[j] = IF j = i THEN e ELSE q[j]
<1>1. Len(q) \in Nat /\ DOMAIN q = 1 .. Len(q) /\ \A j \in 1 .. Len(q) : q[j] \in S
  BY ElementOfSeq
<1>2. ReplaceAt(q, i, e) = [j \in 1 .. Len(q) |-> IF j = i THEN e ELSE q[j]]
  BY <1>1 DEF ReplaceAt
<1>3. \A j \in 1 .. Len(q) : (IF j = i THEN e ELSE q[j]) \in S
  BY <1>1
<1> QED
  BY <1>1, <1>2, <1>3, IsASeq

LEMMA AppendFields ==
    ASSUME NEW S, NEW q \in Seq(S), NEW e \in S
    PROVE  /\ Append(q, e) \in Seq(S)
           /\ Len(Append(q, e)) = Len(q) + 1
           /\ \A j \in 1 .. Len(q) : Append(q, e)[j] = q[j]
           /\ Append(q, e)[Len(q) + 1] = e
BY AppendProperties

LEMMA TailFields ==
    ASSUME NEW S, NEW q \in Seq(S), q # <<>>
    PROVE  /\ Len(q) \in Nat /\ Len(q) >= 1
           /\ Head(q) \in S /\ Head(q) = q[1]
           /\ Tail(q) \in Seq(S)
           /\ Len(Tail(q)) = Len(q) - 1
           /\ \A j \in 1 .. Len(q) - 1 : Tail(q)[j] = q[j + 1]
<1>1. Len(q) \in Nat /\ Len(q) # 0
  BY EmptySeq
<1> QED
  BY <1>1, HeadTailProperties, ElementOfSeq

-----------------------------------------------------------------------------
\* Packets and entries stay what they are through every merge.

LEMMA MergedPacket ==
    ASSUME NEW e \in Packet, NEW p \in Packet
    PROVE  /\ Merge(e, p) \in Packet
           /\ Merge(e, p).addr = e.addr /\ Merge(e, p).type = e.type
           /\ Merge(e, p).fill = e.fill
           /\ Merge(e, p).to_return = e.to_return \cup p.to_return
           /\ Merge(e, p).deps = e.deps \cup p.deps
<1> DEFINE r == e.to_return \cup p.to_return
           d == e.deps \cup p.deps
           f == [e EXCEPT !.to_return = r]
           g == [f EXCEPT !.deps = d]
<1>1. r \in SUBSET Node /\ d \in SUBSET Addr
  <2>1. /\ e.to_return \in SUBSET Node /\ e.deps \in SUBSET Addr
        /\ p.to_return \in SUBSET Node /\ p.deps \in SUBSET Addr
    BY DEF Packet
  <2> QED
    BY <2>1
<1>2. Merge(e, p) = g
  <2>1. f.deps = e.deps
    BY DEF Packet
  <2> QED
    BY <2>1, Zenon DEF Merge
<1> HIDE DEF r, d
<1>3. /\ f \in Packet
      /\ f.addr = e.addr /\ f.type = e.type /\ f.fill = e.fill
      /\ f.to_return = r
  BY <1>1 DEF Packet
<1> HIDE DEF f
<1>4. /\ g \in Packet
      /\ g.addr = f.addr /\ g.type = f.type /\ g.fill = f.fill
      /\ g.to_return = f.to_return /\ g.deps = d
  BY <1>1, <1>3 DEF Packet
<1> QED
  BY <1>2, <1>3, <1>4 DEF r, d

LEMMA MergedEntry ==
    ASSUME NEW e \in MshrEntry, NEW p \in Packet
    PROVE  /\ Merge(e, p) \in MshrEntry
           /\ Merge(e, p).addr = e.addr /\ Merge(e, p).type = e.type
           /\ Merge(e, p).fill = e.fill /\ Merge(e, p).returned = e.returned
           /\ Merge(e, p).to_return = e.to_return \cup p.to_return
           /\ Merge(e, p).deps = e.deps \cup p.deps
<1> DEFINE r == e.to_return \cup p.to_return
           d == e.deps \cup p.deps
           f == [e EXCEPT !.to_return = r]
           g == [f EXCEPT !.deps = d]
<1>1. r \in SUBSET Node /\ d \in SUBSET Addr
  <2>1. /\ e.to_return \in SUBSET Node /\ e.deps \in SUBSET Addr
        /\ p.to_return \in SUBSET Node /\ p.deps \in SUBSET Addr
    BY DEF Packet, MshrEntry
  <2> QED
    BY <2>1
<1>2. Merge(e, p) = g
  <2>1. f.deps = e.deps
    BY DEF MshrEntry
  <2> QED
    BY <2>1, Zenon DEF Merge
<1> HIDE DEF r, d
<1>3. /\ f \in MshrEntry
      /\ f.addr = e.addr /\ f.type = e.type /\ f.fill = e.fill /\ f.returned = e.returned
      /\ f.to_return = r
  BY <1>1 DEF MshrEntry
<1> HIDE DEF f
<1>4. /\ g \in MshrEntry
      /\ g.addr = f.addr /\ g.type = f.type /\ g.fill = f.fill /\ g.returned = f.returned
      /\ g.to_return = f.to_return /\ g.deps = d
  BY <1>1, <1>3 DEF MshrEntry
<1> QED
  BY <1>2, <1>3, <1>4 DEF r, d

LEMMA EntryFields ==
    ASSUME NEW p \in Packet
    PROVE  /\ Entry(p) \in MshrEntry
           /\ Entry(p).addr = p.addr /\ Entry(p).type = p.type /\ Entry(p).fill = p.fill
           /\ Entry(p).to_return = p.to_return /\ Entry(p).deps = p.deps
           /\ Entry(p).returned = FALSE
BY DEF Packet, Entry, MshrEntry

\* A demand takes the place of the prefetch that is in flight.
Replaces(p, e) == e.type = "PREFETCH" /\ p.type # "PREFETCH"

LEMMA CombinedFields ==
    ASSUME NEW e \in MshrEntry, NEW p \in Packet
    PROVE  /\ Combine(e, p) \in MshrEntry
           /\ Combine(e, p).returned = e.returned
           /\ Combine(e, p).addr = IF Replaces(p, e) THEN p.addr ELSE e.addr
           /\ Combine(e, p).type = IF Replaces(p, e) THEN p.type ELSE e.type
           /\ Combine(e, p).to_return = IF Replaces(p, e) THEN p.to_return
                                                        ELSE e.to_return \cup p.to_return
           /\ Combine(e, p).deps = IF Replaces(p, e) THEN p.deps ELSE e.deps \cup p.deps
<1>1. CASE Replaces(p, e)
  <2> DEFINE f == [addr |-> p.addr, type |-> p.type, fill |-> p.fill,
                   to_return |-> p.to_return, deps |-> p.deps, returned |-> e.returned]
  <2>1. Combine(e, p) = f
    BY <1>1, Zenon DEF Combine, Replaces
  <2>2. /\ f \in MshrEntry
        /\ f.addr = p.addr /\ f.type = p.type /\ f.returned = e.returned
        /\ f.to_return = p.to_return /\ f.deps = p.deps
    BY DEF Packet, MshrEntry
  <2> QED
    BY <1>1, <2>1, <2>2
<1>2. CASE ~ Replaces(p, e)
  <2> DEFINE f == Merge(e, p)
             x == Lower(f.fill, p.fill)
             g == [f EXCEPT !.fill = x]
  <2>1. Combine(e, p) = g
    BY <1>2, Zenon DEF Combine, Replaces
  <2>2. f \in MshrEntry
    BY MergedEntry
  <2>3. x \in Nat
    BY <2>2 DEF MshrEntry, Packet, Lower
  <2> HIDE DEF f, x
  <2>4. /\ g \in MshrEntry
        /\ g.addr = f.addr /\ g.type = f.type /\ g.returned = f.returned
        /\ g.to_return = f.to_return /\ g.deps = f.deps
    BY <2>2, <2>3 DEF MshrEntry
  <2>5. /\ f.addr = e.addr /\ f.type = e.type /\ f.returned = e.returned
        /\ f.to_return = e.to_return \cup p.to_return /\ f.deps = e.deps \cup p.deps
    BY MergedEntry DEF f
  <2> QED
    BY <1>2, <2>1, <2>4, <2>5
<1> QED
  BY <1>1, <1>2

LEMMA LoweredFields ==
    ASSUME NEW e \in Packet, NEW n \in Nat
    PROVE  LET f == [e EXCEPT !.fill = Lower(@, n)]
           IN  /\ f \in Packet
               /\ f.addr = e.addr /\ f.type = e.type
               /\ f.fill = Lower(e.fill, n)
               /\ f.to_return = e.to_return /\ f.deps = e.deps
<1>1. Lower(e.fill, n) \in Nat
  BY DEF Packet, Lower
<1> DEFINE x == Lower(e.fill, n)
<1>2. x \in Nat
  BY <1>1
<1> HIDE DEF x
<1>3. LET f == [e EXCEPT !.fill = x]
      IN  /\ f \in Packet
          /\ f.addr = e.addr /\ f.type = e.type
          /\ f.fill = x
          /\ f.to_return = e.to_return /\ f.deps = e.deps
  BY <1>2 DEF Packet
<1> QED
  BY <1>3, Zenon DEF x

\* An entry that the data for its line has reached.
Arrived(e) == [e EXCEPT !.returned = TRUE]

LEMMA ArrivedFields ==
    ASSUME NEW e \in MshrEntry
    PROVE  /\ Arrived(e) \in MshrEntry
           /\ Arrived(e).addr = e.addr /\ Arrived(e).type = e.type
           /\ Arrived(e).fill = e.fill /\ Arrived(e).returned = TRUE
           /\ Arrived(e).to_return = e.to_return /\ Arrived(e).deps = e.deps
BY DEF Arrived, MshrEntry

LEMMA MarkReturnedType ==
    ASSUME NEW q \in Seq(MshrEntry), NEW a
    PROVE  /\ MarkReturned(q, a) \in Seq(MshrEntry)
           /\ Len(MarkReturned(q, a)) = Len(q)
<1> DEFINE i == Find(q, a)
           unreturned == {j \in DOMAIN q : ~ q[j].returned}
           first == CHOOSE j \in unreturned : \A k \in unreturned : j <= k
           once == ReplaceAt(q, i, q[first])
<1>1. CASE i = 0 \/ unreturned = {}
  BY <1>1 DEF MarkReturned
<1>2. CASE i # 0 /\ unreturned # {}
  <2>1. i \in 1 .. Len(q) /\ q[i] \in MshrEntry
    BY <1>2, FindFields, ElementOfSeq
  <2>2. first \in unreturned
    <3>1. unreturned \in SUBSET Nat
      OBVIOUS
    <3> QED
      BY <1>2, <3>1, ChosenLeast
  <2>3. first \in 1 .. Len(q) /\ q[first] \in MshrEntry
    BY <2>2, ElementOfSeq
  <2>4. MarkReturned(q, a) = ReplaceAt(once, first, Arrived(q[i]))
    BY <1>2 DEF MarkReturned, Arrived
  <2> HIDE DEF first, i, unreturned
  <2>5. once \in Seq(MshrEntry) /\ Len(once) = Len(q)
    BY <2>3, ReplaceAtFields
  <2>6. Arrived(q[i]) \in MshrEntry
    BY <2>1, ArrivedFields
  <2> QED
    BY <2>4, <2>5, <2>6, ReplaceAtFields
<1> QED
  BY <1>1, <1>2

-----------------------------------------------------------------------------
\* Queues keep their type and their bounds.

LEMMA LevelsDiffer ==
    ASSUME NEW c \in Cache
    PROVE  Below[c] \in Cache \cup {Memory} /\ Below[c] # c
BY TopologyAssumption

LEMMA SizesAreNaturals ==
    /\ \A c \in Cache : /\ Ways[c] \in Nat \ {0} /\ MSHR_SIZE[c] \in Nat \ {0}
                        /\ RQ_SIZE[c] \in Nat \ {0} /\ WQ_SIZE[c] \in Nat \ {0}
                        /\ PQ_SIZE[c] \in Nat \ {0}
    /\ MEM_RQ_SIZE \in Nat \ {0} /\ MEM_WQ_SIZE \in Nat \ {0} /\ MaxRequests \in Nat \ {0}
BY SizeAssumption

LEMMA SizesAreFunctions ==
    /\ Ways \in [Cache -> Nat \ {0}] /\ MSHR_SIZE \in [Cache -> Nat \ {0}]
    /\ RQ_SIZE \in [Cache -> Nat \ {0}] /\ WQ_SIZE \in [Cache -> Nat \ {0}]
    /\ PQ_SIZE \in [Cache -> Nat \ {0}]
BY SizeAssumption

LEMMA QueueChanged ==
    ASSUME NEW S, NEW size \in [Cache -> Nat \ {0}], NEW r, Queues(r, size, S),
           NEW c \in Cache, NEW l \in Seq(S), Len(l) <= size[c]
    PROVE  Queues([r EXCEPT ![c] = l], size, S)
BY DEF Queues

LEMMA QueueShortened ==
    ASSUME NEW S, NEW size \in [Cache -> Nat \ {0}], NEW r, Queues(r, size, S),
           NEW c \in Cache, r[c] # <<>>
    PROVE  Queues([r EXCEPT ![c] = Tail(@)], size, S) /\ Head(r[c]) \in S
<1>1. r[c] \in Seq(S) /\ Len(r[c]) <= size[c] /\ size[c] \in Nat
  BY DEF Queues
<1>2. Tail(r[c]) \in Seq(S) /\ Len(Tail(r[c])) <= size[c] /\ Head(r[c]) \in S
  BY <1>1, TailFields
<1> QED
  BY <1>2, QueueChanged

LEMMA QueueExtended ==
    ASSUME NEW S, NEW size \in [Cache -> Nat \ {0}], NEW r, Queues(r, size, S),
           NEW c \in Cache, NEW e \in S, Len(r[c]) # size[c]
    PROVE  Queues([r EXCEPT ![c] = Append(@, e)], size, S)
<1>1. r[c] \in Seq(S) /\ Len(r[c]) <= size[c] /\ size[c] \in Nat /\ Len(r[c]) \in Nat
  BY DEF Queues
<1>2. Append(r[c], e) \in Seq(S) /\ Len(Append(r[c], e)) <= size[c]
  BY <1>1, AppendFields
<1> QED
  BY <1>2, QueueChanged

LEMMA JoinRQType ==
    ASSUME NEW r, Queues(r, RQ_SIZE, Packet), NEW c \in Cache, NEW p \in Packet
    PROVE  Queues([r EXCEPT ![c] = JoinRQ(c, @, p)], RQ_SIZE, Packet)
<1> DEFINE q == r[c]
           i == Find(q, p.addr)
<1>1. q \in Seq(Packet) /\ Len(q) <= RQ_SIZE[c] /\ RQ_SIZE[c] \in Nat /\ Len(q) \in Nat
  BY SizesAreNaturals DEF Queues
<1> HIDE DEF q
<1>2. JoinRQ(c, q, p) \in Seq(Packet) /\ Len(JoinRQ(c, q, p)) <= RQ_SIZE[c]
  <2>1. CASE i # 0
    <3>1. q[i] \in Packet
      BY <1>1, <2>1, FindFields, ElementOfSeq
    <3>2. Merge(q[i], p) \in Packet
      BY <3>1, MergedPacket
    <3>3. JoinRQ(c, q, p) = ReplaceAt(q, i, Merge(q[i], p))
      BY <2>1 DEF JoinRQ
    <3> QED
      BY <1>1, <3>2, <3>3, ReplaceAtFields
  <2>2. CASE i = 0 /\ Len(q) < RQ_SIZE[c]
    <3>1. JoinRQ(c, q, p) = Append(q, p)
      BY <2>2 DEF JoinRQ
    <3> QED
      BY <1>1, <2>2, <3>1, AppendFields
  <2>3. CASE i = 0 /\ ~ Len(q) < RQ_SIZE[c]
    BY <1>1, <2>3 DEF JoinRQ
  <2> QED
    BY <2>1, <2>2, <2>3
<1> QED
  BY <1>2, QueueChanged, SizeAssumption DEF q

LEMMA JoinPQType ==
    ASSUME NEW r, Queues(r, PQ_SIZE, Packet), NEW c \in Cache, NEW p \in Packet
    PROVE  Queues([r EXCEPT ![c] = JoinPQ(c, @, p)], PQ_SIZE, Packet)
<1> DEFINE q == r[c]
           i == Find(q, p.addr)
           e == [Merge(q[i], p) EXCEPT !.fill = Lower(@, p.fill)]
<1>1. q \in Seq(Packet) /\ Len(q) <= PQ_SIZE[c] /\ PQ_SIZE[c] \in Nat /\ Len(q) \in Nat
  BY SizesAreNaturals DEF Queues
<1> HIDE DEF q
<1>2. JoinPQ(c, q, p) \in Seq(Packet) /\ Len(JoinPQ(c, q, p)) <= PQ_SIZE[c]
  <2>1. CASE i # 0
    <3>1. q[i] \in Packet
      BY <1>1, <2>1, FindFields, ElementOfSeq
    <3>2. Merge(q[i], p) \in Packet
      BY <3>1, MergedPacket
    <3>3. e \in Packet
      BY <3>2, LoweredFields DEF Packet
    <3>4. JoinPQ(c, q, p) = ReplaceAt(q, i, e)
      BY <2>1 DEF JoinPQ
    <3> HIDE DEF e
    <3> QED
      BY <1>1, <3>3, <3>4, ReplaceAtFields
  <2>2. CASE i = 0 /\ Len(q) < PQ_SIZE[c]
    <3>1. JoinPQ(c, q, p) = Append(q, p)
      BY <2>2 DEF JoinPQ
    <3> QED
      BY <1>1, <2>2, <3>1, AppendFields
  <2>3. CASE i = 0 /\ ~ Len(q) < PQ_SIZE[c]
    BY <1>1, <2>3 DEF JoinPQ
  <2> QED
    BY <2>1, <2>2, <2>3
<1> QED
  BY <1>2, QueueChanged, SizeAssumption DEF q

LEMMA ReturnType ==
    ASSUME NEW m, Queues(m, MSHR_SIZE, MshrEntry), NEW p
    PROVE  Queues(Return(m, p), MSHR_SIZE, MshrEntry)
<1>1. ASSUME NEW c \in Cache
      PROVE  Return(m, p)[c] \in Seq(MshrEntry) /\ Len(Return(m, p)[c]) <= MSHR_SIZE[c]
  <2>1. m[c] \in Seq(MshrEntry) /\ Len(m[c]) <= MSHR_SIZE[c]
    BY DEF Queues
  <2>2. Return(m, p)[c] = IF c \in p.to_return THEN MarkReturned(m[c], p.addr) ELSE m[c]
    BY DEF Return
  <2> QED
    BY <2>1, <2>2, MarkReturnedType
<1>2. Return(m, p) = [c \in Cache |-> Return(m, p)[c]]
  BY DEF Return
<1> QED
  BY <1>1, <1>2 DEF Queues

LEMMA AnswerType ==
    ASSUME pending \in [Client -> SUBSET Addr], NEW p
    PROVE  Answer(p) \in [Client -> SUBSET Addr]
BY DEF Answer

\* Merging into the packets of a set makes it no larger.
LEMMA JoinMemRQType ==
    ASSUME MemoryReads(memRQ), NEW p \in Packet
    PROVE  MemoryReads(JoinMemRQ(p))
<1> DEFINE same == {e \in memRQ : SameLine(e.addr, p.addr)}
           merged == {Merge(e, p) : e \in same}
<1>1. memRQ \subseteq Packet /\ IsFiniteSet(memRQ) /\ Cardinality(memRQ) <= MEM_RQ_SIZE
  BY DEF MemoryReads, AtMost
<1>2. /\ MEM_RQ_SIZE \in Nat /\ Cardinality(memRQ) \in Nat
  BY <1>1, SizesAreNaturals, FS_CardinalityType
<1>3. CASE same # {}
  <2> DEFINE f == [e \in memRQ |-> IF e \in same THEN Merge(e, p) ELSE e]
             joined == (memRQ \ same) \cup merged
  <2>1. f \in Surjection(memRQ, joined)
    <3>1. f \in [memRQ -> joined]
      OBVIOUS
    <3>2. \A x \in joined : \E e \in memRQ : f[e] = x
      OBVIOUS
    <3> QED
      BY <3>1, <3>2 DEF Surjection
  <2>2. IsFiniteSet(joined) /\ Cardinality(joined) <= Cardinality(memRQ)
    BY <1>1, <2>1, FS_Surjection
  <2>3. Cardinality(joined) <= MEM_RQ_SIZE
    BY <1>1, <1>2, <2>2, FS_CardinalityType
  <2>4. merged \subseteq Packet
    BY <1>1, MergedPacket
  <2>5. JoinMemRQ(p) = joined
    BY <1>3 DEF JoinMemRQ
  <2> QED
    BY <1>1, <2>2, <2>3, <2>4, <2>5 DEF MemoryReads, AtMost
<1>4. CASE same = {} /\ Cardinality(memRQ) < MEM_RQ_SIZE
  <2>1. JoinMemRQ(p) = memRQ \cup {p}
    BY <1>4 DEF JoinMemRQ
  <2>2. IsFiniteSet(memRQ \cup {p}) /\ Cardinality(memRQ \cup {p}) <= Cardinality(memRQ) + 1
    BY <1>1, <1>2, FS_AddElement
  <2>3. Cardinality(memRQ \cup {p}) \in Nat
    BY <2>2, FS_CardinalityType
  <2> QED
    BY <1>1, <1>2, <1>4, <2>1, <2>2, <2>3 DEF MemoryReads, AtMost
<1>5. CASE same = {} /\ ~ Cardinality(memRQ) < MEM_RQ_SIZE
  BY <1>5 DEF JoinMemRQ
<1> QED
  BY <1>3, <1>4, <1>5

-----------------------------------------------------------------------------
\* What the handlers are built from keeps the types.

LEMMA ForwardType ==
    ASSUME NEW p, NEW r, NEW q, NEW m, Requests(r, q, m, memRQ, pending), Forward(p, r, q, m)
    PROVE  Requests(rq', pq', mshr', memRQ', pending')
<1>1. rq' = r /\ pq' = q /\ mshr' = Return(m, p) /\ pending' = Answer(p) /\ memRQ' = memRQ
  BY DEF Forward
<1> QED
  BY <1>1, ReturnType, AnswerType DEF Requests

LEMMA AddRQType ==
    ASSUME NEW c \in Cache, NEW p \in Packet, NEW r, NEW q, NEW m,
           Requests(r, q, m, memRQ, pending), AddRQ(c, p, r, q, m)
    PROVE  Requests(rq', pq', mshr', memRQ', pending')
<1>1. CASE InWQ(c, p.addr)
  BY <1>1, ForwardType DEF AddRQ
<1>2. CASE ~ InWQ(c, p.addr)
  <2>1. /\ rq' = [r EXCEPT ![c] = JoinRQ(c, @, p)]
        /\ pq' = q /\ mshr' = m /\ memRQ' = memRQ /\ pending' = pending
    BY <1>2 DEF AddRQ
  <2> QED
    BY <2>1, JoinRQType DEF Requests
<1> QED
  BY <1>1, <1>2

LEMMA AddPQType ==
    ASSUME NEW c \in Cache, NEW p \in Packet, NEW r, NEW q, NEW m,
           Requests(r, q, m, memRQ, pending), AddPQ(c, p, r, q, m)
    PROVE  Requests(rq', pq', mshr', memRQ', pending')
<1>1. CASE InWQ(c, p.addr)
  BY <1>1, ForwardType DEF AddPQ
<1>2. CASE ~ InWQ(c, p.addr)
  <2>1. /\ pq' = [q EXCEPT ![c] = JoinPQ(c, @, p)]
        /\ rq' = r /\ mshr' = m /\ memRQ' = memRQ /\ pending' = pending
    BY <1>2 DEF AddPQ
  <2> QED
    BY <2>1, JoinPQType DEF Requests
<1> QED
  BY <1>1, <1>2

LEMMA MemoryAddType ==
    ASSUME NEW p \in Packet, NEW r, NEW q, NEW m,
           Requests(r, q, m, memRQ, pending), MemoryAdd(p, r, q, m)
    PROVE  Requests(rq', pq', mshr', memRQ', pending')
<1>1. CASE fastForward \/ LineOf[p.addr] \in memWQ
  BY <1>1, ForwardType DEF MemoryAdd
<1>2. CASE ~ (fastForward \/ LineOf[p.addr] \in memWQ)
  <2>1. rq' = r /\ pq' = q /\ mshr' = m /\ memRQ' = JoinMemRQ(p) /\ pending' = pending
    BY <1>2 DEF MemoryAdd
  <2> QED
    BY <2>1, JoinMemRQType DEF Requests
<1> QED
  BY <1>1, <1>2

\* The packet that asks the level below, and whether the entry is kept.
Keeps(c, p) == p.fill <= FillLevel[c]

AskedOf(c, p) == [p EXCEPT !.to_return = IF Keeps(c, p) THEN {c} ELSE {}, !.deps = {}]

Reserved(c, p) == IF Keeps(c, p) THEN [mshr EXCEPT ![c] = Append(@, Entry(p))] ELSE mshr

LEMMA AskedFields ==
    ASSUME NEW c \in Cache, NEW p \in Packet
    PROVE  /\ AskedOf(c, p) \in Packet
           /\ AskedOf(c, p).addr = p.addr /\ AskedOf(c, p).type = p.type
           /\ AskedOf(c, p).fill = p.fill
           /\ AskedOf(c, p).to_return = IF Keeps(c, p) THEN {c} ELSE {}
           /\ AskedOf(c, p).deps = {}
<1> DEFINE r == IF Keeps(c, p) THEN {c} ELSE {}
           d == {}
           f == [p EXCEPT !.to_return = r]
           g == [f EXCEPT !.deps = d]
<1>1. r \in SUBSET Node /\ d \in SUBSET Addr
  BY DEF Node
<1>2. AskedOf(c, p) = g
  BY Zenon DEF AskedOf
<1> HIDE DEF r, d
<1>3. /\ f \in Packet
      /\ f.addr = p.addr /\ f.type = p.type /\ f.fill = p.fill /\ f.to_return = r
  BY <1>1 DEF Packet
<1> HIDE DEF f
<1>4. /\ g \in Packet
      /\ g.addr = f.addr /\ g.type = f.type /\ g.fill = f.fill
      /\ g.to_return = f.to_return /\ g.deps = d
  BY <1>1, <1>3 DEF Packet
<1> QED
  BY <1>2, <1>3, <1>4 DEF r, d

\* AskBelow by the queue it asks.
LEMMA AskBelowCases ==
    ASSUME NEW c, NEW p, NEW r, NEW q, AskBelow(c, p, r, q)
    PROVE  /\ Find(mshr[c], p.addr) = 0
           /\ Len(mshr[c]) # MSHR_SIZE[c]
           /\ \/ /\ Below[c] = Memory
                 /\ Cardinality(memRQ) # MEM_RQ_SIZE
                 /\ MemoryAdd(AskedOf(c, p), r, q, Reserved(c, p))
              \/ /\ Below[c] # Memory
                 /\ c \in PrefetchAsLoad \/ p.type # "PREFETCH"
                 /\ Len(rq[Below[c]]) # RQ_SIZE[Below[c]]
                 /\ AddRQ(Below[c], AskedOf(c, p), r, q, Reserved(c, p))
              \/ /\ Below[c] # Memory
                 /\ p.type = "PREFETCH"
                 /\ Len(pq[Below[c]]) # PQ_SIZE[Below[c]]
                 /\ AddPQ(Below[c], AskedOf(c, p), r, q, Reserved(c, p))
BY Zenon DEF AskBelow, FullBelow, MSHRFull, AskedOf, Reserved, Keeps

LEMMA ReservedType ==
    ASSUME NEW c \in Cache, NEW p \in Packet, NEW r, NEW q,
           Requests(r, q, mshr, memRQ, pending), Len(mshr[c]) # MSHR_SIZE[c]
    PROVE  Requests(r, q, Reserved(c, p), memRQ, pending)
<1>1. CASE Keeps(c, p)
  <2>1. Reserved(c, p) = [mshr EXCEPT ![c] = Append(@, Entry(p))]
    BY <1>1 DEF Reserved
  <2>2. Entry(p) \in MshrEntry
    BY EntryFields
  <2>3. Queues(mshr, MSHR_SIZE, MshrEntry)
    BY DEF Requests
  <2>4. Queues([mshr EXCEPT ![c] = Append(@, Entry(p))], MSHR_SIZE, MshrEntry)
    BY <2>2, <2>3, SizesAreFunctions, QueueExtended
  <2> QED
    BY <2>1, <2>4 DEF Requests
<1>2. CASE ~ Keeps(c, p)
  BY <1>2 DEF Reserved
<1> QED
  BY <1>1, <1>2

LEMMA MissType ==
    ASSUME NEW c \in Cache, NEW p \in Packet, NEW r, NEW q,
           Requests(r, q, mshr, memRQ, pending), ReadlikeMiss(c, p, r, q)
    PROVE  Requests(rq', pq', mshr', memRQ', pending')
<1>1. CASE JoinMSHR(c, p, r, q)
  <2> DEFINE i == Find(mshr[c], p.addr)
             l == ReplaceAt(mshr[c], i, Combine(mshr[c][i], p))
  <2>1. /\ i # 0 /\ mshr' = [mshr EXCEPT ![c] = l]
        /\ rq' = r /\ pq' = q /\ memRQ' = memRQ /\ pending' = pending
    BY <1>1 DEF JoinMSHR
  <2>2. mshr[c] \in Seq(MshrEntry) /\ Len(mshr[c]) <= MSHR_SIZE[c]
    BY DEF Requests, Queues
  <2>3. mshr[c][i] \in MshrEntry
    BY <2>1, <2>2, FindFields, ElementOfSeq
  <2>4. Combine(mshr[c][i], p) \in MshrEntry
    BY <2>3, CombinedFields
  <2>5. l \in Seq(MshrEntry) /\ Len(l) = Len(mshr[c])
    BY <2>2, <2>4, ReplaceAtFields
  <2> HIDE DEF l
  <2> QED
    BY <2>1, <2>2, <2>5, QueueChanged, SizeAssumption DEF Requests
<1>2. CASE AskBelow(c, p, r, q)
  <2>1. Requests(r, q, Reserved(c, p), memRQ, pending)
    BY <1>2, AskBelowCases, ReservedType
  <2>2. AskedOf(c, p) \in Packet
    BY AskedFields
  <2>3. Below[c] # Memory => Below[c] \in Cache
    BY LevelsDiffer
  <2> QED
    BY <1>2, <2>1, <2>2, <2>3, AskBelowCases, MemoryAddType, AddRQType, AddPQType
<1> QED
  BY <1>1, <1>2 DEF ReadlikeMiss

LEMMA HitType ==
    ASSUME NEW p, NEW r, NEW q, Requests(r, q, mshr, memRQ, pending), ReadlikeHit(p, r, q)
    PROVE  Requests(rq', pq', mshr', memRQ', pending')
<1>1. /\ rq' = r /\ pq' = q /\ mshr' = Return(mshr, p) /\ pending' = Answer(p)
      /\ memRQ' = memRQ
  BY DEF ReadlikeHit
<1> QED
  BY <1>1, ReturnType, AnswerType DEF Requests

LEMMA WriteBelowType ==
    ASSUME NEW c \in Cache, NEW a \in Addr, NEW w, Queues(w, WQ_SIZE, Packet),
           \A b \in Cache : b # c => w[b] = wq[b],
           MemoryWrites(memWQ), WriteBelow(c, a, w)
    PROVE  Queues(wq', WQ_SIZE, Packet) /\ MemoryWrites(memWQ')
<1> DEFINE p == [addr |-> a, type |-> "WRITEBACK", fill |-> FillLevel[Below[c]],
                 to_return |-> {}, deps |-> {}]
<1>1. CASE Below[c] = Memory
  <2>1. /\ fastForward \/ LineOf[a] \in memWQ \/ Cardinality(memWQ) < MEM_WQ_SIZE
        /\ memWQ' = IF fastForward THEN memWQ ELSE memWQ \cup {LineOf[a]}
        /\ wq' = w
    BY <1>1 DEF WriteBelow
  <2>2. MemoryWrites(memWQ \cup {LineOf[a]}) \/ fastForward
    <3>1. CASE LineOf[a] \in memWQ
      <4>1. memWQ \cup {LineOf[a]} = memWQ
        BY <3>1
      <4> QED
        BY <4>1
    <3>2. CASE LineOf[a] \notin memWQ /\ Cardinality(memWQ) < MEM_WQ_SIZE
      <4>1. IsFiniteSet(memWQ \cup {LineOf[a]})
            /\ Cardinality(memWQ \cup {LineOf[a]}) = Cardinality(memWQ) + 1
        BY <3>2, FS_AddElement DEF MemoryWrites, AtMost
      <4>2. Cardinality(memWQ) \in Nat /\ MEM_WQ_SIZE \in Nat
        BY FS_CardinalityType, SizesAreNaturals DEF MemoryWrites, AtMost
      <4> QED
        BY <3>2, <4>1, <4>2 DEF MemoryWrites, AtMost, Line
    <3> QED
      BY <2>1, <3>1, <3>2
  <2> QED
    BY <2>1, <2>2
<1>2. CASE Below[c] # Memory
  <2>1. Below[c] \in Cache /\ Below[c] # c
    BY <1>2, LevelsDiffer
  <2>2. /\ memWQ' = memWQ
        /\ \/ wq' = w
           \/ /\ Len(wq[Below[c]]) < WQ_SIZE[Below[c]]
              /\ wq' = [w EXCEPT ![Below[c]] = Append(@, p)]
    BY <1>2 DEF WriteBelow
  <2>3. p \in Packet
    BY <2>1, TopologyAssumption DEF Packet, Type
  <2>4. w[Below[c]] = wq[Below[c]]
    BY <2>1
  <2>5. Len(wq[Below[c]]) < WQ_SIZE[Below[c]] => Len(w[Below[c]]) # WQ_SIZE[Below[c]]
    BY <2>1, <2>4, SizesAreNaturals DEF Queues
  <2> HIDE DEF p
  <2>6. Len(wq[Below[c]]) < WQ_SIZE[Below[c]]
            => Queues([w EXCEPT ![Below[c]] = Append(@, p)], WQ_SIZE, Packet)
    BY <2>1, <2>3, <2>5, SizesAreFunctions, QueueExtended
  <2> QED
    BY <2>2, <2>6
<1> QED
  BY <1>1, <1>2

LEMMA BlockChanged ==
    ASSUME NEW b, Blocks(b), NEW c \in Cache, NEW s \in Sets, NEW v \in 1 .. Ways[c], NEW e \in Block
    PROVE  LET n == [b EXCEPT ![c][s][v] = e]
           IN  /\ Blocks(n)
               /\ n[c][s][v] = e
               /\ \A d \in Cache, t \in Sets : \A u \in 1 .. Ways[d] :
                     ~ (d = c /\ t = s /\ u = v) => n[d][t][u] = b[d][t][u]
<1> DEFINE row == [b[c][s] EXCEPT ![v] = e]
           cache == [b[c] EXCEPT ![s] = row]
           n == [b EXCEPT ![c] = cache]
<1>1. /\ b[c][s] \in [1 .. Ways[c] -> Block]
      /\ DOMAIN b = Cache /\ DOMAIN b[c] = Sets
  BY DEF Blocks
<1>2. row \in [1 .. Ways[c] -> Block] /\ row[v] = e /\ \A u \in 1 .. Ways[c] : u # v => row[u] = b[c][s][u]
  BY <1>1
<1> HIDE DEF row
<1>3. DOMAIN cache = Sets /\ cache[s] = row /\ \A t \in Sets : t # s => cache[t] = b[c][t]
  BY <1>1
<1>4. cache = [t \in Sets |-> cache[t]]
  BY <1>1
<1> HIDE DEF cache
<1>5. /\ n[c] = cache /\ \A d \in Cache : d # c => n[d] = b[d]
      /\ n = [d \in Cache |-> n[d]]
  BY <1>1
<1>6. n = [b EXCEPT ![c][s][v] = e]
  BY <1>1 DEF cache, row
<1> HIDE DEF n
<1>7. \A d \in Cache, t \in Sets : n[d][t] = IF d = c /\ t = s THEN row ELSE b[d][t]
  BY <1>3, <1>5
<1>8. \A d \in Cache, t \in Sets : n[d][t] \in [1 .. Ways[d] -> Block]
  BY <1>2, <1>7 DEF Blocks
<1>9. n = [d \in Cache |-> [t \in Sets |-> n[d][t]]]
  <2>1. \A d \in Cache : n[d] = [t \in Sets |-> n[d][t]]
    BY <1>4, <1>5 DEF Blocks
  <2> QED
    BY <1>5, <2>1
<1>10. Blocks(n)
  BY <1>8, <1>9 DEF Blocks
<1>11. n[c][s][v] = e
  BY <1>2, <1>7
<1>12. \A d \in Cache, t \in Sets : \A u \in 1 .. Ways[d] :
          ~ (d = c /\ t = s /\ u = v) => n[d][t][u] = b[d][t][u]
  BY <1>2, <1>7
<1> QED
  BY <1>6, <1>10, <1>11, <1>12

\* The block that a miss fills.
Filled(p) == [addr |-> p.addr,
              dirty |-> p.type = "WRITEBACK" \/ (p.type = "RFO" /\ p.to_return = {})]

SetFor(c, a) == SetOf[c][LineOf[a]]

LEMMA SetForType ==
    ASSUME NEW c \in Cache, NEW a \in Addr
    PROVE  LineOf[a] \in Line /\ SetFor(c, a) \in Sets
<1>1. LineOf[a] \in Line
  BY DEF Line
<1> QED
  BY <1>1, AddressAssumption DEF SetFor

LEMMA FirstWayType ==
    ASSUME NEW n \in Nat, NEW W \in SUBSET (1 .. n), W # {}
    PROVE  FirstWay(W) \in W
<1>1. W \in SUBSET Nat
  OBVIOUS
<1> QED
  BY <1>1, ChosenLeast DEF FirstWay

\* What filllike_miss does to the blocks: it fills one way, and writes what was
\* dirty there below, or it leaves them alone.
LEMMA FillCases ==
    ASSUME NEW c \in Cache, NEW p, p.addr \in Addr, NEW w, Blocks(block), FilllikeMiss(c, p, w)
    PROVE  \/ \E v \in 1 .. Ways[c] :
                 /\ block' = [block EXCEPT ![c][SetFor(c, p.addr)][v] = Filled(p)]
                 /\ block[c][SetFor(c, p.addr)][v] \in Block
                 /\ \/ /\ block[c][SetFor(c, p.addr)][v].dirty
                       /\ WriteBelow(c, block[c][SetFor(c, p.addr)][v].addr, w)
                    \/ /\ ~ block[c][SetFor(c, p.addr)][v].dirty
                       /\ wq' = w /\ memWQ' = memWQ
           \/ /\ block' = block /\ wq' = w /\ memWQ' = memWQ
              /\ p.type # "WRITEBACK"
<1> DEFINE s == SetFor(c, p.addr)
           invalid == {v \in 1 .. Ways[c] : block[c][s][v] = Invalid}
<1>1. s \in Sets
  BY SetForType
<1>2. CASE /\ invalid = {} /\ c \in Bypassing /\ p.type # "WRITEBACK"
           /\ wq' = w /\ UNCHANGED <<block, memWQ>>
  BY <1>2
<1>3. CASE \E v \in IF invalid # {} THEN {FirstWay(invalid)} ELSE 1 .. Ways[c] :
              /\ block' = [block EXCEPT ![c][s][v] = Filled(p)]
              /\ IF block[c][s][v].dirty THEN WriteBelow(c, block[c][s][v].addr, w)
                                         ELSE wq' = w /\ UNCHANGED memWQ
  <2>1. PICK v \in IF invalid # {} THEN {FirstWay(invalid)} ELSE 1 .. Ways[c] :
              /\ block' = [block EXCEPT ![c][s][v] = Filled(p)]
              /\ IF block[c][s][v].dirty THEN WriteBelow(c, block[c][s][v].addr, w)
                                         ELSE wq' = w /\ UNCHANGED memWQ
    BY <1>3
  <2>2. v \in 1 .. Ways[c]
    <3>1. Ways[c] \in Nat /\ invalid \in SUBSET (1 .. Ways[c])
      BY SizesAreNaturals
    <3>2. invalid # {} => FirstWay(invalid) \in invalid
      BY <3>1, FirstWayType
    <3> QED
      BY <3>2
  <2>3. block[c][s][v] \in Block
    BY <1>1, <2>2, ZenonT(60) DEF Blocks
  <2> QED
    BY <2>1, <2>2, <2>3
<1> QED
  BY <1>2, <1>3, Zenon DEF FilllikeMiss, SetFor, Filled

LEMMA DirtyBlocksAreValid ==
    ASSUME NEW b \in Block, b.dirty
    PROVE  b # Invalid /\ b.addr \in Addr
BY DEF Block, Invalid

LEMMA FillType ==
    ASSUME NEW c \in Cache, NEW p, p.addr \in Addr, NEW w, Queues(w, WQ_SIZE, Packet),
           \A b \in Cache : b # c => w[b] = wq[b],
           Blocks(block), MemoryWrites(memWQ), FilllikeMiss(c, p, w)
    PROVE  Queues(wq', WQ_SIZE, Packet) /\ MemoryWrites(memWQ') /\ Blocks(block')
<1>1. Filled(p) \in Block
  BY DEF Filled, Block
<1>2. SetFor(c, p.addr) \in Sets
  BY SetForType
<1>3. ASSUME NEW v \in 1 .. Ways[c], block' = [block EXCEPT ![c][SetFor(c, p.addr)][v] = Filled(p)]
      PROVE  Blocks(block')
  BY <1>1, <1>2, <1>3, BlockChanged
<1>4. CASE block' = block /\ wq' = w /\ memWQ' = memWQ
  BY <1>4
<1>5. ASSUME NEW v \in 1 .. Ways[c],
             block' = [block EXCEPT ![c][SetFor(c, p.addr)][v] = Filled(p)],
             block[c][SetFor(c, p.addr)][v] \in Block,
             block[c][SetFor(c, p.addr)][v].dirty,
             WriteBelow(c, block[c][SetFor(c, p.addr)][v].addr, w)
      PROVE  Queues(wq', WQ_SIZE, Packet) /\ MemoryWrites(memWQ') /\ Blocks(block')
  <2>1. block[c][SetFor(c, p.addr)][v].addr \in Addr
    BY <1>5, DirtyBlocksAreValid
  <2> QED
    BY <1>3, <1>5, <2>1, WriteBelowType
<1>6. ASSUME NEW v \in 1 .. Ways[c],
             block' = [block EXCEPT ![c][SetFor(c, p.addr)][v] = Filled(p)],
             wq' = w, memWQ' = memWQ
      PROVE  Queues(wq', WQ_SIZE, Packet) /\ MemoryWrites(memWQ') /\ Blocks(block')
  BY <1>3, <1>6
<1> QED
  BY <1>4, <1>5, <1>6, FillCases

-----------------------------------------------------------------------------
\* Every step keeps the types.

LEMMA InitTypeInv == Init => TypeInv
<1> SUFFICES ASSUME Init PROVE TypeInv
  OBVIOUS
<1>1. <<>> \in Seq(Packet) /\ <<>> \in Seq(MshrEntry) /\ Len(<<>>) = 0
  OBVIOUS
<1>2. /\ Queues(rq, RQ_SIZE, Packet) /\ Queues(wq, WQ_SIZE, Packet)
      /\ Queues(pq, PQ_SIZE, Packet) /\ Queues(mshr, MSHR_SIZE, MshrEntry)
  BY <1>1, SizesAreNaturals DEF Init, Queues
<1>3. Blocks(block)
  BY DEF Init, Blocks, Block
<1>4. MemoryReads(memRQ) /\ MemoryWrites(memWQ)
  <2>1. IsFiniteSet({}) /\ Cardinality({}) = 0
    BY FS_EmptySet
  <2> QED
    BY <2>1, SizesAreNaturals DEF Init, MemoryReads, MemoryWrites, AtMost
<1>5. /\ pending \in [Client -> SUBSET Addr] /\ fastForward \in BOOLEAN
      /\ requests \in 0 .. MaxRequests
  BY SizesAreNaturals DEF Init
<1> QED
  BY <1>2, <1>3, <1>4, <1>5 DEF TypeInv, Requests

LEMMA FillStepType ==
    ASSUME TypeInv, NEW c \in Cache, HandleFill(c)
    PROVE  TypeInv'
<1> DEFINE e == Head(mshr[c])
           m == Return(mshr, e)
<1>1. /\ mshr[c] # <<>> /\ FilllikeMiss(c, e, wq)
      /\ mshr' = [m EXCEPT ![c] = Tail(mshr[c])] /\ pending' = Answer(e)
      /\ UNCHANGED <<rq, pq, memRQ, fastForward, requests>>
  BY DEF HandleFill
<1>2. mshr[c] \in Seq(MshrEntry) /\ Len(mshr[c]) <= MSHR_SIZE[c]
  BY DEF TypeInv, Requests, Queues
<1>3. e \in MshrEntry /\ Tail(mshr[c]) \in Seq(MshrEntry) /\ Len(Tail(mshr[c])) <= MSHR_SIZE[c]
  BY <1>1, <1>2, TailFields, SizesAreNaturals
<1>4. Queues(m, MSHR_SIZE, MshrEntry)
  BY ReturnType DEF TypeInv, Requests
<1>5. pending' \in [Client -> SUBSET Addr]
  BY <1>1, AnswerType DEF TypeInv, Requests
<1>6. Queues(wq', WQ_SIZE, Packet) /\ MemoryWrites(memWQ') /\ Blocks(block')
  <2>1. e.addr \in Addr
    BY <1>3 DEF MshrEntry
  <2> HIDE DEF e
  <2> QED
    BY <1>1, <2>1, FillType DEF TypeInv
<1> HIDE DEF e, m
<1>7. Queues(mshr', MSHR_SIZE, MshrEntry)
  BY <1>1, <1>3, <1>4, QueueChanged, SizesAreFunctions
<1> QED
  BY <1>1, <1>5, <1>6, <1>7 DEF TypeInv, Requests

\* What handle_writeback may do with the first packet of the WQ.
LEMMA WritebackCases ==
    ASSUME NEW c, HandleWriteback(c)
    PROVE  LET p == Head(wq[c])
               w == [wq EXCEPT ![c] = Tail(@)]
           IN  /\ wq[c] # <<>>
               /\ fastForward' = fastForward /\ requests' = requests
               /\ \/ /\ Hits(c, p.addr)
                     /\ block' = [block EXCEPT ![c][SetFor(c, p.addr)]
                                               [FirstWay(WaysHolding(c, p.addr))].dirty = TRUE]
                     /\ wq' = w
                     /\ UNCHANGED <<rq, pq, mshr, memRQ, memWQ, pending>>
                  \/ /\ ~ Hits(c, p.addr) /\ p.type = "RFO" /\ p.to_return = {}
                     /\ ReadlikeMiss(c, p, rq, pq)
                     /\ wq' = w
                     /\ UNCHANGED <<block, memWQ>>
                  \/ /\ ~ Hits(c, p.addr)
                     /\ FilllikeMiss(c, p, w)
                     /\ UNCHANGED <<rq, pq, mshr, memRQ, pending>>
BY Zenon DEF HandleWriteback, SetFor

\* A hit of the WQ makes one block of its line dirty.
LEMMA WritebackHit ==
    ASSUME NEW c \in Cache, NEW a \in Addr, Blocks(block), Hits(c, a),
           block' = [block EXCEPT ![c][SetFor(c, a)][FirstWay(WaysHolding(c, a))].dirty = TRUE]
    PROVE  \E v \in 1 .. Ways[c] :
              /\ block[c][SetFor(c, a)][v] \in Block /\ block[c][SetFor(c, a)][v] # Invalid
              /\ SameLine(block[c][SetFor(c, a)][v].addr, a)
              /\ block' = [block EXCEPT ![c][SetFor(c, a)][v] =
                              [addr |-> block[c][SetFor(c, a)][v].addr, dirty |-> TRUE]]
              /\ [addr |-> block[c][SetFor(c, a)][v].addr, dirty |-> TRUE] \in Block
<1> DEFINE s == SetFor(c, a)
           v == FirstWay(WaysHolding(c, a))
           b == block[c][s][v]
<1>1. s \in Sets
  BY SetForType
<1>2. v \in WaysHolding(c, a)
  <2>1. WaysHolding(c, a) \in SUBSET (1 .. Ways[c]) /\ WaysHolding(c, a) # {}
    BY ZenonT(60) DEF WaysHolding, Hits
  <2> QED
    BY <2>1, FirstWayType, SizesAreNaturals
<1>3. v \in 1 .. Ways[c] /\ b # Invalid /\ SameLine(b.addr, a)
  BY <1>2, ZenonT(60) DEF WaysHolding, SetFor
<1> HIDE DEF v, s
<1>4. b \in Block
  BY <1>1, <1>3 DEF Blocks
<1>5. [b EXCEPT !.dirty = TRUE] = [addr |-> b.addr, dirty |-> TRUE]
      /\ [addr |-> b.addr, dirty |-> TRUE] \in Block
  <2> HIDE DEF b
  <2>1. b \in [addr : Addr, dirty : BOOLEAN]
    BY <1>3, <1>4 DEF Block, b
  <2>2. [b EXCEPT !.dirty = TRUE] = [addr |-> b.addr, dirty |-> TRUE]
    <3> DEFINE f == [b EXCEPT !.dirty = TRUE]
    <3>1. f \in [addr : Addr, dirty : BOOLEAN] /\ f.addr = b.addr /\ f.dirty = TRUE
      BY <2>1
    <3> HIDE DEF f
    <3>2. f = [addr |-> f.addr, dirty |-> f.dirty]
      BY <3>1
    <3>3. f = [addr |-> b.addr, dirty |-> TRUE]
      BY <3>1, <3>2, Zenon
    <3> QED
      BY <3>3 DEF f
  <2>3. b.addr \in Addr
    BY <2>1
  <2>4. [addr |-> b.addr, dirty |-> TRUE] \in [addr : Addr, dirty : BOOLEAN]
    BY <2>3
  <2> QED
    BY <2>2, <2>4 DEF Block
<1>6. block' = [block EXCEPT ![c][s][v] = [b EXCEPT !.dirty = TRUE]]
  BY DEF s, v
<1>7. block' = [block EXCEPT ![c][s][v] = [addr |-> b.addr, dirty |-> TRUE]]
  BY <1>5, <1>6, ZenonT(60)
<1> QED
  BY <1>3, <1>4, <1>5, <1>7 DEF s

LEMMA WritebackStepType ==
    ASSUME TypeInv, NEW c \in Cache, HandleWriteback(c)
    PROVE  TypeInv'
<1> DEFINE p == Head(wq[c])
           w == [wq EXCEPT ![c] = Tail(@)]
<1>1. Queues(w, WQ_SIZE, Packet) /\ p \in Packet
  BY WritebackCases, QueueShortened, SizesAreFunctions, ZenonT(60) DEF TypeInv
<1>2. p.addr \in Addr
  BY <1>1 DEF Packet
<1>3. \A b \in Cache : b # c => w[b] = wq[b]
  BY DEF TypeInv, Queues
<1> HIDE DEF p, w
<1>4. CASE /\ Hits(c, p.addr)
           /\ block' = [block EXCEPT ![c][SetFor(c, p.addr)]
                                     [FirstWay(WaysHolding(c, p.addr))].dirty = TRUE]
           /\ wq' = w
           /\ UNCHANGED <<rq, pq, mshr, memRQ, memWQ, pending>>
  <2>1. Blocks(block')
    <3>1. PICK v \in 1 .. Ways[c] :
              /\ block' = [block EXCEPT ![c][SetFor(c, p.addr)][v] =
                              [addr |-> block[c][SetFor(c, p.addr)][v].addr, dirty |-> TRUE]]
              /\ [addr |-> block[c][SetFor(c, p.addr)][v].addr, dirty |-> TRUE] \in Block
      BY <1>2, <1>4, WritebackHit DEF TypeInv
    <3>2. SetFor(c, p.addr) \in Sets
      BY <1>2, SetForType, SMTT(60)
    <3> QED
      BY <3>1, <3>2, BlockChanged DEF TypeInv
  <2> QED
    BY <1>1, <1>4, <2>1, WritebackCases, ZenonT(60) DEF TypeInv
<1>5. CASE /\ ReadlikeMiss(c, p, rq, pq)
           /\ wq' = w
           /\ UNCHANGED <<block, memWQ>>
  <2>1. Requests(rq', pq', mshr', memRQ', pending')
    BY <1>1, <1>5, MissType DEF TypeInv
  <2> QED
    BY <1>1, <1>5, <2>1, WritebackCases DEF TypeInv
<1>6. CASE FilllikeMiss(c, p, w) /\ UNCHANGED <<rq, pq, mshr, memRQ, pending>>
  <2>1. Queues(wq', WQ_SIZE, Packet) /\ MemoryWrites(memWQ') /\ Blocks(block')
    BY <1>1, <1>2, <1>3, <1>6, FillType DEF TypeInv
  <2> QED
    BY <1>6, <2>1, WritebackCases DEF TypeInv
<1> QED
  BY <1>4, <1>5, <1>6, WritebackCases, ZenonT(60) DEF p, w

LEMMA ReadStepType ==
    ASSUME TypeInv, NEW c \in Cache, HandleRead(c)
    PROVE  TypeInv'
<1> DEFINE p == Head(rq[c])
           r == [rq EXCEPT ![c] = Tail(@)]
<1>1. /\ rq[c] # <<>> /\ (ReadlikeHit(p, r, pq) \/ ReadlikeMiss(c, p, r, pq))
      /\ UNCHANGED <<wq, block, memWQ, fastForward, requests>>
  BY DEF HandleRead
<1>2. Queues(r, RQ_SIZE, Packet) /\ p \in Packet
  BY <1>1, QueueShortened, SizesAreFunctions DEF TypeInv, Requests
<1> HIDE DEF p, r
<1>3. Requests(r, pq, mshr, memRQ, pending)
  BY <1>2 DEF TypeInv, Requests
<1>4. Requests(rq', pq', mshr', memRQ', pending')
  BY <1>1, <1>2, <1>3, HitType, MissType
<1> QED
  BY <1>1, <1>4 DEF TypeInv

LEMMA PrefetchStepType ==
    ASSUME TypeInv, NEW c \in Cache, HandlePrefetch(c)
    PROVE  TypeInv'
<1> DEFINE p == Head(pq[c])
           q == [pq EXCEPT ![c] = Tail(@)]
<1>1. /\ pq[c] # <<>> /\ (ReadlikeHit(p, rq, q) \/ ReadlikeMiss(c, p, rq, q))
      /\ UNCHANGED <<wq, block, memWQ, fastForward, requests>>
  BY DEF HandlePrefetch
<1>2. Queues(q, PQ_SIZE, Packet) /\ p \in Packet
  BY <1>1, QueueShortened, SizesAreFunctions DEF TypeInv, Requests
<1> HIDE DEF p, q
<1>3. Requests(rq, q, mshr, memRQ, pending)
  BY <1>2 DEF TypeInv, Requests
<1>4. Requests(rq', pq', mshr', memRQ', pending')
  BY <1>1, <1>2, <1>3, HitType, MissType
<1> QED
  BY <1>1, <1>4 DEF TypeInv

LEMMA AskedType ==
    ASSUME requests \in 0 .. MaxRequests, Asked
    PROVE  requests' \in 0 .. MaxRequests
BY SizesAreNaturals DEF Asked

LoadPacket(u, a) ==
    [addr |-> a, type |-> "LOAD", fill |-> FillLevel[Below[u]], to_return |-> {u}, deps |-> {a}]

StorePacket(u, a) ==
    [addr |-> a, type |-> "RFO", fill |-> FillLevel[Below[u]], to_return |-> {}, deps |-> {}]

PrefetchPacket(c, a, fillThisLevel) ==
    [addr |-> a, type |-> "PREFETCH",
     fill |-> IF fillThisLevel THEN FillLevel[c] ELSE FillLevel[Below[c]],
     to_return |-> {}, deps |-> {}]

LEMMA NewPacketsType ==
    /\ \A u \in Client, a \in Addr : LoadPacket(u, a) \in Packet /\ StorePacket(u, a) \in Packet
    /\ \A c \in Cache, a \in Addr, f \in BOOLEAN :
          f \/ Below[c] \in Cache => PrefetchPacket(c, a, f) \in Packet
<1>1. ASSUME NEW u \in Client, NEW a \in Addr
      PROVE  LoadPacket(u, a) \in Packet /\ StorePacket(u, a) \in Packet
  BY TopologyAssumption DEF LoadPacket, StorePacket, Packet, Type, Node
<1>2. ASSUME NEW c \in Cache, NEW a \in Addr, NEW f \in BOOLEAN, f \/ Below[c] \in Cache
      PROVE  PrefetchPacket(c, a, f) \in Packet
  BY <1>2, TopologyAssumption DEF PrefetchPacket, Packet, Type
<1> QED
  BY <1>1, <1>2

LEMMA LoadStepType ==
    ASSUME TypeInv, NEW u \in Client, NEW a \in Addr, Load(u, a)
    PROVE  TypeInv'
<1> DEFINE p == LoadPacket(u, a)
           c == Below[u]
<1>1. /\ Asked /\ UNCHANGED <<wq, pq, mshr, block, memRQ, memWQ, fastForward>>
      /\ \/ UNCHANGED <<rq, pending>>
         \/ /\ rq' = [rq EXCEPT ![c] = JoinRQ(c, @, p)]
            /\ pending' = [pending EXCEPT ![u] = @ \cup {a}]
  BY DEF Load, LoadPacket
<1>2. p \in Packet /\ c \in Cache
  BY NewPacketsType, TopologyAssumption
<1>3. requests' \in 0 .. MaxRequests
  BY <1>1, AskedType DEF TypeInv
<1> HIDE DEF p, c
<1>4. Queues([rq EXCEPT ![c] = JoinRQ(c, @, p)], RQ_SIZE, Packet)
  BY <1>2, JoinRQType DEF TypeInv, Requests
<1>5. [pending EXCEPT ![u] = @ \cup {a}] \in [Client -> SUBSET Addr]
  BY DEF TypeInv, Requests
<1> QED
  BY <1>1, <1>3, <1>4, <1>5 DEF TypeInv, Requests

LEMMA StoreStepType ==
    ASSUME TypeInv, NEW u \in Client, NEW a \in Addr, Store(u, a)
    PROVE  TypeInv'
<1> DEFINE p == StorePacket(u, a)
           c == Below[u]
<1>1. /\ Asked /\ UNCHANGED <<rq, pq, mshr, block, memRQ, memWQ, fastForward, pending>>
      /\ \/ wq' = wq
         \/ Len(wq[c]) < WQ_SIZE[c] /\ wq' = [wq EXCEPT ![c] = Append(@, p)]
  BY DEF Store, StorePacket
<1>2. p \in Packet /\ c \in Cache
  BY NewPacketsType, TopologyAssumption
<1>3. requests' \in 0 .. MaxRequests
  BY <1>1, AskedType DEF TypeInv
<1> HIDE DEF p, c
<1>4. Len(wq[c]) < WQ_SIZE[c] => Len(wq[c]) # WQ_SIZE[c]
  BY <1>2, SizesAreNaturals DEF TypeInv, Queues
<1>5. Len(wq[c]) # WQ_SIZE[c] => Queues([wq EXCEPT ![c] = Append(@, p)], WQ_SIZE, Packet)
  BY <1>2, QueueExtended, SizesAreFunctions DEF TypeInv
<1> QED
  BY <1>1, <1>3, <1>4, <1>5 DEF TypeInv

LEMMA PrefetchLineStepType ==
    ASSUME TypeInv, NEW c \in Cache, NEW a \in Addr, NEW f \in BOOLEAN, PrefetchLine(c, a, f)
    PROVE  TypeInv'
<1> DEFINE p == PrefetchPacket(c, a, f)
<1>1. /\ Asked /\ UNCHANGED <<wq, block, memWQ, fastForward>>
      /\ AddPQ(c, p, rq, pq, mshr)
      /\ f \/ Below[c] \in Cache
  BY DEF PrefetchLine, PrefetchPacket
<1>2. p \in Packet
  BY <1>1, NewPacketsType
<1>3. requests' \in 0 .. MaxRequests
  BY <1>1, AskedType DEF TypeInv
<1> HIDE DEF p
<1>4. Requests(rq', pq', mshr', memRQ', pending')
  BY <1>1, <1>2, AddPQType DEF TypeInv
<1> QED
  BY <1>1, <1>3, <1>4 DEF TypeInv

LEMMA FewerOf ==
    ASSUME NEW S, NEW x, NEW n \in Nat, AtMost(S, n)
    PROVE  AtMost(S \ {x}, n)
<1>1. IsFiniteSet(S \ {x}) /\ Cardinality(S \ {x}) <= Cardinality(S)
  BY FS_Subset DEF AtMost
<1> QED
  BY <1>1, FS_CardinalityType DEF AtMost

LEMMA MemoryStepType ==
    ASSUME TypeInv, MemoryRead \/ MemoryWrite \/ FinishWarmup
    PROVE  TypeInv'
<1>1. CASE MemoryRead
  <2>1. PICK p \in memRQ : /\ memRQ' = memRQ \ {p} /\ mshr' = Return(mshr, p)
                           /\ UNCHANGED <<rq, wq, pq, block, memWQ, fastForward, pending, requests>>
    BY <1>1 DEF MemoryRead
  <2>2. MemoryReads(memRQ')
    BY <2>1, FewerOf, SizesAreNaturals DEF TypeInv, Requests, MemoryReads
  <2>3. Queues(mshr', MSHR_SIZE, MshrEntry)
    BY <2>1, ReturnType DEF TypeInv, Requests
  <2> QED
    BY <2>1, <2>2, <2>3 DEF TypeInv, Requests
<1>2. CASE MemoryWrite
  <2>1. PICK l \in memWQ : /\ memWQ' = memWQ \ {l}
                           /\ UNCHANGED <<rq, wq, pq, mshr, block, memRQ, fastForward, pending, requests>>
    BY <1>2 DEF MemoryWrite
  <2>2. MemoryWrites(memWQ')
    BY <2>1, FewerOf, SizesAreNaturals DEF TypeInv, MemoryWrites
  <2> QED
    BY <2>1, <2>2 DEF TypeInv
<1>3. CASE FinishWarmup
  BY <1>3 DEF FinishWarmup, TypeInv
<1> QED
  BY <1>1, <1>2, <1>3

LEMMA NextTypeInv == TypeInv /\ [Next]_vars => TypeInv'
<1> SUFFICES ASSUME TypeInv, [Next]_vars PROVE TypeInv'
  OBVIOUS
<1>1. CASE \E c \in Cache : HandleFill(c) \/ HandleWriteback(c) \/ HandleRead(c) \/ HandlePrefetch(c)
  BY <1>1, FillStepType, WritebackStepType, ReadStepType, PrefetchStepType
<1>2. CASE MemoryRead \/ MemoryWrite \/ FinishWarmup
  BY <1>2, MemoryStepType
<1>3. CASE \E u \in Client, a \in Addr : Load(u, a) \/ Store(u, a)
  BY <1>3, LoadStepType, StoreStepType
<1>4. CASE \E c \in Cache, a \in Addr, f \in BOOLEAN : PrefetchLine(c, a, f)
  BY <1>4, PrefetchLineStepType
<1>5. CASE UNCHANGED vars
  BY <1>5 DEF vars, TypeInv
<1> QED
  BY <1>1, <1>2, <1>3, <1>4, <1>5 DEF Next, Operate

LEMMA SpecTypeInv == Spec => []TypeInv
BY InitTypeInv, NextTypeInv, PTL DEF Spec

\* The queues, the MSHRs and the blocks of every cache hold what they are declared to
\* hold, and no queue ever has more members than its size: a handler that asks below
\* looks at the occupancy of the queue it is going to fill, never at another.
THEOREM CacheTypeOK == Spec => []TypeOK
<1>1. TypeInv => TypeOK
  BY DEF TypeInv, Requests, Queues, Blocks, Block, MemoryReads, MemoryWrites, AtMost,
         MshrEntry, TypeOK
<1> QED
  BY <1>1, SpecTypeInv, PTL

-----------------------------------------------------------------------------
\* Dirty lines on their way down.

\* Stores enter only at caches with no other cache above them.
StoresEnterAtTheTop ==
    \A u \in Client, c \in Cache : Below[u] = Below[c] => StoreAddr[u] = {}

WritebacksOnly(w) ==
    \A c \in Cache : Below[c] \in Cache =>
        \A i \in 1 .. Len(w[Below[c]]) : w[Below[c]][i].type = "WRITEBACK"

DirtyIn(b, l) ==
    \E c \in Cache, s \in Sets : \E v \in 1 .. Ways[c] :
        b[c][s][v] # Invalid /\ b[c][s][v].dirty /\ LineOf[b[c][s][v].addr] = l

OnItsWay(w, l) ==
    \E c \in Cache : \E i \in 1 .. Len(w[c]) :
        w[c][i].type = "WRITEBACK" /\ LineOf[w[c][i].addr] = l

LEMMA DirtyCopyParts ==
    ASSUME Queues(wq, WQ_SIZE, Packet), NEW l
    PROVE  DirtyCopy(l) <=> DirtyIn(block, l) \/ OnItsWay(wq, l)
<1>1. \A c \in Cache : DOMAIN wq[c] = 1 .. Len(wq[c])
  BY DEF Queues
<1> QED
  BY <1>1 DEF DirtyCopy, DirtyIn, OnItsWay

LEMMA ExtendedFields ==
    ASSUME NEW w, Queues(w, WQ_SIZE, Packet), NEW b \in Cache, NEW p \in Packet
    PROVE  LET n == [w EXCEPT ![b] = Append(@, p)]
           IN  /\ \A c \in Cache : c # b => n[c] = w[c]
               /\ Len(n[b]) = Len(w[b]) + 1 /\ Len(w[b]) \in Nat
               /\ \A i \in 1 .. Len(w[b]) : n[b][i] = w[b][i]
               /\ n[b][Len(w[b]) + 1] = p
<1>1. w[b] \in Seq(Packet) /\ DOMAIN w = Cache
  BY DEF Queues
<1> QED
  BY <1>1, AppendFields

\* What WriteBelow leaves of the dirty lines on their way, and where the line goes.
LEMMA WriteBelowKeeps ==
    ASSUME NEW c \in Cache, NEW a \in Addr, NEW w, Queues(w, WQ_SIZE, Packet),
           \A b \in Cache : b # c => w[b] = wq[b],
           WritebacksOnly(w), WriteBelow(c, a, w)
    PROVE  /\ WritebacksOnly(wq')
           /\ \A l : OnItsWay(w, l) => OnItsWay(wq', l)
           /\ OnItsWay(wq', LineOf[a]) \/ MemoryTakes(LineOf[a])
<1> DEFINE b == Below[c]
           p == [addr |-> a, type |-> "WRITEBACK", fill |-> FillLevel[Below[c]],
                 to_return |-> {}, deps |-> {}]
           n == [w EXCEPT ![b] = Append(@, p)]
<1>1. CASE b = Memory
  BY <1>1 DEF WriteBelow, MemoryTakes
<1>2. CASE b # Memory /\ InWQ(b, a) /\ wq' = w
  <2>1. b \in Cache /\ b # c /\ b \notin MatchOffset
    BY <1>2, LevelsDiffer, TopologyAssumption
  <2>2. PICK i \in DOMAIN wq[b] : SameLine(wq[b][i].addr, a)
    BY <1>2, <2>1 DEF InWQ
  <2>3. w[b] = wq[b] /\ DOMAIN w[b] = 1 .. Len(w[b])
    BY <2>1 DEF Queues
  <2>4. i \in 1 .. Len(w[b]) /\ w[b][i].type = "WRITEBACK" /\ LineOf[w[b][i].addr] = LineOf[a]
    BY <2>1, <2>2, <2>3 DEF WritebacksOnly, SameLine
  <2>5. OnItsWay(w, LineOf[a])
    BY <2>1, <2>4 DEF OnItsWay
  <2> QED
    BY <1>2, <2>5
<1>3. CASE b # Memory /\ wq' = n
  <2>1. b \in Cache /\ b # c
    BY <1>3, LevelsDiffer
  <2>2. p \in Packet /\ p.type = "WRITEBACK" /\ p.addr = a
    BY <2>1, TopologyAssumption DEF Packet, Type
  <2> HIDE DEF p
  <2>3. /\ \A d \in Cache : d # b => n[d] = w[d]
        /\ Len(n[b]) = Len(w[b]) + 1 /\ Len(w[b]) \in Nat
        /\ \A i \in 1 .. Len(w[b]) : n[b][i] = w[b][i]
        /\ n[b][Len(w[b]) + 1] = p
    BY <2>1, <2>2, ExtendedFields
  <2> HIDE DEF n, b
  <2>4. \A i \in 1 .. Len(n[b]) : i \in 1 .. Len(w[b]) \/ i = Len(w[b]) + 1
    BY <2>3
  <2>5. 1 .. Len(w[b]) \subseteq 1 .. Len(n[b]) /\ Len(w[b]) + 1 \in 1 .. Len(n[b])
    BY <2>3
  <2>6. WritebacksOnly(n)
    <3> SUFFICES ASSUME NEW d \in Cache, Below[d] \in Cache, NEW i \in 1 .. Len(n[Below[d]])
                 PROVE  n[Below[d]][i].type = "WRITEBACK"
      BY DEF WritebacksOnly
    <3>1. CASE Below[d] = b
      <4>1. b \in Cache /\ (i \in 1 .. Len(w[b]) \/ i = Len(w[b]) + 1)
        BY <2>4, <3>1
      <4>2. i \in 1 .. Len(w[b]) => w[b][i].type = "WRITEBACK"
        BY <3>1 DEF WritebacksOnly
      <4> QED
        BY <2>2, <2>3, <3>1, <4>1, <4>2
    <3>2. CASE Below[d] # b
      BY <2>3, <3>2 DEF WritebacksOnly
    <3> QED
      BY <3>1, <3>2
  <2>7. ASSUME NEW l, OnItsWay(w, l) PROVE OnItsWay(n, l)
    <3>1. PICK d \in Cache : \E i \in 1 .. Len(w[d]) :
              w[d][i].type = "WRITEBACK" /\ LineOf[w[d][i].addr] = l
      BY <2>7 DEF OnItsWay
    <3>2. PICK i \in 1 .. Len(w[d]) : w[d][i].type = "WRITEBACK" /\ LineOf[w[d][i].addr] = l
      BY <3>1
    <3>3. i \in 1 .. Len(n[d]) /\ n[d][i] = w[d][i]
      BY <2>3, <2>5
    <3> QED
      BY <3>2, <3>3 DEF OnItsWay
  <2>8. OnItsWay(n, LineOf[a])
    BY <2>1, <2>2, <2>3, <2>5 DEF OnItsWay
  <2> QED
    BY <1>3, <2>6, <2>7, <2>8
<1> QED
  BY <1>1, <1>2, <1>3 DEF WriteBelow

\* Filling a block drops no dirty line, and the line of a writeback is dirty then.
LEMMA FillKeeps ==
    ASSUME NEW c \in Cache, NEW p, p.addr \in Addr, NEW w, Queues(w, WQ_SIZE, Packet),
           \A b \in Cache : b # c => w[b] = wq[b],
           Blocks(block), WritebacksOnly(w), FilllikeMiss(c, p, w)
    PROVE  /\ WritebacksOnly(wq')
           /\ \A l : OnItsWay(w, l) => OnItsWay(wq', l)
           /\ \A l : DirtyIn(block, l) => \/ DirtyIn(block', l) \/ OnItsWay(wq', l)
                                          \/ MemoryTakes(l)
           /\ p.type = "WRITEBACK" => DirtyIn(block', LineOf[p.addr])
<1> DEFINE s == SetFor(c, p.addr)
<1>1. CASE block' = block /\ wq' = w /\ memWQ' = memWQ /\ p.type # "WRITEBACK"
  BY <1>1
<1>2. ASSUME NEW v \in 1 .. Ways[c], block' = [block EXCEPT ![c][s][v] = Filled(p)],
             block[c][s][v] \in Block,
             \/ block[c][s][v].dirty /\ WriteBelow(c, block[c][s][v].addr, w)
             \/ ~ block[c][s][v].dirty /\ wq' = w /\ memWQ' = memWQ
      PROVE  /\ WritebacksOnly(wq')
             /\ \A l : OnItsWay(w, l) => OnItsWay(wq', l)
             /\ \A l : DirtyIn(block, l) => \/ DirtyIn(block', l) \/ OnItsWay(wq', l)
                                            \/ MemoryTakes(l)
             /\ p.type = "WRITEBACK" => DirtyIn(block', LineOf[p.addr])
  <2>1. s \in Sets
    BY SetForType
  <2> DEFINE old == block[c][s][v]
  <2>2. Filled(p) \in Block /\ Filled(p).addr = p.addr
        /\ (p.type = "WRITEBACK" => Filled(p).dirty /\ Filled(p) # Invalid)
    BY DEF Filled, Block, Invalid
  <2>3. /\ block'[c][s][v] = Filled(p)
        /\ \A d \in Cache, t \in Sets : \A u \in 1 .. Ways[d] :
              ~ (d = c /\ t = s /\ u = v) => block'[d][t][u] = block[d][t][u]
    BY <1>2, <2>1, <2>2, BlockChanged, SMTT(60)
  <2> HIDE DEF s
  <2>4. p.type = "WRITEBACK" => DirtyIn(block', LineOf[p.addr])
    BY <2>1, <2>2, <2>3 DEF DirtyIn
  <2>5. /\ WritebacksOnly(wq')
        /\ \A l : OnItsWay(w, l) => OnItsWay(wq', l)
        /\ old.dirty => OnItsWay(wq', LineOf[old.addr]) \/ MemoryTakes(LineOf[old.addr])
    <3>1. CASE old.dirty /\ WriteBelow(c, old.addr, w)
      <4>1. old.addr \in Addr
        BY <1>2, <3>1, DirtyBlocksAreValid
      <4> HIDE DEF old
      <4> QED
        BY <3>1, <4>1, WriteBelowKeeps
    <3>2. CASE ~ old.dirty /\ wq' = w
      BY <3>2
    <3> QED
      BY <1>2, <3>1, <3>2
  <2>6. ASSUME NEW l, DirtyIn(block, l)
        PROVE  DirtyIn(block', l) \/ OnItsWay(wq', l) \/ MemoryTakes(l)
    <3>1. PICK d \in Cache, t \in Sets : \E u \in 1 .. Ways[d] :
              block[d][t][u] # Invalid /\ block[d][t][u].dirty /\ LineOf[block[d][t][u].addr] = l
      BY <2>6 DEF DirtyIn
    <3>2. PICK u \in 1 .. Ways[d] :
              block[d][t][u] # Invalid /\ block[d][t][u].dirty /\ LineOf[block[d][t][u].addr] = l
      BY <3>1
    <3>3. CASE d = c /\ t = s /\ u = v
      BY <2>5, <3>2, <3>3
    <3>4. CASE ~ (d = c /\ t = s /\ u = v)
      BY <2>3, <3>2, <3>4 DEF DirtyIn
    <3> QED
      BY <3>3, <3>4
  <2> QED
    BY <2>4, <2>5, <2>6
<1> QED
  BY <1>1, <1>2, FillCases

LEMMA TailKeeps ==
    ASSUME Queues(wq, WQ_SIZE, Packet), NEW c \in Cache, wq[c] # <<>>, WritebacksOnly(wq)
    PROVE  LET w == [wq EXCEPT ![c] = Tail(@)]
           IN  /\ WritebacksOnly(w)
               /\ \A l : OnItsWay(wq, l) =>
                     \/ OnItsWay(w, l)
                     \/ Head(wq[c]).type = "WRITEBACK" /\ LineOf[Head(wq[c]).addr] = l
<1> DEFINE w == [wq EXCEPT ![c] = Tail(@)]
<1>1. wq[c] \in Seq(Packet) /\ DOMAIN wq = Cache
  BY DEF Queues
<1>2. /\ Len(wq[c]) \in Nat /\ Len(wq[c]) >= 1 /\ Head(wq[c]) = wq[c][1]
      /\ w[c] = Tail(wq[c]) /\ Len(w[c]) = Len(wq[c]) - 1
      /\ \A i \in 1 .. Len(wq[c]) - 1 : w[c][i] = wq[c][i + 1]
      /\ \A d \in Cache : d # c => w[d] = wq[d]
  BY <1>1, TailFields
<1> HIDE DEF w
<1>3. \A i \in 1 .. Len(w[c]) : i + 1 \in 1 .. Len(wq[c]) /\ w[c][i] = wq[c][i + 1]
  BY <1>2
<1>4. \A i \in 1 .. Len(wq[c]) : i = 1 \/ (i - 1 \in 1 .. Len(w[c]) /\ w[c][i - 1] = wq[c][i])
  BY <1>2
<1>5. WritebacksOnly(w)
  <2> SUFFICES ASSUME NEW d \in Cache, Below[d] \in Cache, NEW i \in 1 .. Len(w[Below[d]])
               PROVE  w[Below[d]][i].type = "WRITEBACK"
    BY DEF WritebacksOnly
  <2>1. CASE Below[d] = c
    <3>1. i + 1 \in 1 .. Len(wq[c]) /\ w[c][i] = wq[c][i + 1]
      BY <1>3, <2>1
    <3> QED
      BY <2>1, <3>1 DEF WritebacksOnly
  <2>2. CASE Below[d] # c
    BY <1>2, <2>2 DEF WritebacksOnly
  <2> QED
    BY <2>1, <2>2
<1>6. ASSUME NEW l, OnItsWay(wq, l)
      PROVE  \/ OnItsWay(w, l)
             \/ Head(wq[c]).type = "WRITEBACK" /\ LineOf[Head(wq[c]).addr] = l
  <2>1. PICK d \in Cache : \E i \in 1 .. Len(wq[d]) :
            wq[d][i].type = "WRITEBACK" /\ LineOf[wq[d][i].addr] = l
    BY <1>6 DEF OnItsWay
  <2>2. PICK i \in 1 .. Len(wq[d]) : wq[d][i].type = "WRITEBACK" /\ LineOf[wq[d][i].addr] = l
    BY <2>1
  <2>3. CASE d # c
    BY <1>2, <2>2, <2>3 DEF OnItsWay
  <2>4. CASE d = c /\ i = 1
    BY <1>2, <2>2, <2>4
  <2>5. CASE d = c /\ i # 1
    <3>1. i - 1 \in 1 .. Len(w[c]) /\ w[c][i - 1] = wq[c][i]
      BY <1>4, <2>5
    <3> QED
      BY <2>2, <2>5, <3>1, SMTT(60) DEF OnItsWay
  <2> QED
    BY <2>3, <2>4, <2>5
<1> QED
  BY <1>5, <1>6 DEF w

LEMMA WritebackStepKeeps ==
    ASSUME TypeInv, WritebacksOnly(wq), NEW c \in Cache, HandleWriteback(c)
    PROVE  /\ WritebacksOnly(wq')
           /\ \A l : DirtyIn(block, l) \/ OnItsWay(wq, l)
                 => DirtyIn(block', l) \/ OnItsWay(wq', l) \/ MemoryTakes(l)
<1> DEFINE p == Head(wq[c])
           w == [wq EXCEPT ![c] = Tail(@)]
<1>1. Queues(w, WQ_SIZE, Packet) /\ p \in Packet
  BY WritebackCases, QueueShortened, SizesAreFunctions DEF TypeInv
<1>2. p.addr \in Addr
  BY <1>1 DEF Packet
<1>3. \A b \in Cache : b # c => w[b] = wq[b]
  BY DEF TypeInv, Queues
<1>4. /\ WritebacksOnly(w)
      /\ \A l : OnItsWay(wq, l) => \/ OnItsWay(w, l)
                                   \/ p.type = "WRITEBACK" /\ LineOf[p.addr] = l
  BY WritebackCases, TailKeeps DEF TypeInv
<1> HIDE DEF p, w
<1>5. CASE /\ Hits(c, p.addr)
           /\ block' = [block EXCEPT ![c][SetFor(c, p.addr)]
                                     [FirstWay(WaysHolding(c, p.addr))].dirty = TRUE]
           /\ wq' = w
  <2> DEFINE s == SetFor(c, p.addr)
  <2>1. PICK v \in 1 .. Ways[c] :
            /\ block[c][s][v] \in Block /\ block[c][s][v] # Invalid
            /\ SameLine(block[c][s][v].addr, p.addr)
            /\ block' = [block EXCEPT ![c][s][v] = [addr |-> block[c][s][v].addr, dirty |-> TRUE]]
            /\ [addr |-> block[c][s][v].addr, dirty |-> TRUE] \in Block
    BY <1>2, <1>5, WritebackHit DEF TypeInv
  <2>2. s \in Sets
    BY <1>2, SetForType
  <2> DEFINE e == [addr |-> block[c][s][v].addr, dirty |-> TRUE]
  <2>3. /\ block'[c][s][v] = e
        /\ \A d \in Cache, t \in Sets : \A u \in 1 .. Ways[d] :
              ~ (d = c /\ t = s /\ u = v) => block'[d][t][u] = block[d][t][u]
    <3>1. e \in Block /\ block' = [block EXCEPT ![c][s][v] = e]
      BY <2>1
    <3> HIDE DEF e, s
    <3> QED
      BY <2>2, <3>1, BlockChanged DEF TypeInv
  <2> HIDE DEF s
  <2>4. /\ block'[c][s][v] # Invalid /\ block'[c][s][v].dirty
        /\ LineOf[block'[c][s][v].addr] = LineOf[p.addr]
        /\ LineOf[block'[c][s][v].addr] = LineOf[block[c][s][v].addr]
    BY <2>1, <2>3 DEF Invalid, SameLine
  <2>5. DirtyIn(block', LineOf[p.addr])
    BY <2>2, <2>4 DEF DirtyIn
  <2>6. ASSUME NEW l, DirtyIn(block, l) PROVE DirtyIn(block', l)
    <3>1. PICK d \in Cache, t \in Sets : \E u \in 1 .. Ways[d] :
              block[d][t][u] # Invalid /\ block[d][t][u].dirty /\ LineOf[block[d][t][u].addr] = l
      BY <2>6 DEF DirtyIn
    <3>2. PICK u \in 1 .. Ways[d] :
              block[d][t][u] # Invalid /\ block[d][t][u].dirty /\ LineOf[block[d][t][u].addr] = l
      BY <3>1
    <3>3. CASE d = c /\ t = s /\ u = v
      BY <2>2, <2>4, <3>2, <3>3 DEF DirtyIn
    <3>4. CASE ~ (d = c /\ t = s /\ u = v)
      BY <2>3, <3>2, <3>4 DEF DirtyIn
    <3> QED
      BY <3>3, <3>4
  <2> QED
    BY <1>4, <1>5, <2>5, <2>6
<1>6. CASE /\ p.type = "RFO" /\ block' = block /\ wq' = w
  BY <1>4, <1>6
<1>7. CASE FilllikeMiss(c, p, w)
  <2>1. /\ WritebacksOnly(wq')
        /\ \A l : OnItsWay(w, l) => OnItsWay(wq', l)
        /\ \A l : DirtyIn(block, l) => \/ DirtyIn(block', l) \/ OnItsWay(wq', l)
                                       \/ MemoryTakes(l)
        /\ p.type = "WRITEBACK" => DirtyIn(block', LineOf[p.addr])
    BY <1>1, <1>2, <1>3, <1>4, <1>7, FillKeeps DEF TypeInv
  <2> QED
    BY <1>4, <2>1
<1> QED
  BY <1>5, <1>6, <1>7, WritebackCases, ZenonT(60) DEF p, w

LEMMA FillStepKeeps ==
    ASSUME TypeInv, WritebacksOnly(wq), NEW c \in Cache, HandleFill(c)
    PROVE  /\ WritebacksOnly(wq')
           /\ \A l : DirtyIn(block, l) \/ OnItsWay(wq, l)
                 => DirtyIn(block', l) \/ OnItsWay(wq', l) \/ MemoryTakes(l)
<1> DEFINE e == Head(mshr[c])
<1>1. mshr[c] # <<>> /\ FilllikeMiss(c, e, wq)
  BY DEF HandleFill
<1>2. mshr[c] \in Seq(MshrEntry)
  BY DEF TypeInv, Requests, Queues
<1>3. e \in MshrEntry
  BY <1>1, <1>2, TailFields
<1>4. e.addr \in Addr
  BY <1>3 DEF MshrEntry
<1> HIDE DEF e
<1> QED
  BY <1>1, <1>4, FillKeeps DEF TypeInv

LEMMA StoreStepKeeps ==
    ASSUME StoresEnterAtTheTop, TypeInv, WritebacksOnly(wq),
           NEW u \in Client, NEW a \in Addr, Store(u, a)
    PROVE  WritebacksOnly(wq') /\ block' = block /\ \A l : OnItsWay(wq, l) => OnItsWay(wq', l)
<1> DEFINE p == StorePacket(u, a)
           c == Below[u]
           n == [wq EXCEPT ![c] = Append(@, p)]
<1>1. block' = block /\ a \in StoreAddr[u] /\ (wq' = wq \/ wq' = n)
  BY DEF Store, StorePacket
<1>2. p \in Packet /\ c \in Cache
  BY NewPacketsType, TopologyAssumption
<1>3. \A d \in Cache : Below[d] # c
  BY <1>1 DEF StoresEnterAtTheTop
<1> HIDE DEF p, c
<1>4. /\ \A d \in Cache : d # c => n[d] = wq[d]
      /\ Len(n[c]) = Len(wq[c]) + 1 /\ Len(wq[c]) \in Nat
      /\ \A i \in 1 .. Len(wq[c]) : n[c][i] = wq[c][i]
  BY <1>2, ExtendedFields DEF TypeInv
<1> HIDE DEF n
<1>5. WritebacksOnly(n)
  BY <1>3, <1>4 DEF WritebacksOnly
<1>6. \A d \in Cache : \A i \in 1 .. Len(wq[d]) : i \in 1 .. Len(n[d]) /\ n[d][i] = wq[d][i]
  BY <1>4
<1>7. \A l : OnItsWay(wq, l) => OnItsWay(n, l)
  BY <1>6 DEF OnItsWay
<1> QED
  BY <1>1, <1>5, <1>7

\* A step that leaves the blocks and the write queues alone.
LEMMA OthersKeep ==
    ASSUME \/ \E c \in Cache : HandleRead(c) \/ HandlePrefetch(c)
           \/ MemoryRead \/ MemoryWrite \/ FinishWarmup
           \/ \E u \in Client, a \in Addr : Load(u, a)
           \/ \E c \in Cache, a \in Addr, f \in BOOLEAN : PrefetchLine(c, a, f)
           \/ UNCHANGED vars
    PROVE  wq' = wq /\ block' = block
BY DEF HandleRead, HandlePrefetch, MemoryRead, MemoryWrite, FinishWarmup, Load, PrefetchLine, vars

LEMMA StepKeeps ==
    ASSUME StoresEnterAtTheTop, TypeInv, WritebacksOnly(wq), [Next]_vars
    PROVE  /\ WritebacksOnly(wq')
           /\ \A l : DirtyIn(block, l) \/ OnItsWay(wq, l)
                 => DirtyIn(block', l) \/ OnItsWay(wq', l) \/ MemoryTakes(l)
<1>1. CASE \E c \in Cache : HandleFill(c)
  BY <1>1, FillStepKeeps
<1>2. CASE \E c \in Cache : HandleWriteback(c)
  BY <1>2, WritebackStepKeeps
<1>3. CASE \E u \in Client, a \in Addr : Store(u, a)
  BY <1>3, StoreStepKeeps
<1>4. CASE wq' = wq /\ block' = block
  BY <1>4
<1> QED
  BY <1>1, <1>2, <1>3, <1>4, OthersKeep DEF Next, Operate

\* Whatever evicts a dirty line, and whatever the queue below holds or refuses, the
\* line is still dirty in some cache or on its way down after every step, unless the
\* memory has taken it (filllike_miss and add_wq: a refused writeback leaves the
\* victim in place).  A store that enters below another cache is left out: its RFO
\* could stand in the WQ where the writeback would.
THEOREM CacheDirtyNotDropped ==
    ASSUME StoresEnterAtTheTop
    PROVE  Spec => DirtyNotDropped
<1> DEFINE Inv == TypeInv /\ WritebacksOnly(wq)
<1>1. Init => Inv
  <2> SUFFICES ASSUME Init PROVE Inv
    OBVIOUS
  <2>1. \A c \in Cache : Below[c] \in Cache => Len(wq[Below[c]]) = 0
    BY DEF Init
  <2> QED
    BY <2>1, InitTypeInv DEF WritebacksOnly
<1>2. Inv /\ [Next]_vars => Inv'
  <2> SUFFICES ASSUME Inv, [Next]_vars PROVE Inv'
    OBVIOUS
  <2>1. WritebacksOnly(wq')
    BY StepKeeps
  <2> QED
    BY <2>1, NextTypeInv DEF WritebacksOnly
<1>3. Inv /\ Inv' /\ [Next]_vars =>
        [ \A l \in Line : DirtyCopy(l) => DirtyCopy(l)' \/ MemoryTakes(l) ]_vars
  <2> SUFFICES ASSUME Inv, Inv', [Next]_vars, NEW l \in Line, DirtyCopy(l)
               PROVE  DirtyCopy(l)' \/ MemoryTakes(l)
    OBVIOUS
  <2>1. DirtyIn(block, l) \/ OnItsWay(wq, l)
    BY DirtyCopyParts DEF TypeInv
  <2>2. DirtyIn(block', l) \/ OnItsWay(wq', l) \/ MemoryTakes(l)
    BY <2>1, StepKeeps
  <2>3. DirtyCopy(l)' <=> DirtyIn(block', l) \/ OnItsWay(wq', l)
    <3>1. \A c \in Cache : DOMAIN wq'[c] = 1 .. Len(wq'[c])
      BY DEF TypeInv, Queues
    <3> QED
      BY <3>1 DEF DirtyCopy, DirtyIn, OnItsWay
  <2> QED
    BY <2>2, <2>3
<1> QED
  BY <1>1, <1>2, <1>3, PTL DEF Spec, DirtyNotDropped

-----------------------------------------------------------------------------
\* Who is answered by what: a packet that is on its way carries the name of a cache
\* for its line, and the name of a client for every load that depends on it.  Of two
\* clients on one cache the model does not tell whose load it is.

Lone == {u \in Client : \A v \in Client : Below[v] = Below[u] => v = u}

Names(p, x, k) ==
    /\ x \in p.to_return
    /\ \/ x \in Cache /\ k = LineOf[p.addr]
       \/ x \in Lone /\ k \in p.deps

In(q, x, k) == \E i \in 1 .. Len(q) : Names(q[i], x, k)

InSet(g, x, k) == \E p \in g : Names(p, x, k)

\* Carried by something at the level below x.
At(r, q, m, g, x, k) ==
    IF Below[x] = Memory THEN InSet(g, x, k)
    ELSE In(r[Below[x]], x, k) \/ In(q[Below[x]], x, k) \/ In(m[Below[x]], x, k)

Waits(l, k) == \E i \in 1 .. Len(l) : ~ l[i].returned /\ LineOf[l[i].addr] = k

\* Owed an answer: x has an MSHR that waits for line k, or a load of address k.
Owed(m, w, x, k) ==
    \/ x \in Cache /\ Waits(m[x], k)
    \/ x \in Lone /\ k \in w[x]

\* A packet at level b.
Sound(b, e) ==
    /\ \A x \in e.to_return : Below[x] = b
    /\ \A a \in e.deps : LineOf[a] = LineOf[e.addr]
    /\ e.deps # {} => \E u \in Client : u \in e.to_return

Distinct(q) ==
    \A i, j \in 1 .. Len(q) : LineOf[q[i].addr] = LineOf[q[j].addr] => i = j

Tidy(c, q) == Distinct(q) /\ \A i \in 1 .. Len(q) : Sound(c, q[i])

LEMMA NamesIdentify ==
    ASSUME NEW b, NEW e, NEW f, Sound(b, e), Sound(b, f), NEW x, NEW k,
           Names(e, x, k), Names(f, x, k)
    PROVE  LineOf[e.addr] = LineOf[f.addr]
BY TopologyAssumption DEF Names, Sound, Lone

LEMMA NamedNodes ==
    ASSUME NEW b, NEW e, Sound(b, e), NEW x, NEW k, Names(e, x, k)
    PROVE  x \in Cache \cup Lone /\ Below[x] = b
BY DEF Names, Sound

\* Whatever merges the answers and the dependents of two packets for one line.
LEMMA MergedNames ==
    ASSUME NEW b, NEW e, NEW p, NEW f, Sound(b, e), Sound(b, p),
           LineOf[e.addr] = LineOf[p.addr], f.addr = e.addr,
           f.to_return = e.to_return \cup p.to_return, f.deps = e.deps \cup p.deps
    PROVE  /\ Sound(b, f)
           /\ \A x, k : Names(f, x, k) <=> Names(e, x, k) \/ Names(p, x, k)
<1>1. Sound(b, f)
  BY DEF Sound
<1>2. ASSUME NEW x, NEW k, Names(f, x, k) PROVE Names(e, x, k) \/ Names(p, x, k)
  <2>1. CASE x \in Cache /\ k = LineOf[f.addr]
    BY <1>2, <2>1 DEF Names
  <2>2. CASE x \in Lone /\ k \in f.deps
    <3>1. Below[x] = b
      BY <1>1, <1>2 DEF Names, Sound
    <3>2. k \in e.deps => x \in e.to_return
      BY <2>2, <3>1 DEF Sound, Lone
    <3>3. k \in p.deps => x \in p.to_return
      BY <2>2, <3>1 DEF Sound, Lone
    <3> QED
      BY <2>2, <3>2, <3>3 DEF Names
  <2> QED
    BY <1>2, <2>1, <2>2 DEF Names
<1>3. ASSUME NEW x, NEW k, Names(e, x, k) \/ Names(p, x, k) PROVE Names(f, x, k)
  BY <1>3 DEF Names
<1> QED
  BY <1>1, <1>2, <1>3

LEMMA SameNames ==
    ASSUME NEW b, NEW p, NEW f, Sound(b, p), f.addr = p.addr, f.to_return = p.to_return,
           f.deps = p.deps
    PROVE  Sound(b, f) /\ \A x, k : Names(f, x, k) <=> Names(p, x, k)
BY DEF Sound, Names

-----------------------------------------------------------------------------
\* Lists and the names in them.

LEMMA ReplacedNames ==
    ASSUME NEW S, NEW q \in Seq(S), NEW c, Tidy(c, q), NEW i \in 1 .. Len(q), NEW e \in S,
           Sound(c, e), LineOf[e.addr] = LineOf[q[i].addr]
    PROVE  /\ Tidy(c, ReplaceAt(q, i, e))
           /\ \A x, k : In(ReplaceAt(q, i, e), x, k) => In(q, x, k) \/ Names(e, x, k)
           /\ \A x, k : Names(e, x, k) => In(ReplaceAt(q, i, e), x, k)
           /\ \A x, k : In(q, x, k) => In(ReplaceAt(q, i, e), x, k) \/ Names(q[i], x, k)
<1> DEFINE n == ReplaceAt(q, i, e)
<1>1. Len(n) = Len(q) /\ \A j \in 1 .. Len(q) : n[j] = IF j = i THEN e ELSE q[j]
  BY ReplaceAtFields
<1> HIDE DEF n
<1>2. \A j \in 1 .. Len(q) : LineOf[n[j].addr] = LineOf[q[j].addr]
  BY <1>1
<1>3. Tidy(c, n)
  BY <1>1, <1>2 DEF Tidy, Distinct
<1> QED
  BY <1>1, <1>3 DEF In, n

LEMMA AppendedNames ==
    ASSUME NEW S, NEW q \in Seq(S), NEW c, Tidy(c, q), NEW e \in S, Sound(c, e),
           \A i \in 1 .. Len(q) : LineOf[q[i].addr] # LineOf[e.addr]
    PROVE  /\ Tidy(c, Append(q, e))
           /\ \A x, k : In(Append(q, e), x, k) <=> In(q, x, k) \/ Names(e, x, k)
<1> DEFINE n == Append(q, e)
<1>1. /\ Len(q) \in Nat /\ Len(n) = Len(q) + 1
      /\ \A j \in 1 .. Len(q) : n[j] = q[j]
      /\ n[Len(q) + 1] = e
  BY AppendFields
<1>2. \A j \in 1 .. Len(n) : j \in 1 .. Len(q) \/ j = Len(q) + 1
  BY <1>1
<1>3. 1 .. Len(q) \subseteq 1 .. Len(n) /\ Len(q) + 1 \in 1 .. Len(n)
  BY <1>1
<1> HIDE DEF n
<1>4. Distinct(n)
  BY <1>1, <1>2 DEF Tidy, Distinct
<1>5. \A j \in 1 .. Len(n) : Sound(c, n[j])
  BY <1>1, <1>2 DEF Tidy
<1>6. \A x, k : In(n, x, k) <=> In(q, x, k) \/ Names(e, x, k)
  BY <1>1, <1>2, <1>3 DEF In
<1> QED
  BY <1>4, <1>5, <1>6 DEF Tidy, n

LEMMA TailNames ==
    ASSUME NEW S, NEW q \in Seq(S), q # <<>>, NEW c, Tidy(c, q)
    PROVE  /\ Tidy(c, Tail(q))
           /\ Sound(c, Head(q))
           /\ \A x, k : In(q, x, k) <=> In(Tail(q), x, k) \/ Names(Head(q), x, k)
           /\ \A x, k : ~ (In(Tail(q), x, k) /\ Names(Head(q), x, k))
<1> DEFINE n == Tail(q)
<1>1. /\ Len(q) \in Nat /\ Len(q) >= 1 /\ Head(q) = q[1] /\ Len(n) = Len(q) - 1
      /\ \A j \in 1 .. Len(q) - 1 : n[j] = q[j + 1]
  BY TailFields
<1> HIDE DEF n
<1>2. \A j \in 1 .. Len(n) : j + 1 \in 1 .. Len(q) /\ n[j] = q[j + 1] /\ j + 1 # 1
  BY <1>1
<1>3. \A j \in 1 .. Len(q) : j = 1 \/ (j - 1 \in 1 .. Len(n) /\ n[j - 1] = q[j])
  BY <1>1
<1>4. 1 \in 1 .. Len(q)
  BY <1>1
<1>5. Distinct(n)
  <2> SUFFICES ASSUME NEW i \in 1 .. Len(n), NEW j \in 1 .. Len(n),
                      LineOf[n[i].addr] = LineOf[n[j].addr]
               PROVE  i = j
    BY DEF Distinct
  <2>1. i + 1 = j + 1
    BY <1>2 DEF Tidy, Distinct
  <2> QED
    BY <1>1, <2>1
<1>6. \A j \in 1 .. Len(n) : Sound(c, n[j])
  BY <1>2 DEF Tidy
<1>7. Sound(c, q[1])
  BY <1>4 DEF Tidy
<1>8. ASSUME NEW x, NEW k PROVE In(q, x, k) <=> In(n, x, k) \/ Names(q[1], x, k)
  BY <1>2, <1>3, <1>4 DEF In
<1>9. ASSUME NEW x, NEW k, In(n, x, k), Names(q[1], x, k) PROVE FALSE
  <2>1. PICK j \in 1 .. Len(n) : Names(n[j], x, k)
    BY <1>9 DEF In
  <2>2. LineOf[q[j + 1].addr] = LineOf[q[1].addr]
    BY <1>2, <1>6, <1>7, <1>9, <2>1, NamesIdentify
  <2> QED
    BY <1>2, <1>4, <2>2 DEF Tidy, Distinct
<1> QED
  BY <1>1, <1>5, <1>6, <1>7, <1>8, <1>9 DEF Tidy, n

LEMMA JoinedRQ ==
    ASSUME NEW c, NEW q \in Seq(Packet), Tidy(c, q), NEW p \in Packet, Sound(c, p)
    PROVE  LET n == JoinRQ(c, q, p)
           IN  /\ Tidy(c, n)
               /\ \A x, k : In(n, x, k) => In(q, x, k) \/ Names(p, x, k)
               /\ \A x, k : In(q, x, k) => In(n, x, k)
               /\ Find(q, p.addr) # 0 \/ Len(q) < RQ_SIZE[c]
                    => \A x, k : Names(p, x, k) => In(n, x, k)
<1> DEFINE i == Find(q, p.addr)
           e == Merge(q[i], p)
<1>1. CASE i # 0
  <2>1. i \in 1 .. Len(q) /\ LineOf[q[i].addr] = LineOf[p.addr] /\ q[i] \in Packet
    BY <1>1, FindFields, ElementOfSeq DEF SameLine
  <2>2. /\ e \in Packet /\ e.addr = q[i].addr
        /\ e.to_return = q[i].to_return \cup p.to_return /\ e.deps = q[i].deps \cup p.deps
    BY <2>1, MergedPacket
  <2>3. Sound(c, q[i])
    BY <2>1 DEF Tidy
  <2>4. JoinRQ(c, q, p) = ReplaceAt(q, i, e)
    BY <1>1 DEF JoinRQ
  <2> HIDE DEF e, i
  <2>5. Sound(c, e) /\ \A x, k : Names(e, x, k) <=> Names(q[i], x, k) \/ Names(p, x, k)
    BY <2>1, <2>2, <2>3, MergedNames
  <2>6. \A x, k : Names(q[i], x, k) => In(q, x, k)
    BY <2>1 DEF In
  <2>7. /\ Tidy(c, ReplaceAt(q, i, e))
        /\ \A x, k : In(ReplaceAt(q, i, e), x, k) => In(q, x, k) \/ Names(e, x, k)
        /\ \A x, k : Names(e, x, k) => In(ReplaceAt(q, i, e), x, k)
        /\ \A x, k : In(q, x, k) => In(ReplaceAt(q, i, e), x, k) \/ Names(q[i], x, k)
    BY <2>1, <2>2, <2>5, ReplacedNames
  <2> QED
    BY <2>4, <2>5, <2>6, <2>7
<1>2. CASE i = 0 /\ Len(q) < RQ_SIZE[c]
  <2>1. JoinRQ(c, q, p) = Append(q, p)
    BY <1>2 DEF JoinRQ
  <2>2. \A j \in 1 .. Len(q) : LineOf[q[j].addr] # LineOf[p.addr]
    BY <1>2, FindFields DEF SameLine
  <2> QED
    BY <2>1, <2>2, AppendedNames
<1>3. CASE i = 0 /\ ~ Len(q) < RQ_SIZE[c]
  BY <1>3 DEF JoinRQ
<1> QED
  BY <1>1, <1>2, <1>3

LEMMA JoinedPQ ==
    ASSUME NEW c, NEW q \in Seq(Packet), Tidy(c, q), NEW p \in Packet, Sound(c, p)
    PROVE  LET n == JoinPQ(c, q, p)
           IN  /\ Tidy(c, n)
               /\ \A x, k : In(n, x, k) => In(q, x, k) \/ Names(p, x, k)
               /\ \A x, k : In(q, x, k) => In(n, x, k)
               /\ Find(q, p.addr) # 0 \/ Len(q) < PQ_SIZE[c]
                    => \A x, k : Names(p, x, k) => In(n, x, k)
<1> DEFINE i == Find(q, p.addr)
           f == Merge(q[i], p)
           e == [f EXCEPT !.fill = Lower(@, p.fill)]
<1>1. CASE i # 0
  <2>1. i \in 1 .. Len(q) /\ LineOf[q[i].addr] = LineOf[p.addr] /\ q[i] \in Packet
    BY <1>1, FindFields, ElementOfSeq DEF SameLine
  <2>2. /\ f \in Packet /\ f.addr = q[i].addr
        /\ f.to_return = q[i].to_return \cup p.to_return /\ f.deps = q[i].deps \cup p.deps
    BY <2>1, MergedPacket
  <2>3. Sound(c, q[i])
    BY <2>1 DEF Tidy
  <2>4. JoinPQ(c, q, p) = ReplaceAt(q, i, e)
    BY <1>1 DEF JoinPQ
  <2> HIDE DEF f
  <2>5. p.fill \in Nat
    BY DEF Packet
  <2>6. /\ e \in Packet /\ e.addr = f.addr
        /\ e.to_return = f.to_return /\ e.deps = f.deps
    BY <2>2, <2>5, LoweredFields
  <2> HIDE DEF e, i
  <2>7. Sound(c, e) /\ \A x, k : Names(e, x, k) <=> Names(q[i], x, k) \/ Names(p, x, k)
    BY <2>1, <2>2, <2>3, <2>6, MergedNames
  <2>8. \A x, k : Names(q[i], x, k) => In(q, x, k)
    BY <2>1 DEF In
  <2>9. /\ Tidy(c, ReplaceAt(q, i, e))
        /\ \A x, k : In(ReplaceAt(q, i, e), x, k) => In(q, x, k) \/ Names(e, x, k)
        /\ \A x, k : Names(e, x, k) => In(ReplaceAt(q, i, e), x, k)
        /\ \A x, k : In(q, x, k) => In(ReplaceAt(q, i, e), x, k) \/ Names(q[i], x, k)
    BY <2>1, <2>2, <2>6, <2>7, ReplacedNames
  <2> QED
    BY <2>4, <2>7, <2>8, <2>9
<1>2. CASE i = 0 /\ Len(q) < PQ_SIZE[c]
  <2>1. JoinPQ(c, q, p) = Append(q, p)
    BY <1>2 DEF JoinPQ
  <2>2. \A j \in 1 .. Len(q) : LineOf[q[j].addr] # LineOf[p.addr]
    BY <1>2, FindFields DEF SameLine
  <2> QED
    BY <2>1, <2>2, AppendedNames
<1>3. CASE i = 0 /\ ~ Len(q) < PQ_SIZE[c]
  BY <1>3 DEF JoinPQ
<1> QED
  BY <1>1, <1>2, <1>3

\* Returned entries stand before the ones that wait.
Ordered(l) == \A i, j \in 1 .. Len(l) : i < j /\ l[j].returned => l[i].returned

\* A miss that joins the entry in flight.  Where it replaces a prefetch, the names
\* that the prefetch carried are lost.
LEMMA CombinedNames ==
    ASSUME NEW c, NEW l \in Seq(MshrEntry), Tidy(c, l), NEW p \in Packet, Sound(c, p),
           Find(l, p.addr) # 0
    PROVE  LET i == Find(l, p.addr)
               n == ReplaceAt(l, i, Combine(l[i], p))
           IN  /\ Tidy(c, n)
               /\ \A x, k : In(n, x, k) => In(l, x, k) \/ Names(p, x, k)
               /\ \A x, k : Names(p, x, k) => In(n, x, k)
               /\ (Replaces(p, l[i]) => \A x, k : ~ Names(l[i], x, k))
                    => \A x, k : In(l, x, k) => In(n, x, k)
               /\ \A k : Waits(n, k) <=> Waits(l, k)
               /\ Ordered(l) => Ordered(n)
<1> DEFINE i == Find(l, p.addr)
           e == Combine(l[i], p)
           n == ReplaceAt(l, i, e)
<1>1. i \in 1 .. Len(l) /\ LineOf[l[i].addr] = LineOf[p.addr] /\ l[i] \in MshrEntry
  BY FindFields, ElementOfSeq DEF SameLine
<1> HIDE DEF i
<1>2. Sound(c, l[i])
  BY <1>1 DEF Tidy
<1>3. e \in MshrEntry /\ e.returned = l[i].returned /\ LineOf[e.addr] = LineOf[l[i].addr]
  BY <1>1, CombinedFields
<1>4. /\ Sound(c, e)
      /\ \A x, k : Names(e, x, k) => Names(l[i], x, k) \/ Names(p, x, k)
      /\ \A x, k : Names(p, x, k) => Names(e, x, k)
      /\ (Replaces(p, l[i]) => \A x, k : ~ Names(l[i], x, k))
            => \A x, k : Names(l[i], x, k) => Names(e, x, k)
  <2>1. CASE Replaces(p, l[i])
    <3>1. e.addr = p.addr /\ e.to_return = p.to_return /\ e.deps = p.deps
      BY <1>1, <2>1, CombinedFields
    <3> HIDE DEF e
    <3> QED
      BY <2>1, <3>1, SameNames
  <2>2. CASE ~ Replaces(p, l[i])
    <3>1. /\ e.addr = l[i].addr /\ e.to_return = l[i].to_return \cup p.to_return
          /\ e.deps = l[i].deps \cup p.deps
      BY <1>1, <2>2, CombinedFields
    <3> HIDE DEF e
    <3>2. Sound(c, e) /\ \A x, k : Names(e, x, k) <=> Names(l[i], x, k) \/ Names(p, x, k)
      BY <1>1, <1>2, <3>1, MergedNames
    <3> QED
      BY <3>2
  <2> QED
    BY <2>1, <2>2
<1> HIDE DEF e
<1>5. /\ Tidy(c, n)
      /\ \A x, k : In(n, x, k) => In(l, x, k) \/ Names(e, x, k)
      /\ \A x, k : Names(e, x, k) => In(n, x, k)
      /\ \A x, k : In(l, x, k) => In(n, x, k) \/ Names(l[i], x, k)
  BY <1>1, <1>3, <1>4, ReplacedNames
<1>6. \A x, k : Names(l[i], x, k) => In(l, x, k)
  BY <1>1 DEF In
<1>7. Len(n) = Len(l) /\ \A j \in 1 .. Len(l) : n[j] = IF j = i THEN e ELSE l[j]
  BY <1>3, ReplaceAtFields
<1> HIDE DEF n
<1>8. \A j \in 1 .. Len(l) : n[j].returned = l[j].returned /\ LineOf[n[j].addr] = LineOf[l[j].addr]
  BY <1>3, <1>7
<1>9. \A k : Waits(n, k) <=> Waits(l, k)
  BY <1>7, <1>8 DEF Waits
<1>10. Ordered(l) => Ordered(n)
  BY <1>7, <1>8 DEF Ordered
<1> QED
  BY <1>4, <1>5, <1>6, <1>9, <1>10 DEF n, e, i

\* A miss that takes an MSHR of its own.
LEMMA ReservedNames ==
    ASSUME NEW c, NEW l \in Seq(MshrEntry), Tidy(c, l), NEW p \in Packet, Sound(c, p),
           Find(l, p.addr) = 0
    PROVE  LET n == Append(l, Entry(p))
           IN  /\ Tidy(c, n)
               /\ \A x, k : In(n, x, k) <=> In(l, x, k) \/ Names(p, x, k)
               /\ \A k : Waits(n, k) <=> Waits(l, k) \/ k = LineOf[p.addr]
               /\ ~ Waits(l, LineOf[p.addr])
               /\ Ordered(l) => Ordered(n)
<1> DEFINE e == Entry(p)
           n == Append(l, e)
<1>1. /\ e \in MshrEntry /\ e.addr = p.addr /\ e.to_return = p.to_return /\ e.deps = p.deps
      /\ e.returned = FALSE
  BY EntryFields
<1> HIDE DEF e
<1>2. Sound(c, e) /\ \A x, k : Names(e, x, k) <=> Names(p, x, k)
  BY <1>1, SameNames
<1>3. \A j \in 1 .. Len(l) : LineOf[l[j].addr] # LineOf[e.addr]
  BY <1>1, FindFields DEF SameLine
<1>4. Tidy(c, n) /\ \A x, k : In(n, x, k) <=> In(l, x, k) \/ Names(e, x, k)
  BY <1>1, <1>2, <1>3, AppendedNames
<1>5. /\ Len(l) \in Nat /\ Len(n) = Len(l) + 1
      /\ \A j \in 1 .. Len(l) : n[j] = l[j]
      /\ n[Len(l) + 1] = e
  BY <1>1, AppendFields
<1> HIDE DEF n
<1>6. \A j \in 1 .. Len(n) : j \in 1 .. Len(l) \/ j = Len(l) + 1
  BY <1>5
<1>7. 1 .. Len(l) \subseteq 1 .. Len(n) /\ Len(l) + 1 \in 1 .. Len(n)
  BY <1>5
<1>8. ASSUME NEW k PROVE Waits(n, k) <=> Waits(l, k) \/ k = LineOf[p.addr]
  BY <1>1, <1>5, <1>6, <1>7 DEF Waits
<1>9. ~ Waits(l, LineOf[p.addr])
  BY <1>1, <1>3 DEF Waits
<1>10. ASSUME Ordered(l) PROVE Ordered(n)
  <2> SUFFICES ASSUME NEW i \in 1 .. Len(n), NEW j \in 1 .. Len(n), i < j, n[j].returned
               PROVE  n[i].returned
    BY DEF Ordered
  <2>1. j \in 1 .. Len(l)
    BY <1>1, <1>5, <1>6
  <2>2. i \in 1 .. Len(l)
    BY <1>5, <2>1
  <2> QED
    BY <1>5, <1>10, <2>1, <2>2 DEF Ordered
<1> QED
  BY <1>2, <1>4, <1>8, <1>9, <1>10 DEF n, e

\* return_data: the entry of the line is returned, and moves before the ones that wait.
LEMMA MarkedFields ==
    ASSUME NEW l \in Seq(MshrEntry), Distinct(l), NEW a, Waits(l, LineOf[a])
    PROVE  \E i, f \in 1 .. Len(l) :
              /\ LineOf[l[i].addr] = LineOf[a] /\ ~ l[i].returned
              /\ ~ l[f].returned /\ \A j \in 1 .. Len(l) : ~ l[j].returned => f <= j
              /\ Len(MarkReturned(l, a)) = Len(l)
              /\ \A j \in 1 .. Len(l) :
                    MarkReturned(l, a)[j] = IF j = f THEN Arrived(l[i])
                                            ELSE IF j = i THEN l[f] ELSE l[j]
<1> DEFINE i == Find(l, a)
           unreturned == {j \in DOMAIN l : ~ l[j].returned}
           first == CHOOSE j \in unreturned : \A k \in unreturned : j <= k
           once == ReplaceAt(l, i, l[first])
<1>1. PICK j \in 1 .. Len(l) : ~ l[j].returned /\ LineOf[l[j].addr] = LineOf[a]
  BY DEF Waits
<1>2. i \in 1 .. Len(l) /\ LineOf[l[i].addr] = LineOf[a]
  BY <1>1, FindFields DEF SameLine
<1>3. i = j
  BY <1>1, <1>2 DEF Distinct
<1>4. DOMAIN l = 1 .. Len(l)
  OBVIOUS
<1>5. first \in unreturned /\ \A k \in unreturned : first <= k
  <2>1. unreturned \in SUBSET Nat
    BY <1>4
  <2>2. unreturned # {}
    BY <1>1, <1>4
  <2> QED
    BY <2>1, <2>2, ChosenLeast
<1>6. i # 0 /\ unreturned # {}
  BY <1>2, <1>5
<1>7. MarkReturned(l, a) = ReplaceAt(once, first, Arrived(l[i]))
  BY <1>6 DEF MarkReturned, Arrived
<1>8. /\ first \in 1 .. Len(l) /\ ~ l[first].returned
      /\ \A k \in 1 .. Len(l) : ~ l[k].returned => first <= k
  BY <1>4, <1>5
<1> HIDE DEF i, first, unreturned
<1>9. l[first] \in MshrEntry /\ l[i] \in MshrEntry /\ Arrived(l[i]) \in MshrEntry
  BY <1>2, <1>8, ElementOfSeq, ArrivedFields
<1>10. /\ once \in Seq(MshrEntry) /\ Len(once) = Len(l)
       /\ \A k \in 1 .. Len(l) : once[k] = IF k = i THEN l[first] ELSE l[k]
  BY <1>9, ReplaceAtFields
<1> HIDE DEF once
<1>11. /\ Len(MarkReturned(l, a)) = Len(l)
       /\ \A k \in 1 .. Len(l) : MarkReturned(l, a)[k] = IF k = first THEN Arrived(l[i])
                                                         ELSE IF k = i THEN l[first] ELSE l[k]
  BY <1>7, <1>9, <1>10, ReplaceAtFields
<1> QED
  BY <1>1, <1>2, <1>3, <1>8, <1>11

LEMMA MarkedNames ==
    ASSUME NEW c, NEW l \in Seq(MshrEntry), Tidy(c, l), NEW a, Waits(l, LineOf[a])
    PROVE  LET n == MarkReturned(l, a)
           IN  /\ Tidy(c, n)
               /\ \A x, k : In(n, x, k) <=> In(l, x, k)
               /\ \A k : Waits(n, k) <=> Waits(l, k) /\ k # LineOf[a]
               /\ Ordered(l) => Ordered(n)
<1> DEFINE n == MarkReturned(l, a)
<1>1. PICK i \in 1 .. Len(l), f \in 1 .. Len(l) :
              /\ LineOf[l[i].addr] = LineOf[a] /\ ~ l[i].returned
              /\ ~ l[f].returned /\ \A j \in 1 .. Len(l) : ~ l[j].returned => f <= j
              /\ Len(n) = Len(l)
              /\ \A j \in 1 .. Len(l) : n[j] = IF j = f THEN Arrived(l[i])
                                               ELSE IF j = i THEN l[f] ELSE l[j]
  BY MarkedFields, SMTT(60) DEF Tidy
<1> HIDE DEF n
<1> DEFINE from(j) == IF j = f THEN i ELSE IF j = i THEN f ELSE j
<1>2. \A j \in 1 .. Len(l) : l[j] \in MshrEntry
  BY ElementOfSeq
<1>3. \A j \in 1 .. Len(l) : from(j) \in 1 .. Len(l) /\ from(from(j)) = j
  OBVIOUS
<1>4. ASSUME NEW j \in 1 .. Len(l)
      PROVE  /\ n[j].addr = l[from(j)].addr /\ n[j].to_return = l[from(j)].to_return
             /\ n[j].deps = l[from(j)].deps
             /\ n[j].returned = (j = f \/ (j # i /\ l[j].returned))
  <2>1. CASE j = f
    BY <1>1, <1>2, <2>1, ArrivedFields, ZenonT(60)
  <2>2. CASE j # f /\ j = i
    BY <1>1, <1>2, <2>2 DEF MshrEntry
  <2>3. CASE j # f /\ j # i
    BY <1>1, <1>2, <2>3 DEF MshrEntry
  <2> QED
    BY <2>1, <2>2, <2>3
<1> HIDE DEF from
<1>5. \A j \in 1 .. Len(l) : Sound(c, n[j]) /\ \A x, k : Names(n[j], x, k) <=> Names(l[from(j)], x, k)
  BY <1>3, <1>4, SameNames DEF Tidy
<1>6. Distinct(n)
  <2> SUFFICES ASSUME NEW j \in 1 .. Len(l), NEW k \in 1 .. Len(l),
                      LineOf[n[j].addr] = LineOf[n[k].addr]
               PROVE  j = k
    BY <1>1 DEF Distinct
  <2>1. from(j) = from(k)
    <3>1. Distinct(l)
      BY DEF Tidy
    <3>2. n[j].addr = l[from(j)].addr /\ n[k].addr = l[from(k)].addr
      BY <1>4
    <3>3. from(j) \in 1 .. Len(l) /\ from(k) \in 1 .. Len(l)
      BY <1>3
    <3> HIDE <1>3, <1>4
    <3> QED
      BY <3>1, <3>2, <3>3 DEF Distinct
  <2> QED
    BY <1>3, <2>1
<1>7. Tidy(c, n)
  BY <1>1, <1>5, <1>6 DEF Tidy
<1>8. ASSUME NEW x, NEW k PROVE In(n, x, k) <=> In(l, x, k)
  <2>1. ASSUME In(n, x, k) PROVE In(l, x, k)
    BY <1>1, <1>3, <1>5, <2>1 DEF In
  <2>2. ASSUME In(l, x, k) PROVE In(n, x, k)
    <3>1. PICK j \in 1 .. Len(l) : Names(l[j], x, k)
      BY <2>2 DEF In
    <3>2. from(j) \in 1 .. Len(l) /\ Names(n[from(j)], x, k)
      BY <1>3, <1>5, <3>1
    <3> QED
      BY <1>1, <3>2 DEF In
  <2> QED
    BY <2>1, <2>2
<1>9. ASSUME NEW k PROVE Waits(n, k) <=> Waits(l, k) /\ k # LineOf[a]
  <2>1. ASSUME Waits(n, k) PROVE Waits(l, k) /\ k # LineOf[a]
    <3>1. PICK j \in 1 .. Len(l) : ~ n[j].returned /\ LineOf[n[j].addr] = k
      BY <1>1, <2>1 DEF Waits
    <3>2. j # f /\ (j = i \/ ~ l[j].returned)
      BY <1>4, <3>1
    <3>3. from(j) # i /\ ~ l[from(j)].returned
      BY <1>1, <3>2 DEF from
    <3>4. LineOf[l[from(j)].addr] = k /\ from(j) \in 1 .. Len(l)
      BY <1>3, <1>4, <3>1
    <3>5. k # LineOf[a]
      BY <1>1, <3>3, <3>4 DEF Tidy, Distinct
    <3> QED
      BY <3>3, <3>4, <3>5 DEF Waits
  <2>2. ASSUME Waits(l, k), k # LineOf[a] PROVE Waits(n, k)
    <3>1. PICK j \in 1 .. Len(l) : ~ l[j].returned /\ LineOf[l[j].addr] = k
      BY <2>2 DEF Waits
    <3>2. j # i
      BY <1>1, <2>2, <3>1
    <3>3. from(j) # f /\ (from(j) = i \/ from(j) = j)
      BY <3>2 DEF from
    <3>4. from(j) \in 1 .. Len(l) /\ LineOf[n[from(j)].addr] = k
      BY <1>3, <1>4, <3>1
    <3>5. ~ n[from(j)].returned
      BY <1>4, <3>1, <3>3, <3>4
    <3> QED
      BY <1>1, <3>4, <3>5 DEF Waits
  <2> QED
    BY <2>1, <2>2
<1>10. ASSUME Ordered(l) PROVE Ordered(n)
  <2>1. Len(l) \in Nat
    OBVIOUS
  <2>2. \A j \in 1 .. Len(l) : l[j].returned <=> j < f
    BY <1>1, <1>10, <2>1 DEF Ordered
  <2>3. f <= i
    BY <1>1
  <2>4. ASSUME NEW j \in 1 .. Len(l) PROVE n[j].returned <=> j <= f
    <3>1. n[j].returned <=> j = f \/ (j # i /\ l[j].returned)
      BY <1>4
    <3>2. l[j].returned <=> j < f
      BY <2>2
    <3> QED
      BY <2>1, <2>3, <3>1, <3>2
  <2> QED
    BY <1>1, <2>1, <2>4 DEF Ordered
<1> QED
  BY <1>7, <1>8, <1>9, <1>10 DEF n

-----------------------------------------------------------------------------
\* The ledger: whatever is on its way is owed, by one MSHR or one load, and no two
\* things on their way carry the same name.

Receiver == Cache \cup Lone

LineOnce(g) == \A o, p \in g : LineOf[o.addr] = LineOf[p.addr] => o = p

Lists(r, q, m, g) ==
    /\ \A c \in Cache : /\ Tidy(c, r[c]) /\ Tidy(c, q[c]) /\ Tidy(c, m[c])
                        /\ Ordered(m[c])
    /\ \A p \in g : Sound(Memory, p)
    /\ LineOnce(g)

\* Carried at cache c.
Here(r, q, m, c, x, k) == In(r[c], x, k) \/ In(q[c], x, k) \/ In(m[c], x, k)

Apart(r, q, m) ==
    \A c \in Cache : \A x, k : /\ ~ (In(r[c], x, k) /\ In(q[c], x, k))
                               /\ ~ (In(r[c], x, k) /\ In(m[c], x, k))
                               /\ ~ (In(q[c], x, k) /\ In(m[c], x, k))

Claims(r, q, m, g, w) ==
    \A x \in Receiver : \A k : At(r, q, m, g, x, k) => Owed(m, w, x, k)

Ledger(r, q, m, g, w) == Lists(r, q, m, g) /\ Apart(r, q, m) /\ Claims(r, q, m, g, w)

\* A packet that a handler holds at level b: taken from its queue and not passed on.
InHand(b, p, r, q, m, g, w) ==
    /\ Sound(b, p)
    /\ \A x, k : Names(p, x, k) => Owed(m, w, x, k) /\ ~ At(r, q, m, g, x, k)

\* Nothing that is owed is lost, but for what the packet in hand carries.
DueBut(p, r, q, m, g, w) ==
    \A x \in Receiver : \A k : Owed(m, w, x, k) => At(r, q, m, g, x, k) \/ Names(p, x, k)

Due(r, q, m, g, w) ==
    \A x \in Receiver : \A k : Owed(m, w, x, k) => At(r, q, m, g, x, k)

LEMMA AtLevel ==
    ASSUME NEW c \in Cache, NEW x, NEW k, Below[x] = c, NEW r, NEW q, NEW m, NEW g
    PROVE  At(r, q, m, g, x, k) <=> Here(r, q, m, c, x, k)
BY TopologyAssumption DEF At, Here

LEMMA NamedReceivers ==
    ASSUME NEW x, NEW k, NEW p, Names(p, x, k)
    PROVE  x \in Receiver
BY DEF Names, Receiver

LEMMA InNames ==
    ASSUME NEW c, NEW l, Tidy(c, l), NEW x, NEW k, In(l, x, k)
    PROVE  x \in Receiver /\ Below[x] = c
BY NamedNodes DEF Tidy, In, Receiver

\* Where only the lists of cache c differ, only what is carried there differs.
LEMMA AtElsewhere ==
    ASSUME NEW r, NEW q, NEW m, NEW n, NEW o, NEW l, NEW g, NEW c \in Cache,
           \A d \in Cache : d # c => n[d] = r[d] /\ o[d] = q[d] /\ l[d] = m[d],
           NEW x \in Receiver, NEW k, Below[x] # c
    PROVE  At(n, o, l, g, x, k) <=> At(r, q, m, g, x, k)
<1>1. Below[x] \in Cache \cup {Memory}
  BY TopologyAssumption DEF Lone, Receiver
<1> QED
  BY <1>1 DEF At

LEMMA LevelChanged ==
    ASSUME NEW r, NEW q, NEW m, NEW n, NEW o, NEW l, NEW g, NEW c \in Cache, NEW p,
           \A d \in Cache : d # c => n[d] = r[d] /\ o[d] = q[d] /\ l[d] = m[d]
    PROVE  /\ (\A x, k : Here(n, o, l, c, x, k) => Here(r, q, m, c, x, k))
              => \A x \in Receiver : \A k : At(n, o, l, g, x, k) => At(r, q, m, g, x, k)
           /\ (\A x, k : Here(n, o, l, c, x, k) => Here(r, q, m, c, x, k) \/ Names(p, x, k))
              => \A x \in Receiver : \A k : At(n, o, l, g, x, k)
                                        => At(r, q, m, g, x, k) \/ Names(p, x, k)
<1>1. ASSUME NEW x \in Receiver, NEW k, Below[x] # c
      PROVE  At(n, o, l, g, x, k) <=> At(r, q, m, g, x, k)
  BY <1>1, AtElsewhere
<1>2. ASSUME NEW x \in Receiver, NEW k, Below[x] = c
      PROVE  /\ At(n, o, l, g, x, k) <=> Here(n, o, l, c, x, k)
             /\ At(r, q, m, g, x, k) <=> Here(r, q, m, c, x, k)
  BY <1>2, AtLevel
<1> QED
  BY <1>1, <1>2

LEMMA TakeRQ ==
    ASSUME NEW r, NEW q, NEW m, NEW g, NEW w, Requests(r, q, m, g, w),
           Ledger(r, q, m, g, w), NEW c \in Cache, r[c] # <<>>
    PROVE  LET n == [r EXCEPT ![c] = Tail(@)]
               p == Head(r[c])
           IN  /\ Ledger(n, q, m, g, w)
               /\ InHand(c, p, n, q, m, g, w)
               /\ Due(r, q, m, g, w) => DueBut(p, n, q, m, g, w)
<1> DEFINE n == [r EXCEPT ![c] = Tail(@)]
           p == Head(r[c])
<1>1. /\ r[c] \in Seq(Packet)
      /\ n[c] = Tail(r[c]) /\ \A d \in Cache : d # c => n[d] = r[d]
  BY DEF Requests, Queues
<1>2. Tidy(c, r[c])
  BY DEF Ledger, Lists
<1>3. /\ Tidy(c, n[c]) /\ Sound(c, p)
      /\ \A x, k : In(r[c], x, k) <=> In(n[c], x, k) \/ Names(p, x, k)
      /\ \A x, k : ~ (In(n[c], x, k) /\ Names(p, x, k))
  BY <1>1, <1>2, TailNames
<1> HIDE DEF n, p
<1>4. /\ \A x, k : Here(n, q, m, c, x, k) => Here(r, q, m, c, x, k)
      /\ \A x, k : Here(r, q, m, c, x, k) => Here(n, q, m, c, x, k) \/ Names(p, x, k)
  BY <1>3 DEF Here
<1>5. /\ \A x \in Receiver : \A k : At(n, q, m, g, x, k) => At(r, q, m, g, x, k)
      /\ \A x \in Receiver : \A k : At(r, q, m, g, x, k)
                                  => At(n, q, m, g, x, k) \/ Names(p, x, k)
  BY <1>1, <1>4, LevelChanged, ZenonT(60)
<1>6. Lists(n, q, m, g)
  BY <1>1, <1>3 DEF Ledger, Lists
<1>7. Apart(n, q, m)
  BY <1>1, <1>3 DEF Ledger, Apart
<1>8. Claims(n, q, m, g, w)
  BY <1>5 DEF Ledger, Claims
<1>9. ASSUME NEW x, NEW k, Names(p, x, k)
      PROVE  Owed(m, w, x, k) /\ ~ At(n, q, m, g, x, k)
  <2>1. In(r[c], x, k) /\ ~ In(n[c], x, k)
    BY <1>3, <1>9
  <2>2. x \in Receiver /\ Below[x] = c
    BY <1>2, <2>1, InNames
  <2>3. Owed(m, w, x, k)
    BY <2>1, <2>2, AtLevel DEF Ledger, Claims, Here
  <2>4. ~ Here(n, q, m, c, x, k)
    BY <2>1 DEF Ledger, Apart, Here
  <2> QED
    BY <2>2, <2>3, <2>4, AtLevel
<1>10. Due(r, q, m, g, w) => DueBut(p, n, q, m, g, w)
  BY <1>5 DEF Due, DueBut
<1> QED
  BY <1>3, <1>6, <1>7, <1>8, <1>9, <1>10 DEF Ledger, InHand, n, p

LEMMA TakePQ ==
    ASSUME NEW r, NEW q, NEW m, NEW g, NEW w, Requests(r, q, m, g, w),
           Ledger(r, q, m, g, w), NEW c \in Cache, q[c] # <<>>
    PROVE  LET n == [q EXCEPT ![c] = Tail(@)]
               p == Head(q[c])
           IN  /\ Ledger(r, n, m, g, w)
               /\ InHand(c, p, r, n, m, g, w)
               /\ Due(r, q, m, g, w) => DueBut(p, r, n, m, g, w)
<1> DEFINE n == [q EXCEPT ![c] = Tail(@)]
           p == Head(q[c])
<1>1. /\ q[c] \in Seq(Packet)
      /\ n[c] = Tail(q[c]) /\ \A d \in Cache : d # c => n[d] = q[d]
  BY DEF Requests, Queues
<1>2. Tidy(c, q[c])
  BY DEF Ledger, Lists
<1>3. /\ Tidy(c, n[c]) /\ Sound(c, p)
      /\ \A x, k : In(q[c], x, k) <=> In(n[c], x, k) \/ Names(p, x, k)
      /\ \A x, k : ~ (In(n[c], x, k) /\ Names(p, x, k))
  BY <1>1, <1>2, TailNames
<1> HIDE DEF n, p
<1>4. /\ \A x, k : Here(r, n, m, c, x, k) => Here(r, q, m, c, x, k)
      /\ \A x, k : Here(r, q, m, c, x, k) => Here(r, n, m, c, x, k) \/ Names(p, x, k)
  BY <1>3 DEF Here
<1>5. /\ \A x \in Receiver : \A k : At(r, n, m, g, x, k) => At(r, q, m, g, x, k)
      /\ \A x \in Receiver : \A k : At(r, q, m, g, x, k)
                                  => At(r, n, m, g, x, k) \/ Names(p, x, k)
  BY <1>1, <1>4, LevelChanged, ZenonT(60)
<1>6. Lists(r, n, m, g)
  BY <1>1, <1>3 DEF Ledger, Lists
<1>7. Apart(r, n, m)
  BY <1>1, <1>3 DEF Ledger, Apart
<1>8. Claims(r, n, m, g, w)
  BY <1>5 DEF Ledger, Claims
<1>9. ASSUME NEW x, NEW k, Names(p, x, k)
      PROVE  Owed(m, w, x, k) /\ ~ At(r, n, m, g, x, k)
  <2>1. In(q[c], x, k) /\ ~ In(n[c], x, k)
    BY <1>3, <1>9
  <2>2. x \in Receiver /\ Below[x] = c
    BY <1>2, <2>1, InNames
  <2>3. Owed(m, w, x, k)
    BY <2>1, <2>2, AtLevel DEF Ledger, Claims, Here
  <2>4. ~ Here(r, n, m, c, x, k)
    BY <2>1 DEF Ledger, Apart, Here
  <2> QED
    BY <2>2, <2>3, <2>4, AtLevel
<1>10. Due(r, q, m, g, w) => DueBut(p, r, n, m, g, w)
  BY <1>5 DEF Due, DueBut
<1> QED
  BY <1>3, <1>6, <1>7, <1>8, <1>9, <1>10 DEF Ledger, InHand, n, p

LEMMA OwedKept ==
    ASSUME NEW m, NEW n, NEW w, \A d \in Cache : \A k : Waits(n[d], k) <=> Waits(m[d], k)
    PROVE  \A x, k : Owed(n, w, x, k) <=> Owed(m, w, x, k)
BY DEF Owed

LEMMA TailWaits ==
    ASSUME NEW l \in Seq(MshrEntry), l # <<>>, Head(l).returned
    PROVE  /\ \A k : Waits(Tail(l), k) <=> Waits(l, k)
           /\ Ordered(l) => Ordered(Tail(l))
<1> DEFINE n == Tail(l)
<1>1. /\ Len(l) \in Nat /\ Len(l) >= 1 /\ l[1].returned /\ Len(n) = Len(l) - 1
      /\ \A j \in 1 .. Len(l) - 1 : n[j] = l[j + 1]
  BY TailFields
<1> HIDE DEF n
<1>2. \A j \in 1 .. Len(n) : j + 1 \in 1 .. Len(l) /\ n[j] = l[j + 1]
  BY <1>1
<1>3. \A j \in 1 .. Len(l) : j = 1 \/ (j - 1 \in 1 .. Len(n) /\ n[j - 1] = l[j])
  BY <1>1
<1>4. ASSUME NEW k PROVE Waits(n, k) <=> Waits(l, k)
  BY <1>1, <1>2, <1>3 DEF Waits
<1>5. ASSUME Ordered(l) PROVE Ordered(n)
  <2> SUFFICES ASSUME NEW i \in 1 .. Len(n), NEW j \in 1 .. Len(n), i < j, n[j].returned
               PROVE  n[i].returned
    BY DEF Ordered
  <2>1. i + 1 < j + 1
    BY <1>1
  <2> QED
    BY <1>2, <1>5, <2>1 DEF Ordered
<1> QED
  BY <1>4, <1>5 DEF n

LEMMA TakeMSHR ==
    ASSUME NEW r, NEW q, NEW m, NEW g, NEW w, Requests(r, q, m, g, w),
           Ledger(r, q, m, g, w), NEW c \in Cache, m[c] # <<>>, Head(m[c]).returned
    PROVE  LET n == [m EXCEPT ![c] = Tail(@)]
               p == Head(m[c])
           IN  /\ Ledger(r, q, n, g, w)
               /\ InHand(c, p, r, q, n, g, w)
               /\ Due(r, q, m, g, w) => DueBut(p, r, q, n, g, w)
<1> DEFINE n == [m EXCEPT ![c] = Tail(@)]
           p == Head(m[c])
<1>1. /\ m[c] \in Seq(MshrEntry)
      /\ n[c] = Tail(m[c]) /\ \A d \in Cache : d # c => n[d] = m[d]
  BY DEF Requests, Queues
<1>2. Tidy(c, m[c]) /\ Ordered(m[c])
  BY DEF Ledger, Lists
<1>3. /\ Tidy(c, n[c]) /\ Sound(c, p)
      /\ \A x, k : In(m[c], x, k) <=> In(n[c], x, k) \/ Names(p, x, k)
      /\ \A x, k : ~ (In(n[c], x, k) /\ Names(p, x, k))
  BY <1>1, <1>2, TailNames
<1>4. Ordered(n[c]) /\ \A k : Waits(n[c], k) <=> Waits(m[c], k)
  BY <1>1, <1>2, TailWaits
<1> HIDE DEF n, p
<1>5. \A x, k : Owed(n, w, x, k) <=> Owed(m, w, x, k)
  <2>1. \A d \in Cache : \A k : Waits(n[d], k) <=> Waits(m[d], k)
    BY <1>1, <1>4
  <2> QED
    BY <2>1, OwedKept
<1>6. /\ \A x, k : Here(r, q, n, c, x, k) => Here(r, q, m, c, x, k)
      /\ \A x, k : Here(r, q, m, c, x, k) => Here(r, q, n, c, x, k) \/ Names(p, x, k)
  BY <1>3 DEF Here
<1>7. /\ \A x \in Receiver : \A k : At(r, q, n, g, x, k) => At(r, q, m, g, x, k)
      /\ \A x \in Receiver : \A k : At(r, q, m, g, x, k)
                                  => At(r, q, n, g, x, k) \/ Names(p, x, k)
  BY <1>1, <1>6, LevelChanged
<1>8. Lists(r, q, n, g)
  BY <1>1, <1>3, <1>4 DEF Ledger, Lists
<1>9. Apart(r, q, n)
  BY <1>1, <1>3 DEF Ledger, Apart
<1>10. Claims(r, q, n, g, w)
  BY <1>5, <1>7 DEF Ledger, Claims
<1>11. ASSUME NEW x, NEW k, Names(p, x, k)
       PROVE  Owed(n, w, x, k) /\ ~ At(r, q, n, g, x, k)
  <2>1. In(m[c], x, k) /\ ~ In(n[c], x, k)
    BY <1>3, <1>11
  <2>2. x \in Receiver /\ Below[x] = c
    BY <1>2, <2>1, InNames
  <2>3. Owed(n, w, x, k)
    BY <1>5, <2>1, <2>2, AtLevel DEF Ledger, Claims, Here
  <2>4. ~ Here(r, q, n, c, x, k)
    BY <2>1 DEF Ledger, Apart, Here
  <2> QED
    BY <2>2, <2>3, <2>4, AtLevel
<1>12. Due(r, q, m, g, w) => DueBut(p, r, q, n, g, w)
  BY <1>5, <1>7 DEF Due, DueBut
<1> QED
  BY <1>3, <1>8, <1>9, <1>10, <1>11, <1>12 DEF Ledger, InHand, n, p

LEMMA TakeMemory ==
    ASSUME NEW r, NEW q, NEW m, NEW g, NEW w, Ledger(r, q, m, g, w), NEW p \in g
    PROVE  /\ Ledger(r, q, m, g \ {p}, w)
           /\ InHand(Memory, p, r, q, m, g \ {p}, w)
           /\ Due(r, q, m, g, w) => DueBut(p, r, q, m, g \ {p}, w)
<1> DEFINE n == g \ {p}
<1>1. \A o : o \in n <=> o \in g /\ o # p
  OBVIOUS
<1> HIDE DEF n
<1>2. \A o \in g : Sound(Memory, o)
  BY DEF Ledger, Lists
<1>3. \A x, k : InSet(g, x, k) <=> InSet(n, x, k) \/ Names(p, x, k)
  BY <1>1 DEF InSet
<1>4. ASSUME NEW x, NEW k, InSet(n, x, k), Names(p, x, k) PROVE FALSE
  <2>1. PICK o \in n : Names(o, x, k)
    BY <1>4 DEF InSet
  <2>2. LineOf[o.addr] = LineOf[p.addr]
    BY <1>1, <1>2, <1>4, <2>1, NamesIdentify
  <2> QED
    BY <1>1, <2>2 DEF Ledger, Lists, LineOnce
<1>5. \A x, k : At(r, q, m, n, x, k) => At(r, q, m, g, x, k)
  BY <1>3 DEF At
<1>6. \A x, k : At(r, q, m, g, x, k) => At(r, q, m, n, x, k) \/ Names(p, x, k)
  BY <1>3 DEF At
<1>7. Ledger(r, q, m, n, w)
  BY <1>1, <1>5 DEF Ledger, Lists, LineOnce, Claims
<1>8. ASSUME NEW x, NEW k, Names(p, x, k)
      PROVE  Owed(m, w, x, k) /\ ~ At(r, q, m, n, x, k)
  <2>1. x \in Receiver /\ Below[x] = Memory
    BY <1>2, <1>8, NamedReceivers, NamedNodes
  <2>2. At(r, q, m, g, x, k)
    BY <1>3, <1>8, <2>1 DEF At
  <2> QED
    BY <1>4, <1>8, <2>1, <2>2 DEF At, Ledger, Claims
<1> QED
  BY <1>2, <1>6, <1>7, <1>8 DEF InHand, Due, DueBut, n

\* The packet in hand joins the RQ of the cache.
LEMMA EnterRQ ==
    ASSUME NEW r, NEW q, NEW m, NEW g, NEW w, Requests(r, q, m, g, w),
           Ledger(r, q, m, g, w), NEW c \in Cache, NEW p \in Packet,
           InHand(c, p, r, q, m, g, w)
    PROVE  LET n == [r EXCEPT ![c] = JoinRQ(c, @, p)]
           IN  /\ Ledger(n, q, m, g, w)
               /\ (\/ Find(r[c], p.addr) # 0 \/ Len(r[c]) < RQ_SIZE[c]
                   \/ p.to_return = {})
                   /\ DueBut(p, r, q, m, g, w) => Due(n, q, m, g, w)
<1> DEFINE n == [r EXCEPT ![c] = JoinRQ(c, @, p)]
           fits == \/ Find(r[c], p.addr) # 0 \/ Len(r[c]) < RQ_SIZE[c]
                   \/ p.to_return = {}
<1>1. /\ r[c] \in Seq(Packet)
      /\ n[c] = JoinRQ(c, r[c], p) /\ \A d \in Cache : d # c => n[d] = r[d]
  BY DEF Requests, Queues
<1>2. Tidy(c, r[c]) /\ Sound(c, p)
  BY DEF Ledger, Lists, InHand
<1>3. /\ Tidy(c, n[c])
      /\ \A x, k : In(n[c], x, k) => In(r[c], x, k) \/ Names(p, x, k)
      /\ \A x, k : In(r[c], x, k) => In(n[c], x, k)
      /\ fits => \A x, k : Names(p, x, k) => In(n[c], x, k)
  <2>1. p.to_return = {} => \A x, k : ~ Names(p, x, k)
    BY DEF Names
  <2> QED
    BY <1>1, <1>2, <2>1, JoinedRQ
<1> HIDE DEF n, fits
<1>4. /\ \A x, k : Here(r, q, m, c, x, k) => Here(n, q, m, c, x, k)
      /\ \A x, k : Here(n, q, m, c, x, k) => Here(r, q, m, c, x, k) \/ Names(p, x, k)
  BY <1>3 DEF Here
<1>5. /\ \A x \in Receiver : \A k : At(r, q, m, g, x, k) => At(n, q, m, g, x, k)
      /\ \A x \in Receiver : \A k : At(n, q, m, g, x, k)
                                  => At(r, q, m, g, x, k) \/ Names(p, x, k)
  <2>1. \A d \in Cache : d # c => r[d] = n[d]
    BY <1>1
  <2>2. \A x \in Receiver : \A k : At(r, q, m, g, x, k) => At(n, q, m, g, x, k)
    BY <1>4, <2>1, LevelChanged
  <2>3. \A x \in Receiver : \A k : At(n, q, m, g, x, k)
                                 => At(r, q, m, g, x, k) \/ Names(p, x, k)
    BY <1>1, <1>4, LevelChanged
  <2> QED
    BY <2>2, <2>3
<1>6. Lists(n, q, m, g)
  BY <1>1, <1>3 DEF Ledger, Lists
<1>7. \A x, k : Names(p, x, k) => Owed(m, w, x, k) /\ ~ Here(r, q, m, c, x, k)
  BY <1>2, NamedNodes, AtLevel DEF InHand
<1>8. Apart(n, q, m)
  BY <1>1, <1>3, <1>7 DEF Ledger, Apart, Here
<1>9. Claims(n, q, m, g, w)
  BY <1>5, <1>7 DEF Ledger, Claims
<1>10. fits => \A x \in Receiver : \A k : Names(p, x, k) => At(n, q, m, g, x, k)
  BY <1>2, <1>3, NamedNodes, AtLevel DEF Here
<1>11. fits /\ DueBut(p, r, q, m, g, w) => Due(n, q, m, g, w)
  BY <1>5, <1>10 DEF Due, DueBut
<1> QED
  BY <1>6, <1>8, <1>9, <1>11 DEF Ledger, n, fits

\* The packet in hand joins the PQ of the cache.
LEMMA EnterPQ ==
    ASSUME NEW r, NEW q, NEW m, NEW g, NEW w, Requests(r, q, m, g, w),
           Ledger(r, q, m, g, w), NEW c \in Cache, NEW p \in Packet,
           InHand(c, p, r, q, m, g, w)
    PROVE  LET n == [q EXCEPT ![c] = JoinPQ(c, @, p)]
           IN  /\ Ledger(r, n, m, g, w)
               /\ (\/ Find(q[c], p.addr) # 0 \/ Len(q[c]) < PQ_SIZE[c]
                   \/ p.to_return = {})
                   /\ DueBut(p, r, q, m, g, w) => Due(r, n, m, g, w)
<1> DEFINE n == [q EXCEPT ![c] = JoinPQ(c, @, p)]
           fits == \/ Find(q[c], p.addr) # 0 \/ Len(q[c]) < PQ_SIZE[c]
                   \/ p.to_return = {}
<1>1. /\ q[c] \in Seq(Packet)
      /\ n[c] = JoinPQ(c, q[c], p) /\ \A d \in Cache : d # c => n[d] = q[d]
  BY DEF Requests, Queues
<1>2. Tidy(c, q[c]) /\ Sound(c, p)
  BY DEF Ledger, Lists, InHand
<1>3. /\ Tidy(c, n[c])
      /\ \A x, k : In(n[c], x, k) => In(q[c], x, k) \/ Names(p, x, k)
      /\ \A x, k : In(q[c], x, k) => In(n[c], x, k)
      /\ fits => \A x, k : Names(p, x, k) => In(n[c], x, k)
  <2>1. p.to_return = {} => \A x, k : ~ Names(p, x, k)
    BY DEF Names
  <2> QED
    BY <1>1, <1>2, <2>1, JoinedPQ
<1> HIDE DEF n, fits
<1>4. /\ \A x, k : Here(r, q, m, c, x, k) => Here(r, n, m, c, x, k)
      /\ \A x, k : Here(r, n, m, c, x, k) => Here(r, q, m, c, x, k) \/ Names(p, x, k)
  BY <1>3 DEF Here
<1>5. /\ \A x \in Receiver : \A k : At(r, q, m, g, x, k) => At(r, n, m, g, x, k)
      /\ \A x \in Receiver : \A k : At(r, n, m, g, x, k)
                                  => At(r, q, m, g, x, k) \/ Names(p, x, k)
  <2>1. \A d \in Cache : d # c => q[d] = n[d]
    BY <1>1
  <2>2. \A x \in Receiver : \A k : At(r, q, m, g, x, k) => At(r, n, m, g, x, k)
    BY <1>4, <2>1, LevelChanged
  <2>3. \A x \in Receiver : \A k : At(r, n, m, g, x, k)
                                 => At(r, q, m, g, x, k) \/ Names(p, x, k)
    BY <1>1, <1>4, LevelChanged
  <2> QED
    BY <2>2, <2>3
<1>6. Lists(r, n, m, g)
  BY <1>1, <1>3 DEF Ledger, Lists
<1>7. \A x, k : Names(p, x, k) => Owed(m, w, x, k) /\ ~ Here(r, q, m, c, x, k)
  BY <1>2, NamedNodes, AtLevel DEF InHand
<1>8. Apart(r, n, m)
  BY <1>1, <1>3, <1>7 DEF Ledger, Apart, Here
<1>9. Claims(r, n, m, g, w)
  BY <1>5, <1>7 DEF Ledger, Claims
<1>10. fits => \A x \in Receiver : \A k : Names(p, x, k) => At(r, n, m, g, x, k)
  BY <1>2, <1>3, NamedNodes, AtLevel DEF Here
<1>11. fits /\ DueBut(p, r, q, m, g, w) => Due(r, n, m, g, w)
  BY <1>5, <1>10 DEF Due, DueBut
<1> QED
  BY <1>6, <1>8, <1>9, <1>11 DEF Ledger, n, fits

\* It joins the reads of the memory.
LEMMA EnterMemory ==
    ASSUME NEW r, NEW q, NEW m, NEW w, Ledger(r, q, m, memRQ, w),
           memRQ \subseteq Packet, NEW p \in Packet, InHand(Memory, p, r, q, m, memRQ, w)
    PROVE  LET n == JoinMemRQ(p)
           IN  /\ Ledger(r, q, m, n, w)
               /\ Cardinality(memRQ) < MEM_RQ_SIZE /\ DueBut(p, r, q, m, memRQ, w)
                    => Due(r, q, m, n, w)
<1> DEFINE n == JoinMemRQ(p)
           same == {e \in memRQ : SameLine(e.addr, p.addr)}
           fits == Cardinality(memRQ) < MEM_RQ_SIZE
<1>1. /\ \A e \in memRQ : Sound(Memory, e) /\ e \in Packet
      /\ Sound(Memory, p) /\ LineOnce(memRQ)
  BY DEF Ledger, Lists, InHand
<1>2. /\ \A e \in n : Sound(Memory, e)
      /\ LineOnce(n)
      /\ \A x, k : InSet(n, x, k) => InSet(memRQ, x, k) \/ Names(p, x, k)
      /\ \A x, k : InSet(memRQ, x, k) => InSet(n, x, k)
      /\ fits => \A x, k : Names(p, x, k) => InSet(n, x, k)
  <2>1. CASE same # {}
    <3>1. PICK e \in memRQ : SameLine(e.addr, p.addr)
      BY <2>1
    <3> DEFINE f == Merge(e, p)
    <3>2. /\ f.addr = e.addr
          /\ f.to_return = e.to_return \cup p.to_return /\ f.deps = e.deps \cup p.deps
      BY <1>1, MergedPacket
    <3>3. \A o \in memRQ : SameLine(o.addr, p.addr) <=> o = e
      BY <1>1, <3>1 DEF LineOnce, SameLine
    <3>4. n = (memRQ \ same) \cup {Merge(o, p) : o \in same}
      BY <2>1 DEF JoinMemRQ
    <3>5. \A o : o \in n <=> (o \in memRQ /\ o # e) \/ o = f
      BY <3>1, <3>3, <3>4
    <3> HIDE DEF n, f
    <3>6. Sound(Memory, f) /\ \A x, k : Names(f, x, k) <=> Names(e, x, k) \/ Names(p, x, k)
      BY <1>1, <3>1, <3>2, MergedNames DEF SameLine
    <3>7. LineOnce(n)
      BY <1>1, <3>2, <3>5 DEF LineOnce
    <3> QED
      BY <1>1, <3>5, <3>6, <3>7 DEF InSet
  <2>2. CASE same = {} /\ fits
    <3>1. n = memRQ \cup {p}
      BY <2>2 DEF JoinMemRQ
    <3>2. \A e \in memRQ : LineOf[e.addr] # LineOf[p.addr]
      BY <2>2 DEF SameLine
    <3> HIDE DEF n, same
    <3> QED
      BY <1>1, <3>1, <3>2 DEF InSet, LineOnce
  <2>3. CASE same = {} /\ ~ fits
    <3>1. n = memRQ
      BY <2>3 DEF JoinMemRQ
    <3> QED
      BY <1>1, <2>3, <3>1
  <2> QED
    BY <2>1, <2>2, <2>3
<1> HIDE DEF n, fits
<1>3. /\ \A x, k : At(r, q, m, memRQ, x, k) => At(r, q, m, n, x, k)
      /\ \A x, k : At(r, q, m, n, x, k) => At(r, q, m, memRQ, x, k) \/ Names(p, x, k)
  BY <1>2 DEF At
<1>4. Ledger(r, q, m, n, w)
  BY <1>2, <1>3 DEF Ledger, Lists, Claims, InHand
<1>5. fits => \A x, k : Names(p, x, k) => At(r, q, m, n, x, k)
  BY <1>1, <1>2, NamedNodes DEF At
<1>6. fits /\ DueBut(p, r, q, m, memRQ, w) => Due(r, q, m, n, w)
  BY <1>3, <1>5 DEF Due, DueBut
<1> QED
  BY <1>4, <1>6 DEF n, fits

\* It joins the entry that is in flight for its line.
LEMMA EnterMSHR ==
    ASSUME NEW r, NEW q, NEW m, NEW g, NEW w, Requests(r, q, m, g, w),
           Ledger(r, q, m, g, w), NEW c \in Cache, NEW p \in Packet,
           InHand(c, p, r, q, m, g, w), Find(m[c], p.addr) # 0
    PROVE  LET i == Find(m[c], p.addr)
               n == [m EXCEPT ![c] = ReplaceAt(@, i, Combine(@[i], p))]
           IN  /\ Ledger(r, q, n, g, w)
               /\ (Replaces(p, m[c][i]) => m[c][i].to_return = {})
                   /\ DueBut(p, r, q, m, g, w) => Due(r, q, n, g, w)
<1> DEFINE i == Find(m[c], p.addr)
           n == [m EXCEPT ![c] = ReplaceAt(@, i, Combine(@[i], p))]
           kept == Replaces(p, m[c][i]) => m[c][i].to_return = {}
<1>1. /\ m[c] \in Seq(MshrEntry)
      /\ n[c] = ReplaceAt(m[c], i, Combine(m[c][i], p))
      /\ \A d \in Cache : d # c => n[d] = m[d]
  BY DEF Requests, Queues
<1>2. Tidy(c, m[c]) /\ Ordered(m[c]) /\ Sound(c, p)
  BY DEF Ledger, Lists, InHand
<1>3. /\ Tidy(c, n[c])
      /\ \A x, k : In(n[c], x, k) => In(m[c], x, k) \/ Names(p, x, k)
      /\ \A x, k : Names(p, x, k) => In(n[c], x, k)
      /\ kept => \A x, k : In(m[c], x, k) => In(n[c], x, k)
      /\ \A k : Waits(n[c], k) <=> Waits(m[c], k)
      /\ Ordered(n[c])
  <2>1. m[c][i].to_return = {} => \A x, k : ~ Names(m[c][i], x, k)
    BY DEF Names
  <2> QED
    BY <1>1, <1>2, <2>1, CombinedNames
<1> HIDE DEF n, kept
<1>4. \A x, k : Owed(n, w, x, k) <=> Owed(m, w, x, k)
  <2>1. \A d \in Cache : \A k : Waits(n[d], k) <=> Waits(m[d], k)
    BY <1>1, <1>3
  <2> QED
    BY <2>1, OwedKept
<1>5. /\ kept => \A x, k : Here(r, q, m, c, x, k) => Here(r, q, n, c, x, k)
      /\ \A x, k : Here(r, q, n, c, x, k) => Here(r, q, m, c, x, k) \/ Names(p, x, k)
  BY <1>3 DEF Here
<1>6. /\ kept => \A x \in Receiver : \A k : At(r, q, m, g, x, k) => At(r, q, n, g, x, k)
      /\ \A x \in Receiver : \A k : At(r, q, n, g, x, k)
                                  => At(r, q, m, g, x, k) \/ Names(p, x, k)
  BY <1>1, <1>5, LevelChanged
<1>7. Lists(r, q, n, g)
  BY <1>1, <1>3 DEF Ledger, Lists
<1>8. \A x, k : Names(p, x, k) => Owed(m, w, x, k) /\ ~ Here(r, q, m, c, x, k)
  BY <1>2, NamedNodes, AtLevel DEF InHand
<1>9. Apart(r, q, n)
  BY <1>1, <1>3, <1>8 DEF Ledger, Apart, Here
<1>10. Claims(r, q, n, g, w)
  BY <1>4, <1>6, <1>8 DEF Ledger, Claims
<1>11. \A x \in Receiver : \A k : Names(p, x, k) => At(r, q, n, g, x, k)
  BY <1>2, <1>3, NamedNodes, AtLevel DEF Here
<1>12. kept /\ DueBut(p, r, q, m, g, w) => Due(r, q, n, g, w)
  BY <1>4, <1>6, <1>11 DEF Due, DueBut
<1> QED
  BY <1>7, <1>9, <1>10, <1>12 DEF Ledger, n, kept, i

\* The packet in hand is answered: every MSHR and load it names stops waiting.
LEMMA Answered ==
    ASSUME NEW r, NEW q, NEW m, NEW g, Requests(r, q, m, g, pending),
           Ledger(r, q, m, g, pending), NEW b, NEW p, InHand(b, p, r, q, m, g, pending)
    PROVE  /\ Ledger(r, q, Return(m, p), g, Answer(p))
           /\ DueBut(p, r, q, m, g, pending) => Due(r, q, Return(m, p), g, Answer(p))
<1> DEFINE n == Return(m, p)
           v == Answer(p)
<1>1. \A c \in Cache : n[c] = IF c \in p.to_return THEN MarkReturned(m[c], p.addr) ELSE m[c]
  BY DEF Return
<1>2. \A u \in Client : v[u] = IF u \in p.to_return THEN pending[u] \ p.deps ELSE pending[u]
  BY DEF Answer
<1>3. \A c \in Cache : c \in p.to_return => Waits(m[c], LineOf[p.addr])
  BY TopologyAssumption DEF InHand, Names, Owed, Lone
<1>4. ASSUME NEW c \in Cache
      PROVE  /\ Tidy(c, n[c]) /\ Ordered(n[c])
             /\ \A x, k : In(n[c], x, k) <=> In(m[c], x, k)
             /\ \A k : Waits(n[c], k) <=>
                   Waits(m[c], k) /\ ~ (c \in p.to_return /\ k = LineOf[p.addr])
  <2>1. m[c] \in Seq(MshrEntry) /\ Tidy(c, m[c]) /\ Ordered(m[c])
    BY DEF Requests, Queues, Ledger, Lists
  <2>2. CASE c \in p.to_return
    BY <1>1, <1>3, <2>1, <2>2, MarkedNames
  <2>3. CASE c \notin p.to_return
    BY <1>1, <2>1, <2>3
  <2> QED
    BY <2>2, <2>3
<1> HIDE DEF n, v
<1>5. ASSUME NEW x \in Receiver, NEW k
      PROVE  Owed(n, v, x, k) <=> Owed(m, pending, x, k) /\ ~ Names(p, x, k)
  <2>1. CASE x \in Cache
    <3>1. x \notin Lone
      BY <2>1, TopologyAssumption DEF Lone
    <3> QED
      BY <1>4, <2>1, <3>1 DEF Owed, Names
  <2>2. CASE x \in Lone
    <3>1. x \notin Cache /\ x \in Client
      BY <2>2, TopologyAssumption DEF Lone
    <3> QED
      BY <1>2, <2>2, <3>1 DEF Owed, Names
  <2> QED
    BY <2>1, <2>2 DEF Receiver
<1>6. ASSUME NEW x \in Receiver, NEW k
      PROVE  At(r, q, n, g, x, k) <=> At(r, q, m, g, x, k)
  <2>1. Below[x] \in Cache \cup {Memory}
    BY TopologyAssumption DEF Lone, Receiver
  <2> QED
    BY <1>4, <2>1 DEF At
<1>7. Lists(r, q, n, g)
  BY <1>4 DEF Ledger, Lists
<1>8. Apart(r, q, n)
  BY <1>4 DEF Ledger, Apart
<1>9. Claims(r, q, n, g, v)
  BY <1>5, <1>6 DEF Ledger, Claims, InHand
<1>10. DueBut(p, r, q, m, g, pending) => Due(r, q, n, g, v)
  BY <1>5, <1>6 DEF DueBut, Due
<1> QED
  BY <1>7, <1>8, <1>9, <1>10 DEF Ledger, n, v

\* No client hangs on the memory.
LEMMA MemoryAnswersCaches ==
    ASSUME pending \in [Client -> SUBSET Addr], NEW p, Sound(Memory, p)
    PROVE  Answer(p) = pending
<1>1. \A u \in Client : u \notin p.to_return
  BY TopologyAssumption DEF Sound
<1> QED
  BY <1>1 DEF Answer

\* A miss takes an MSHR of its own and asks the level below for the line, in its own
\* name where it keeps the line.
LEMMA Reserving ==
    ASSUME NEW r, NEW q, Requests(r, q, mshr, memRQ, pending),
           Ledger(r, q, mshr, memRQ, pending), NEW c \in Cache, NEW p \in Packet,
           InHand(c, p, r, q, mshr, memRQ, pending), Find(mshr[c], p.addr) = 0
    PROVE  LET n == Reserved(c, p)
               o == AskedOf(c, p)
           IN  /\ Ledger(r, q, n, memRQ, pending)
               /\ InHand(Below[c], o, r, q, n, memRQ, pending)
               /\ (Keeps(c, p) \/ p.to_return = {})
                   /\ DueBut(p, r, q, mshr, memRQ, pending)
                    => DueBut(o, r, q, n, memRQ, pending)
<1> DEFINE n == Reserved(c, p)
           o == AskedOf(c, p)
           l == LineOf[p.addr]
<1>1. /\ o.addr = p.addr /\ o.deps = {}
      /\ o.to_return = IF Keeps(c, p) THEN {c} ELSE {}
  BY AskedFields
<1> HIDE DEF o
<1>2. Sound(Below[c], o)
  BY <1>1 DEF Sound
<1>3. c \in Receiver /\ Below[c] # c
  BY LevelsDiffer DEF Receiver
<1>4. CASE Keeps(c, p)
  <2>1. n = [mshr EXCEPT ![c] = Append(@, Entry(p))]
    BY <1>4 DEF Reserved
  <2>2. /\ mshr[c] \in Seq(MshrEntry) /\ Tidy(c, mshr[c]) /\ Ordered(mshr[c])
        /\ n[c] = Append(mshr[c], Entry(p)) /\ \A d \in Cache : d # c => n[d] = mshr[d]
    BY <2>1 DEF Requests, Queues, Ledger, Lists
  <2>3. Sound(c, p)
    BY DEF InHand
  <2>4. /\ Tidy(c, n[c]) /\ Ordered(n[c])
        /\ \A x, k : In(n[c], x, k) <=> In(mshr[c], x, k) \/ Names(p, x, k)
        /\ \A k : Waits(n[c], k) <=> Waits(mshr[c], k) \/ k = l
        /\ ~ Waits(mshr[c], l)
    BY <2>2, <2>3, ReservedNames
  <2> HIDE DEF n, l
  <2>5. \A x, k : Owed(n, pending, x, k) <=> Owed(mshr, pending, x, k) \/ (x = c /\ k = l)
    BY <2>2, <2>4 DEF Owed
  <2>6. \A x, k : Names(o, x, k) <=> x = c /\ k = l
    BY <1>1, <1>4 DEF Names, l
  <2>7. \A x, k : Here(r, q, n, c, x, k) <=> Here(r, q, mshr, c, x, k) \/ Names(p, x, k)
    BY <2>4 DEF Here
  <2>8. \A x \in Receiver : \A k :
           At(r, q, n, memRQ, x, k) => At(r, q, mshr, memRQ, x, k) \/ Names(p, x, k)
    BY <2>2, <2>7, LevelChanged
  <2>9. \A d \in Cache : d # c => mshr[d] = n[d]
    BY <2>2
  <2>10. \A x \in Receiver : \A k : At(r, q, mshr, memRQ, x, k) => At(r, q, n, memRQ, x, k)
    BY <2>7, <2>9, LevelChanged
  <2>11. \A x, k : Names(p, x, k) => /\ Owed(mshr, pending, x, k)
                                     /\ x \in Receiver /\ Below[x] = c
                                     /\ ~ Here(r, q, mshr, c, x, k)
                                     /\ At(r, q, n, memRQ, x, k)
    BY <2>3, <2>7, NamedNodes, AtLevel DEF InHand, Receiver
  <2>12. Lists(r, q, n, memRQ)
    BY <2>2, <2>4 DEF Ledger, Lists
  <2>13. Apart(r, q, n)
    BY <2>2, <2>4, <2>11 DEF Ledger, Apart, Here
  <2>14. Claims(r, q, n, memRQ, pending)
    <3> SUFFICES ASSUME NEW x \in Receiver, NEW k, At(r, q, n, memRQ, x, k)
                 PROVE  Owed(n, pending, x, k)
      BY DEF Claims
    <3>1. At(r, q, mshr, memRQ, x, k) \/ Names(p, x, k)
      BY <2>8
    <3>2. At(r, q, mshr, memRQ, x, k) => Owed(mshr, pending, x, k)
      BY DEF Ledger, Claims
    <3> QED
      BY <2>5, <2>11, <3>1, <3>2
  <2>15. ~ At(r, q, mshr, memRQ, c, l)
    <3>1. ~ Owed(mshr, pending, c, l)
      BY <2>4, TopologyAssumption DEF Owed, Lone
    <3> QED
      BY <1>3, <3>1 DEF Ledger, Claims
  <2>16. ~ At(r, q, n, memRQ, c, l)
    BY <1>3, <2>9, <2>15, AtElsewhere
  <2>17. DueBut(p, r, q, mshr, memRQ, pending) => DueBut(o, r, q, n, memRQ, pending)
    <3> SUFFICES ASSUME DueBut(p, r, q, mshr, memRQ, pending), NEW x \in Receiver, NEW k,
                        Owed(n, pending, x, k)
                 PROVE  At(r, q, n, memRQ, x, k) \/ Names(o, x, k)
      BY DEF DueBut
    <3>1. Owed(mshr, pending, x, k) \/ (x = c /\ k = l)
      BY <2>5
    <3>2. Owed(mshr, pending, x, k) => At(r, q, mshr, memRQ, x, k) \/ Names(p, x, k)
      BY DEF DueBut
    <3> QED
      BY <2>6, <2>10, <2>11, <3>1, <3>2
  <2>18. InHand(Below[c], o, r, q, n, memRQ, pending)
    BY <1>2, <2>5, <2>6, <2>16 DEF InHand
  <2>19. Ledger(r, q, n, memRQ, pending)
    BY <2>12, <2>13, <2>14 DEF Ledger
  <2> QED
    BY <2>17, <2>18, <2>19 DEF n, o
<1>5. CASE ~ Keeps(c, p)
  <2>1. n = mshr
    BY <1>5 DEF Reserved
  <2> HIDE DEF n
  <2>2. \A x, k : ~ Names(o, x, k)
    BY <1>1, <1>5 DEF Names
  <2>3. p.to_return = {} => \A x, k : ~ Names(p, x, k)
    BY DEF Names
  <2>4. InHand(Below[c], o, r, q, n, memRQ, pending)
    BY <1>2, <2>2 DEF InHand
  <2>5. p.to_return = {} /\ DueBut(p, r, q, mshr, memRQ, pending)
            => DueBut(o, r, q, n, memRQ, pending)
    BY <2>1, <2>3 DEF DueBut
  <2> QED
    BY <1>5, <2>1, <2>4, <2>5 DEF n, o
<1> QED
  BY <1>4, <1>5

-----------------------------------------------------------------------------
\* The handlers and the queues they send to.

LedgerNow == Ledger(rq, pq, mshr, memRQ, pending)
DueNow    == Due(rq, pq, mshr, memRQ, pending)

LEMMA ForwardLedger ==
    ASSUME NEW p, NEW r, NEW q, NEW m, NEW b, Requests(r, q, m, memRQ, pending),
           Ledger(r, q, m, memRQ, pending), InHand(b, p, r, q, m, memRQ, pending),
           Forward(p, r, q, m)
    PROVE  LedgerNow' /\ (DueBut(p, r, q, m, memRQ, pending) => DueNow')
<1>1. /\ rq' = r /\ pq' = q /\ mshr' = Return(m, p) /\ memRQ' = memRQ
      /\ pending' = Answer(p)
  BY DEF Forward
<1>2. /\ Ledger(r, q, Return(m, p), memRQ, Answer(p))
      /\ DueBut(p, r, q, m, memRQ, pending) => Due(r, q, Return(m, p), memRQ, Answer(p))
  BY Answered
<1> QED
  BY <1>1, <1>2 DEF LedgerNow, DueNow

LEMMA AddRQLedger ==
    ASSUME NEW c \in Cache, NEW p \in Packet, NEW r, NEW q, NEW m,
           Requests(r, q, m, memRQ, pending), Ledger(r, q, m, memRQ, pending),
           InHand(c, p, r, q, m, memRQ, pending), AddRQ(c, p, r, q, m)
    PROVE  /\ LedgerNow'
           /\ (Len(r[c]) < RQ_SIZE[c] \/ p.to_return = {})
              /\ DueBut(p, r, q, m, memRQ, pending) => DueNow'
<1>1. CASE InWQ(c, p.addr)
  BY <1>1, ForwardLedger DEF AddRQ
<1>2. CASE ~ InWQ(c, p.addr)
  <2> DEFINE n == [r EXCEPT ![c] = JoinRQ(c, @, p)]
  <2>1. rq' = n /\ pq' = q /\ mshr' = m /\ memRQ' = memRQ /\ pending' = pending
    BY <1>2 DEF AddRQ
  <2>2. /\ Ledger(n, q, m, memRQ, pending)
        /\ (Find(r[c], p.addr) # 0 \/ Len(r[c]) < RQ_SIZE[c] \/ p.to_return = {})
           /\ DueBut(p, r, q, m, memRQ, pending) => Due(n, q, m, memRQ, pending)
    BY EnterRQ
  <2> HIDE DEF n
  <2> QED
    BY <2>1, <2>2 DEF LedgerNow, DueNow
<1> QED
  BY <1>1, <1>2

LEMMA AddPQLedger ==
    ASSUME NEW c \in Cache, NEW p \in Packet, NEW r, NEW q, NEW m,
           Requests(r, q, m, memRQ, pending), Ledger(r, q, m, memRQ, pending),
           InHand(c, p, r, q, m, memRQ, pending), AddPQ(c, p, r, q, m)
    PROVE  /\ LedgerNow'
           /\ (Len(q[c]) < PQ_SIZE[c] \/ p.to_return = {})
              /\ DueBut(p, r, q, m, memRQ, pending) => DueNow'
<1>1. CASE InWQ(c, p.addr)
  BY <1>1, ForwardLedger DEF AddPQ
<1>2. CASE ~ InWQ(c, p.addr)
  <2> DEFINE n == [q EXCEPT ![c] = JoinPQ(c, @, p)]
  <2>1. pq' = n /\ rq' = r /\ mshr' = m /\ memRQ' = memRQ /\ pending' = pending
    BY <1>2 DEF AddPQ
  <2>2. /\ Ledger(r, n, m, memRQ, pending)
        /\ (Find(q[c], p.addr) # 0 \/ Len(q[c]) < PQ_SIZE[c] \/ p.to_return = {})
           /\ DueBut(p, r, q, m, memRQ, pending) => Due(r, n, m, memRQ, pending)
    BY EnterPQ
  <2> HIDE DEF n
  <2> QED
    BY <2>1, <2>2 DEF LedgerNow, DueNow
<1> QED
  BY <1>1, <1>2

LEMMA MemoryAddLedger ==
    ASSUME NEW p \in Packet, NEW r, NEW q, NEW m,
           Requests(r, q, m, memRQ, pending), Ledger(r, q, m, memRQ, pending),
           InHand(Memory, p, r, q, m, memRQ, pending), MemoryAdd(p, r, q, m)
    PROVE  /\ LedgerNow'
           /\ Cardinality(memRQ) < MEM_RQ_SIZE
              /\ DueBut(p, r, q, m, memRQ, pending) => DueNow'
<1>1. CASE Forward(p, r, q, m)
  BY <1>1, ForwardLedger
<1>2. CASE ~ Forward(p, r, q, m)
  <2> DEFINE n == JoinMemRQ(p)
  <2>1. pq' = q /\ rq' = r /\ mshr' = m /\ memRQ' = n /\ pending' = pending
    BY <1>2 DEF MemoryAdd
  <2>2. memRQ \subseteq Packet
    BY DEF Requests, MemoryReads
  <2>3. /\ Ledger(r, q, m, n, pending)
        /\ Cardinality(memRQ) < MEM_RQ_SIZE
           /\ DueBut(p, r, q, m, memRQ, pending) => Due(r, q, m, n, pending)
    BY <2>2, EnterMemory
  <2> HIDE DEF n
  <2> QED
    BY <2>1, <2>3 DEF LedgerNow, DueNow
<1> QED
  BY <1>1, <1>2

\* A miss loses no name: the answers wanted by the packet are kept, and no prefetch is
\* replaced that somebody waits for.
Lossless(c, p) ==
    /\ Keeps(c, p) \/ p.to_return = {}
    /\ \A i \in 1 .. Len(mshr[c]) :
          LineOf[mshr[c][i].addr] = LineOf[p.addr] /\ Replaces(p, mshr[c][i])
            => mshr[c][i].to_return = {}

LEMMA MissLedger ==
    ASSUME NEW c \in Cache, NEW p \in Packet, NEW r, NEW q,
           Requests(r, q, mshr, memRQ, pending), Ledger(r, q, mshr, memRQ, pending),
           InHand(c, p, r, q, mshr, memRQ, pending), ReadlikeMiss(c, p, r, q),
           \A d \in Cache : d # c => r[d] = rq[d] /\ q[d] = pq[d]
    PROVE  /\ LedgerNow'
           /\ Lossless(c, p) /\ DueBut(p, r, q, mshr, memRQ, pending) => DueNow'
<1>1. CASE JoinMSHR(c, p, r, q)
  <2> DEFINE i == Find(mshr[c], p.addr)
             n == [mshr EXCEPT ![c] = ReplaceAt(@, i, Combine(@[i], p))]
  <2>1. /\ i # 0 /\ mshr' = n
        /\ rq' = r /\ pq' = q /\ memRQ' = memRQ /\ pending' = pending
    BY <1>1 DEF JoinMSHR
  <2>2. i \in 1 .. Len(mshr[c]) /\ LineOf[mshr[c][i].addr] = LineOf[p.addr]
    BY <2>1, FindFields DEF Requests, Queues, SameLine
  <2>3. /\ Ledger(r, q, n, memRQ, pending)
        /\ (Replaces(p, mshr[c][i]) => mshr[c][i].to_return = {})
           /\ DueBut(p, r, q, mshr, memRQ, pending) => Due(r, q, n, memRQ, pending)
    BY <2>1, EnterMSHR
  <2> HIDE DEF n, i
  <2> QED
    BY <2>1, <2>2, <2>3 DEF LedgerNow, DueNow, Lossless
<1>2. CASE AskBelow(c, p, r, q)
  <2> DEFINE n == Reserved(c, p)
             o == AskedOf(c, p)
             b == Below[c]
  <2>1. Find(mshr[c], p.addr) = 0 /\ Len(mshr[c]) # MSHR_SIZE[c]
    BY <1>2, AskBelowCases
  <2>2. o \in Packet
    BY AskedFields
  <2>3. Requests(r, q, n, memRQ, pending)
    BY <2>1, ReservedType
  <2>4. /\ Ledger(r, q, n, memRQ, pending)
        /\ InHand(b, o, r, q, n, memRQ, pending)
        /\ Lossless(c, p) /\ DueBut(p, r, q, mshr, memRQ, pending)
              => DueBut(o, r, q, n, memRQ, pending)
    BY <2>1, Reserving DEF Lossless
  <2>5. b \in Cache \cup {Memory} /\ b # c
    BY LevelsDiffer
  <2>6. b \in Cache => /\ Len(r[b]) <= RQ_SIZE[b] /\ Len(q[b]) <= PQ_SIZE[b]
                       /\ Len(r[b]) \in Nat /\ Len(q[b]) \in Nat
                       /\ RQ_SIZE[b] \in Nat /\ PQ_SIZE[b] \in Nat
                       /\ r[b] = rq[b] /\ q[b] = pq[b]
    BY <2>5, SizesAreNaturals DEF Requests, Queues
  <2>7. \/ /\ b = Memory /\ Cardinality(memRQ) # MEM_RQ_SIZE /\ MemoryAdd(o, r, q, n)
        \/ /\ b # Memory /\ Len(rq[b]) # RQ_SIZE[b] /\ AddRQ(b, o, r, q, n)
        \/ /\ b # Memory /\ Len(pq[b]) # PQ_SIZE[b] /\ AddPQ(b, o, r, q, n)
    BY <1>2, AskBelowCases
  <2> HIDE DEF n, o, b
  <2>8. CASE b = Memory /\ Cardinality(memRQ) # MEM_RQ_SIZE /\ MemoryAdd(o, r, q, n)
    <3>1. Cardinality(memRQ) < MEM_RQ_SIZE
      <4>1. IsFiniteSet(memRQ) /\ Cardinality(memRQ) <= MEM_RQ_SIZE
        BY DEF Requests, MemoryReads, AtMost
      <4> QED
        BY <2>8, <4>1, FS_CardinalityType, SizesAreNaturals
    <3> QED
      BY <2>2, <2>3, <2>4, <2>8, <3>1, MemoryAddLedger
  <2>9. CASE b # Memory /\ Len(rq[b]) # RQ_SIZE[b] /\ AddRQ(b, o, r, q, n)
    <3>1. Len(r[b]) < RQ_SIZE[b]
      BY <2>5, <2>6, <2>9
    <3> QED
      BY <2>2, <2>3, <2>4, <2>5, <2>9, <3>1, AddRQLedger
  <2>10. CASE b # Memory /\ Len(pq[b]) # PQ_SIZE[b] /\ AddPQ(b, o, r, q, n)
    <3>1. Len(q[b]) < PQ_SIZE[b]
      BY <2>5, <2>6, <2>10
    <3> QED
      BY <2>2, <2>3, <2>4, <2>5, <2>10, <3>1, AddPQLedger
  <2> QED
    BY <2>7, <2>8, <2>9, <2>10
<1> QED
  BY <1>1, <1>2 DEF ReadlikeMiss

-----------------------------------------------------------------------------
\* What stands in the write queues: nobody waits for it, and a store is one that a
\* client of the cache may make; asks[x] are the lines that node x ever asks for.

WriteFits(asks, c, e) ==
    /\ e.to_return = {} /\ e.deps = {}
    /\ e.type = "RFO" => /\ e.fill <= FillLevel[c]
                         /\ \E u \in Client : Below[u] = c /\ LineOf[e.addr] \in asks[u]

Writes(asks, w) ==
    \A c \in Cache : \A i \in 1 .. Len(w[c]) : WriteFits(asks, c, w[c][i])

StoresAsked(asks) == \A u \in Client : \A a \in StoreAddr[u] : LineOf[a] \in asks[u]

LEMMA WritesExtended ==
    ASSUME NEW asks, NEW w, Queues(w, WQ_SIZE, Packet), Writes(asks, w), NEW b \in Cache,
           NEW p \in Packet, WriteFits(asks, b, p)
    PROVE  Writes(asks, [w EXCEPT ![b] = Append(@, p)])
<1> DEFINE n == [w EXCEPT ![b] = Append(@, p)]
<1>1. /\ \A c \in Cache : c # b => n[c] = w[c]
      /\ Len(n[b]) = Len(w[b]) + 1 /\ Len(w[b]) \in Nat
      /\ \A i \in 1 .. Len(w[b]) : n[b][i] = w[b][i]
      /\ n[b][Len(w[b]) + 1] = p
  BY ExtendedFields
<1>2. \A i \in 1 .. Len(n[b]) : i \in 1 .. Len(w[b]) \/ i = Len(w[b]) + 1
  BY <1>1
<1> HIDE DEF n
<1> QED
  BY <1>1, <1>2 DEF Writes, n

LEMMA WritesShortened ==
    ASSUME NEW asks, Queues(wq, WQ_SIZE, Packet), Writes(asks, wq), NEW c \in Cache,
           wq[c] # <<>>
    PROVE  Writes(asks, [wq EXCEPT ![c] = Tail(@)]) /\ WriteFits(asks, c, Head(wq[c]))
<1> DEFINE w == [wq EXCEPT ![c] = Tail(@)]
<1>1. wq[c] \in Seq(Packet) /\ DOMAIN wq = Cache
  BY DEF Queues
<1>2. /\ Len(wq[c]) \in Nat /\ Len(wq[c]) >= 1 /\ Head(wq[c]) = wq[c][1]
      /\ w[c] = Tail(wq[c]) /\ Len(w[c]) = Len(wq[c]) - 1
      /\ \A i \in 1 .. Len(wq[c]) - 1 : w[c][i] = wq[c][i + 1]
      /\ \A d \in Cache : d # c => w[d] = wq[d]
  BY <1>1, TailFields
<1> HIDE DEF w
<1>3. \A i \in 1 .. Len(w[c]) : i + 1 \in 1 .. Len(wq[c]) /\ w[c][i] = wq[c][i + 1]
  BY <1>2
<1>4. 1 \in 1 .. Len(wq[c])
  BY <1>2
<1> QED
  BY <1>2, <1>3, <1>4 DEF Writes, w

LEMMA WriteBelowFits ==
    ASSUME NEW asks, NEW c \in Cache, NEW a \in Addr, NEW w, Queues(w, WQ_SIZE, Packet),
           Writes(asks, w), WriteBelow(c, a, w)
    PROVE  Writes(asks, wq')
<1> DEFINE b == Below[c]
           p == [addr |-> a, type |-> "WRITEBACK", fill |-> FillLevel[b],
                 to_return |-> {}, deps |-> {}]
           n == [w EXCEPT ![b] = Append(@, p)]
<1>1. wq' = w \/ (b # Memory /\ wq' = n)
  BY DEF WriteBelow
<1>2. b # Memory => b \in Cache
  BY LevelsDiffer
<1>3. b # Memory => p \in Packet /\ WriteFits(asks, b, p)
  BY <1>2, TopologyAssumption DEF Packet, Type, WriteFits
<1> HIDE DEF p, b
<1>4. b # Memory => Writes(asks, n)
  BY <1>2, <1>3, WritesExtended
<1> QED
  BY <1>1, <1>4

LEMMA FillFits ==
    ASSUME NEW asks, NEW c \in Cache, NEW p, p.addr \in Addr, NEW w,
           Queues(w, WQ_SIZE, Packet), Blocks(block), Writes(asks, w), FilllikeMiss(c, p, w)
    PROVE  Writes(asks, wq')
<1> DEFINE s == SetFor(c, p.addr)
<1>1. \/ wq' = w
      \/ \E v \in 1 .. Ways[c] : /\ block[c][s][v] \in Block /\ block[c][s][v].dirty
                                 /\ WriteBelow(c, block[c][s][v].addr, w)
  BY FillCases
<1>2. ASSUME NEW e, e \in Block, e.dirty, WriteBelow(c, e.addr, w) PROVE Writes(asks, wq')
  <2>1. e.addr \in Addr
    BY <1>2, DirtyBlocksAreValid
  <2> QED
    BY <1>2, <2>1, WriteBelowFits
<1> HIDE DEF s
<1> QED
  BY <1>1, <1>2

LEMMA WritesStep ==
    ASSUME NEW asks, StoresAsked(asks), TypeInv, Writes(asks, wq), [Next]_vars
    PROVE  Writes(asks, wq')
<1>1. CASE wq' = wq
  BY <1>1
<1>2. ASSUME NEW c \in Cache, HandleFill(c) PROVE Writes(asks, wq')
  <2> DEFINE e == Head(mshr[c])
  <2>1. mshr[c] # <<>> /\ FilllikeMiss(c, e, wq)
    BY <1>2 DEF HandleFill
  <2>2. e \in MshrEntry
    BY <2>1, TailFields DEF TypeInv, Requests, Queues
  <2>3. e.addr \in Addr
    BY <2>2 DEF MshrEntry
  <2> HIDE DEF e
  <2> QED
    BY <2>1, <2>3, FillFits DEF TypeInv
<1>3. ASSUME NEW c \in Cache, HandleWriteback(c) PROVE Writes(asks, wq')
  <2> DEFINE p == Head(wq[c])
             w == [wq EXCEPT ![c] = Tail(@)]
  <2>1. wq[c] # <<>> /\ (wq' = w \/ FilllikeMiss(c, p, w))
    BY <1>3, WritebackCases
  <2>2. Queues(w, WQ_SIZE, Packet) /\ p \in Packet
    BY <2>1, QueueShortened, SizesAreFunctions DEF TypeInv
  <2>3. p.addr \in Addr
    BY <2>2 DEF Packet
  <2>4. Writes(asks, w)
    BY <2>1, WritesShortened DEF TypeInv
  <2> HIDE DEF p, w
  <2> QED
    BY <2>1, <2>2, <2>3, <2>4, FillFits, SMTT(60) DEF TypeInv
<1>4. ASSUME NEW u \in Client, NEW a \in Addr, Store(u, a) PROVE Writes(asks, wq')
  <2> DEFINE p == StorePacket(u, a)
             c == Below[u]
  <2>1. a \in StoreAddr[u] /\ (wq' = wq \/ wq' = [wq EXCEPT ![c] = Append(@, p)])
    BY <1>4 DEF Store, StorePacket
  <2>2. p \in Packet /\ c \in Cache /\ FillLevel[c] \in Nat
    BY NewPacketsType, TopologyAssumption
  <2>3. WriteFits(asks, c, p)
    BY <2>1, <2>2 DEF StoresAsked, WriteFits, StorePacket
  <2> HIDE DEF p, c
  <2>4. Writes(asks, [wq EXCEPT ![c] = Append(@, p)])
    BY <2>2, <2>3, WritesExtended DEF TypeInv
  <2> QED
    BY <2>1, <2>4
<1> QED
  BY <1>1, <1>2, <1>3, <1>4, OthersKeep DEF Next, Operate

LEMMA ReadLedger ==
    ASSUME TypeInv, LedgerNow, NEW c \in Cache, HandleRead(c)
    PROVE  /\ LedgerNow'
           /\ (Hits(c, Head(rq[c]).addr) \/ Lossless(c, Head(rq[c]))) /\ DueNow => DueNow'
<1> DEFINE p == Head(rq[c])
           r == [rq EXCEPT ![c] = Tail(@)]
<1>1. rq[c] # <<>> /\ IF Hits(c, p.addr) THEN ReadlikeHit(p, r, pq) ELSE ReadlikeMiss(c, p, r, pq)
  BY DEF HandleRead
<1>2. Requests(rq, pq, mshr, memRQ, pending)
  BY DEF TypeInv
<1>3. p \in Packet /\ Requests(r, pq, mshr, memRQ, pending)
  BY <1>1, <1>2, QueueShortened, SizesAreFunctions DEF Requests
<1>4. \A d \in Cache : d # c => r[d] = rq[d]
  BY <1>2 DEF Requests, Queues
<1>5. /\ Ledger(r, pq, mshr, memRQ, pending)
      /\ InHand(c, p, r, pq, mshr, memRQ, pending)
      /\ DueNow => DueBut(p, r, pq, mshr, memRQ, pending)
  BY <1>1, <1>2, TakeRQ DEF LedgerNow, DueNow
<1> HIDE DEF p, r
<1>6. CASE Hits(c, p.addr)
  <2>1. Forward(p, r, pq, mshr)
    BY <1>1, <1>6 DEF ReadlikeHit, Forward
  <2> QED
    BY <1>3, <1>5, <2>1, ForwardLedger
<1>7. CASE ~ Hits(c, p.addr)
  <2>1. LedgerNow' /\ (Lossless(c, p) /\ DueBut(p, r, pq, mshr, memRQ, pending) => DueNow')
    BY <1>1, <1>3, <1>4, <1>5, <1>7, MissLedger
  <2> QED
    BY <1>5, <1>7, <2>1 DEF p
<1> QED
  BY <1>6, <1>7 DEF p

LEMMA PrefetchLedger ==
    ASSUME TypeInv, LedgerNow, NEW c \in Cache, HandlePrefetch(c)
    PROVE  /\ LedgerNow'
           /\ (Hits(c, Head(pq[c]).addr) \/ Lossless(c, Head(pq[c]))) /\ DueNow => DueNow'
<1> DEFINE p == Head(pq[c])
           q == [pq EXCEPT ![c] = Tail(@)]
<1>1. pq[c] # <<>> /\ IF Hits(c, p.addr) THEN ReadlikeHit(p, rq, q) ELSE ReadlikeMiss(c, p, rq, q)
  BY DEF HandlePrefetch
<1>2. Requests(rq, pq, mshr, memRQ, pending)
  BY DEF TypeInv
<1>3. p \in Packet /\ Requests(rq, q, mshr, memRQ, pending)
  BY <1>1, <1>2, QueueShortened, SizesAreFunctions DEF Requests
<1>4. \A d \in Cache : d # c => q[d] = pq[d]
  BY <1>2 DEF Requests, Queues
<1>5. /\ Ledger(rq, q, mshr, memRQ, pending)
      /\ InHand(c, p, rq, q, mshr, memRQ, pending)
      /\ DueNow => DueBut(p, rq, q, mshr, memRQ, pending)
  BY <1>1, <1>2, TakePQ DEF LedgerNow, DueNow
<1> HIDE DEF p, q
<1>6. CASE Hits(c, p.addr)
  <2>1. Forward(p, rq, q, mshr)
    BY <1>1, <1>6 DEF ReadlikeHit, Forward
  <2> QED
    BY <1>3, <1>5, <2>1, ForwardLedger
<1>7. CASE ~ Hits(c, p.addr)
  <2>1. LedgerNow' /\ (Lossless(c, p) /\ DueBut(p, rq, q, mshr, memRQ, pending) => DueNow')
    BY <1>1, <1>3, <1>4, <1>5, <1>7, MissLedger
  <2> QED
    BY <1>5, <1>7, <2>1 DEF p
<1> QED
  BY <1>6, <1>7 DEF p

LEMMA FillLedger ==
    ASSUME TypeInv, LedgerNow, NEW c \in Cache, HandleFill(c)
    PROVE  LedgerNow' /\ (DueNow => DueNow')
<1> DEFINE e == Head(mshr[c])
           m == [mshr EXCEPT ![c] = Tail(@)]
<1>1. /\ mshr[c] # <<>> /\ e.returned
      /\ mshr' = [Return(mshr, e) EXCEPT ![c] = Tail(mshr[c])]
      /\ pending' = Answer(e) /\ rq' = rq /\ pq' = pq /\ memRQ' = memRQ
  BY DEF HandleFill
<1>2. Requests(rq, pq, mshr, memRQ, pending)
  BY DEF TypeInv
<1>3. Requests(rq, pq, m, memRQ, pending)
  BY <1>1, <1>2, QueueShortened, SizesAreFunctions DEF Requests
<1>4. /\ Ledger(rq, pq, m, memRQ, pending)
      /\ InHand(c, e, rq, pq, m, memRQ, pending)
      /\ DueNow => DueBut(e, rq, pq, m, memRQ, pending)
  BY <1>1, <1>2, TakeMSHR DEF LedgerNow, DueNow
<1>5. c \notin e.to_return
  BY <1>4, LevelsDiffer DEF InHand, Sound
<1>6. mshr' = Return(m, e)
  <2>1. DOMAIN mshr = Cache
    BY <1>2 DEF Requests, Queues
  <2> HIDE DEF e
  <2>2. mshr' = [d \in Cache |-> IF d = c THEN Tail(mshr[c]) ELSE Return(mshr, e)[d]]
    BY <1>1 DEF Return
  <2>3. \A d \in Cache : (IF d = c THEN Tail(mshr[c]) ELSE Return(mshr, e)[d]) =
                          IF d \in e.to_return THEN MarkReturned(m[d], e.addr) ELSE m[d]
    BY <1>5, <2>1 DEF Return
  <2> HIDE DEF m
  <2> QED
    BY <2>2, <2>3 DEF Return
<1> HIDE DEF e, m
<1>7. /\ Ledger(rq, pq, Return(m, e), memRQ, Answer(e))
      /\ DueBut(e, rq, pq, m, memRQ, pending) => Due(rq, pq, Return(m, e), memRQ, Answer(e))
  BY <1>3, <1>4, Answered
<1> QED
  BY <1>1, <1>4, <1>6, <1>7 DEF LedgerNow, DueNow

LEMMA WritebackLedger ==
    ASSUME NEW asks, TypeInv, Writes(asks, wq), LedgerNow, NEW c \in Cache, HandleWriteback(c)
    PROVE  /\ LedgerNow'
           /\ (Head(wq[c]).type = "RFO" => Lossless(c, Head(wq[c]))) /\ DueNow => DueNow'
<1> DEFINE p == Head(wq[c])
<1>1. /\ wq[c] # <<>>
      /\ \/ UNCHANGED <<rq, pq, mshr, memRQ, pending>>
         \/ p.type = "RFO" /\ ReadlikeMiss(c, p, rq, pq)
  BY WritebackCases
<1>2. p \in Packet /\ p.to_return = {} /\ p.deps = {}
  BY <1>1, QueueShortened, SizesAreFunctions, WritesShortened DEF TypeInv, WriteFits
<1> HIDE DEF p
<1>3. CASE UNCHANGED <<rq, pq, mshr, memRQ, pending>>
  BY <1>3 DEF LedgerNow, DueNow
<1>4. CASE p.type = "RFO" /\ ReadlikeMiss(c, p, rq, pq)
  <2>1. Requests(rq, pq, mshr, memRQ, pending)
    BY DEF TypeInv
  <2>2. Ledger(rq, pq, mshr, memRQ, pending)
    BY DEF LedgerNow
  <2>3. InHand(c, p, rq, pq, mshr, memRQ, pending)
    BY <1>2 DEF InHand, Sound, Names
  <2>4. DueNow => DueBut(p, rq, pq, mshr, memRQ, pending)
    BY DEF DueNow, Due, DueBut
  <2>5. LedgerNow' /\ (Lossless(c, p) /\ DueBut(p, rq, pq, mshr, memRQ, pending) => DueNow')
    BY <1>2, <1>4, <2>1, <2>2, <2>3, MissLedger
  <2> QED
    BY <1>4, <2>4, <2>5 DEF p
<1> QED
  BY <1>1, <1>3, <1>4, SMTT(60)

LEMMA LoadLedger ==
    ASSUME TypeInv, LedgerNow, NEW u \in Client, NEW a \in Addr, Load(u, a)
    PROVE  LedgerNow' /\ (DueNow => DueNow')
<1> DEFINE c == Below[u]
           p == LoadPacket(u, a)
           w == [pending EXCEPT ![u] = @ \cup {a}]
           n == [rq EXCEPT ![c] = JoinRQ(c, @, p)]
<1>1. /\ a \notin pending[u] /\ pq' = pq /\ mshr' = mshr /\ memRQ' = memRQ
      /\ \/ rq' = rq /\ pending' = pending
         \/ /\ Find(rq[c], a) = 0 => Len(rq[c]) < RQ_SIZE[c]
            /\ rq' = n /\ pending' = w
  BY DEF Load, LoadPacket
<1>2. CASE rq' = rq /\ pending' = pending
  BY <1>1, <1>2 DEF LedgerNow, DueNow
<1>3. CASE /\ Find(rq[c], a) = 0 => Len(rq[c]) < RQ_SIZE[c]
           /\ rq' = n /\ pending' = w
  <2>1. p \in Packet /\ c \in Cache
    BY NewPacketsType, TopologyAssumption
  <2>2. /\ p.addr = a /\ p.to_return = {u} /\ p.deps = {a}
    BY DEF LoadPacket
  <2>3. Requests(rq, pq, mshr, memRQ, pending)
    BY DEF TypeInv
  <2>4. w \in [Client -> SUBSET Addr] /\ w[u] = pending[u] \cup {a}
        /\ \A v \in Client : v # u => w[v] = pending[v]
    BY <2>3 DEF Requests
  <2>5. Requests(rq, pq, mshr, memRQ, w)
    BY <2>3, <2>4 DEF Requests
  <2> HIDE DEF p, w
  <2>6. u \notin Cache
    BY TopologyAssumption
  <2>7. \A x, k : Names(p, x, k) <=> x = u /\ u \in Lone /\ k = a
    BY <2>2, <2>6 DEF Names
  <2>8. \A x, k : Owed(mshr, w, x, k) <=> Owed(mshr, pending, x, k) \/ Names(p, x, k)
    <3> SUFFICES ASSUME NEW x, NEW k
                 PROVE  Owed(mshr, w, x, k) <=> Owed(mshr, pending, x, k) \/ Names(p, x, k)
      OBVIOUS
    <3>1. CASE x = u
      BY <2>4, <2>6, <2>7, <3>1 DEF Owed
    <3>2. CASE x # u
      BY <2>4, <2>7, <3>2 DEF Owed, Lone
    <3> QED
      BY <3>1, <3>2
  <2>9. \A x, k : Names(p, x, k) => x \in Receiver /\ ~ Owed(mshr, pending, x, k)
    BY <1>1, <2>6, <2>7 DEF Owed, Receiver
  <2>10. Ledger(rq, pq, mshr, memRQ, w)
    BY <2>8 DEF LedgerNow, Ledger, Claims
  <2>11. Sound(c, p)
    BY <2>2 DEF Sound
  <2>12. InHand(c, p, rq, pq, mshr, memRQ, w)
    BY <2>8, <2>9, <2>11 DEF LedgerNow, Ledger, Claims, InHand
  <2>13. DueNow => DueBut(p, rq, pq, mshr, memRQ, w)
    BY <2>8 DEF DueNow, Due, DueBut
  <2> HIDE DEF c
  <2>14. Find(rq[c], p.addr) # 0 \/ Len(rq[c]) < RQ_SIZE[c]
    BY <1>3, <2>2
  <2>15. Ledger(n, pq, mshr, memRQ, w) /\ (DueNow => Due(n, pq, mshr, memRQ, w))
    BY <2>1, <2>5, <2>10, <2>12, <2>13, <2>14, EnterRQ
  <2> HIDE DEF n
  <2> QED
    BY <1>1, <1>3, <2>15 DEF LedgerNow, DueNow
<1> QED
  BY <1>1, <1>2, <1>3

LEMMA PrefetchLineLedger ==
    ASSUME TypeInv, LedgerNow, NEW c \in Cache, NEW a \in Addr, NEW f \in BOOLEAN,
           PrefetchLine(c, a, f)
    PROVE  LedgerNow' /\ (DueNow => DueNow')
<1> DEFINE p == PrefetchPacket(c, a, f)
<1>1. AddPQ(c, p, rq, pq, mshr) /\ (f \/ Below[c] \in Cache)
  BY DEF PrefetchLine, PrefetchPacket
<1>2. p \in Packet
  BY <1>1, NewPacketsType
<1>3. p.to_return = {} /\ p.deps = {}
  BY DEF PrefetchPacket
<1> HIDE DEF p
<1>4. Requests(rq, pq, mshr, memRQ, pending) /\ Ledger(rq, pq, mshr, memRQ, pending)
  BY DEF TypeInv, LedgerNow
<1>5. InHand(c, p, rq, pq, mshr, memRQ, pending)
  BY <1>3 DEF InHand, Sound, Names
<1>6. DueNow => DueBut(p, rq, pq, mshr, memRQ, pending)
  BY DEF DueNow, Due, DueBut
<1> QED
  BY <1>1, <1>2, <1>3, <1>4, <1>5, <1>6, AddPQLedger

LEMMA MemoryReadLedger ==
    ASSUME TypeInv, LedgerNow, MemoryRead
    PROVE  LedgerNow' /\ (DueNow => DueNow')
<1>1. PICK p \in memRQ : /\ memRQ' = memRQ \ {p} /\ mshr' = Return(mshr, p)
                         /\ rq' = rq /\ pq' = pq /\ pending' = pending
  BY DEF MemoryRead
<1> DEFINE g == memRQ \ {p}
<1>2. Ledger(rq, pq, mshr, memRQ, pending)
  BY DEF LedgerNow
<1>3. /\ Ledger(rq, pq, mshr, g, pending)
      /\ InHand(Memory, p, rq, pq, mshr, g, pending)
      /\ DueNow => DueBut(p, rq, pq, mshr, g, pending)
  BY <1>2, TakeMemory DEF DueNow
<1>4. Requests(rq, pq, mshr, g, pending)
  BY FewerOf, SizesAreNaturals DEF TypeInv, Requests, MemoryReads
<1>5. Answer(p) = pending
  BY <1>3, <1>4, MemoryAnswersCaches DEF InHand, Requests
<1>6. Ledger(rq, pq, Return(mshr, p), g, Answer(p))
      /\ (DueBut(p, rq, pq, mshr, g, pending) => Due(rq, pq, Return(mshr, p), g, Answer(p)))
  BY <1>3, <1>4, Answered
<1> HIDE DEF g
<1> QED
  BY <1>1, <1>3, <1>5, <1>6 DEF LedgerNow, DueNow, g

\* What loses no answer that somebody waits for.
LosslessStep ==
    /\ \A c \in Cache : rq[c] # <<>> /\ ~ Hits(c, Head(rq[c]).addr) => Lossless(c, Head(rq[c]))
    /\ \A c \in Cache : pq[c] # <<>> /\ ~ Hits(c, Head(pq[c]).addr) => Lossless(c, Head(pq[c]))
    /\ \A c \in Cache : wq[c] # <<>> /\ Head(wq[c]).type = "RFO" => Lossless(c, Head(wq[c]))

LEMMA LedgerStep ==
    ASSUME NEW asks, TypeInv, Writes(asks, wq), LedgerNow, [Next]_vars
    PROVE  LedgerNow' /\ (LosslessStep /\ DueNow => DueNow')
<1>1. ASSUME NEW c \in Cache, HandleRead(c)
      PROVE  LedgerNow' /\ (LosslessStep /\ DueNow => DueNow')
  <2>1. rq[c] # <<>>
    BY <1>1 DEF HandleRead
  <2> QED
    BY <1>1, <2>1, ReadLedger DEF LosslessStep
<1>2. ASSUME NEW c \in Cache, HandlePrefetch(c)
      PROVE  LedgerNow' /\ (LosslessStep /\ DueNow => DueNow')
  <2>1. pq[c] # <<>>
    BY <1>2 DEF HandlePrefetch
  <2> QED
    BY <1>2, <2>1, PrefetchLedger DEF LosslessStep
<1>3. ASSUME NEW c \in Cache, HandleWriteback(c)
      PROVE  LedgerNow' /\ (LosslessStep /\ DueNow => DueNow')
  <2>1. wq[c] # <<>>
    BY <1>3, ZenonT(60) DEF HandleWriteback
  <2> QED
    BY <1>3, <2>1, WritebackLedger, SMTT(60) DEF LosslessStep
<1>4. ASSUME NEW c \in Cache, HandleFill(c) PROVE LedgerNow' /\ (DueNow => DueNow')
  BY <1>4, FillLedger
<1>5. CASE MemoryRead
  BY <1>5, MemoryReadLedger
<1>6. ASSUME NEW u \in Client, NEW a \in Addr, Load(u, a)
      PROVE  LedgerNow' /\ (DueNow => DueNow')
  BY <1>6, LoadLedger
<1>7. ASSUME NEW c \in Cache, NEW a \in Addr, NEW f \in BOOLEAN, PrefetchLine(c, a, f)
      PROVE  LedgerNow' /\ (DueNow => DueNow')
  BY <1>7, PrefetchLineLedger
<1>8. CASE UNCHANGED <<rq, pq, mshr, memRQ, pending>>
  BY <1>8 DEF LedgerNow, DueNow
<1>9. MemoryWrite \/ FinishWarmup \/ (\E u \in Client, a \in Addr : Store(u, a)) \/ UNCHANGED vars
        => UNCHANGED <<rq, pq, mshr, memRQ, pending>>
  BY DEF MemoryWrite, FinishWarmup, Store, vars
<1> QED
  BY <1>1, <1>2, <1>3, <1>4, <1>5, <1>6, <1>7, <1>8, <1>9 DEF Next, Operate

LEMMA InitLedger == Init => LedgerNow /\ DueNow /\ \A asks : Writes(asks, wq)
<1> SUFFICES ASSUME Init PROVE LedgerNow /\ DueNow /\ \A asks : Writes(asks, wq)
  OBVIOUS
<1>1. /\ \A c \in Cache : /\ rq[c] = <<>> /\ pq[c] = <<>> /\ mshr[c] = <<>>
                          /\ wq[c] = <<>>
      /\ \A u \in Client : pending[u] = {}
      /\ memRQ = {}
  BY DEF Init
<1>2. \A x, k : ~ In(<<>>, x, k)
  BY DEF In
<1>3. \A c \in Cache : Tidy(c, <<>>) /\ Ordered(<<>>)
  BY DEF Tidy, Distinct, Ordered
<1>4. \A x \in Receiver : \A k : ~ At(rq, pq, mshr, memRQ, x, k)
  <2>1. \A x \in Receiver : Below[x] \in Cache \cup {Memory}
    BY TopologyAssumption DEF Lone, Receiver
  <2> QED
    BY <1>1, <1>2, <2>1 DEF At, InSet
<1>5. \A x, k : ~ Owed(mshr, pending, x, k)
  BY <1>1 DEF Owed, Waits, Lone
<1>6. Lists(rq, pq, mshr, memRQ)
  BY <1>1, <1>3 DEF Lists, LineOnce
<1>7. Apart(rq, pq, mshr)
  BY <1>1, <1>2 DEF Apart
<1>8. LedgerNow
  BY <1>4, <1>6, <1>7 DEF LedgerNow, Ledger, Claims
<1>9. DueNow
  BY <1>5 DEF DueNow, Due
<1>10. \A asks : Writes(asks, wq)
  BY <1>1 DEF Writes
<1> QED
  BY <1>8, <1>9, <1>10

\* Every line, for every node: what holds of the write queues whoever asks what.
Anything == [x \in Node |-> Line]

LEMMA SpecLedger == Spec => [](TypeInv /\ Writes(Anything, wq) /\ LedgerNow)
<1> DEFINE Inv == TypeInv /\ Writes(Anything, wq) /\ LedgerNow
<1>1. Init => Inv
  BY InitTypeInv, InitLedger
<1>2. Inv /\ [Next]_vars => Inv'
  <2> SUFFICES ASSUME Inv, [Next]_vars PROVE Inv'
    OBVIOUS
  <2>1. StoresAsked(Anything)
    <3>1. \A u \in Client : \A a \in StoreAddr[u] : a \in Addr
      BY AddressAssumption
    <3> QED
      BY <3>1 DEF StoresAsked, Anything, Line, Node
  <2>2. Writes(Anything, wq')
    BY <2>1, WritesStep
  <2>3. Writes(Anything, wq)'
    BY <2>2 DEF Writes, WriteFits, Anything
  <2> QED
    BY <2>3, NextTypeInv, LedgerStep
<1> QED
  BY <1>1, <1>2, PTL DEF Spec

\* A returned MSHR never stands behind one that still waits, so handle_fill, which
\* looks at the first entry only, finds it (the iter_swap in CACHE::return_data).  It
\* needs the whole ledger: an answer for an entry that is already returned, or that
\* does not exist, would break the order.
THEOREM CacheReturnedFirst == Spec => []ReturnedFirst
<1>1. TypeInv /\ LedgerNow => ReturnedFirst
  <2> SUFFICES ASSUME TypeInv, LedgerNow, NEW c \in Cache
               PROVE  \A i, j \in DOMAIN mshr[c] :
                         i < j /\ mshr[c][j].returned => mshr[c][i].returned
    BY DEF ReturnedFirst
  <2>1. DOMAIN mshr[c] = 1 .. Len(mshr[c])
    BY DEF TypeInv, Requests, Queues
  <2>2. Ordered(mshr[c])
    BY DEF LedgerNow, Ledger, Lists
  <2> QED
    BY <2>1, <2>2 DEF Ordered
<1> QED
  BY <1>1, SpecLedger, PTL

-----------------------------------------------------------------------------
\* Counting what is on its way.

LEMMA OneOrNone ==
    ASSUME NEW S, \A x, y \in S : x = y
    PROVE  Cardinality(S) = IF S = {} THEN 0 ELSE 1
<1>1. CASE S = {}
  BY <1>1, FS_EmptySet
<1>2. CASE S # {}
  <2>1. PICK x \in S : TRUE
    BY <1>2
  <2>2. S = {x}
    BY <2>1
  <2> QED
    BY <1>2, <2>2, FS_Singleton
<1> QED
  BY <1>1, <1>2

Unreturned(c, l) == {i \in DOMAIN mshr[c] : LineOf[mshr[c][i].addr] = l /\ ~ mshr[c][i].returned}

LEMMA UnreturnedCount ==
    ASSUME TypeInv, LedgerNow, NEW c \in Cache, NEW l
    PROVE  Cardinality(Unreturned(c, l)) = IF Waits(mshr[c], l) THEN 1 ELSE 0
<1>1. DOMAIN mshr[c] = 1 .. Len(mshr[c])
  BY DEF TypeInv, Requests, Queues
<1>2. \A i, j \in Unreturned(c, l) : i = j
  BY <1>1 DEF Unreturned, LedgerNow, Ledger, Lists, Tidy, Distinct
<1>3. Unreturned(c, l) # {} <=> Waits(mshr[c], l)
  BY <1>1 DEF Unreturned, Waits
<1> QED
  BY <1>2, <1>3, OneOrNone

LEMMA UniqueName ==
    ASSUME NEW c, NEW q, Tidy(c, q), NEW i \in 1 .. Len(q), NEW j \in 1 .. Len(q), NEW x, NEW k,
           Names(q[i], x, k), Names(q[j], x, k)
    PROVE  i = j
<1>1. LineOf[q[i].addr] = LineOf[q[j].addr]
  BY NamesIdentify DEF Tidy
<1> QED
  BY <1>1 DEF Tidy, Distinct

LEMMA CarriersCount ==
    ASSUME TypeInv, LedgerNow, NEW c \in Cache, NEW l
    PROVE  Cardinality(Carriers(c, l)) = IF At(rq, pq, mshr, memRQ, c, l) THEN 1 ELSE 0
<1> DEFINE b == Below[c]
           S == Carriers(c, l)
<1>1. c \notin Lone /\ c \in Receiver /\ b \in Cache \cup {Memory}
  BY TopologyAssumption DEF Lone, Receiver
<1>2. \A p : Names(p, c, l) <=> c \in p.to_return /\ LineOf[p.addr] = l
  BY <1>1 DEF Names
<1>3. CASE b = Memory
  <2>1. S = {<<"mem", p>> : p \in {p \in memRQ : c \in p.to_return /\ LineOf[p.addr] = l}}
    BY <1>3 DEF Carriers
  <2> HIDE DEF S
  <2>2. \A e : e \in S <=> \E p \in memRQ : e = <<"mem", p>> /\ Names(p, c, l)
    BY <1>2, <2>1
  <2>3. \A p, o \in memRQ : Names(p, c, l) /\ Names(o, c, l) => p = o
    BY <1>2 DEF LedgerNow, Ledger, Lists, LineOnce
  <2>4. \A d, e \in S : d = e
    BY <2>2, <2>3
  <2>5. S # {} <=> At(rq, pq, mshr, memRQ, c, l)
    BY <1>3, <2>2 DEF At, InSet
  <2> QED
    BY <2>4, <2>5, OneOrNone DEF S
<1>4. CASE b # Memory
  <2> HIDE DEF b
  <2>1. b \in Cache
    BY <1>1, <1>4
  <2>2. /\ DOMAIN rq[b] = 1 .. Len(rq[b]) /\ DOMAIN pq[b] = 1 .. Len(pq[b])
        /\ DOMAIN mshr[b] = 1 .. Len(mshr[b])
    BY <2>1 DEF TypeInv, Requests, Queues
  <2>3. S = {<<"rq", i>>   : i \in {i \in DOMAIN rq[b] :
                                       c \in rq[b][i].to_return /\ LineOf[rq[b][i].addr] = l}} \cup
            {<<"pq", i>>   : i \in {i \in DOMAIN pq[b] :
                                       c \in pq[b][i].to_return /\ LineOf[pq[b][i].addr] = l}} \cup
            {<<"mshr", i>> : i \in {i \in DOMAIN mshr[b] :
                                       c \in mshr[b][i].to_return /\ LineOf[mshr[b][i].addr] = l}}
    BY <1>4 DEF Carriers, b
  <2> HIDE DEF S
  <2>4. \A e : e \in S <=>
              \/ \E i \in 1 .. Len(rq[b]) : e = <<"rq", i>> /\ Names(rq[b][i], c, l)
              \/ \E i \in 1 .. Len(pq[b]) : e = <<"pq", i>> /\ Names(pq[b][i], c, l)
              \/ \E i \in 1 .. Len(mshr[b]) : e = <<"mshr", i>> /\ Names(mshr[b][i], c, l)
    BY <1>2, <2>2, <2>3
  <2>5. Tidy(b, rq[b]) /\ Tidy(b, pq[b]) /\ Tidy(b, mshr[b])
    BY <2>1 DEF LedgerNow, Ledger, Lists
  <2>6. /\ \A i, j \in 1 .. Len(rq[b]) :
              Names(rq[b][i], c, l) /\ Names(rq[b][j], c, l) => i = j
        /\ \A i, j \in 1 .. Len(pq[b]) :
              Names(pq[b][i], c, l) /\ Names(pq[b][j], c, l) => i = j
        /\ \A i, j \in 1 .. Len(mshr[b]) :
              Names(mshr[b][i], c, l) /\ Names(mshr[b][j], c, l) => i = j
    BY <2>5, UniqueName
  <2>7. /\ ~ (In(rq[b], c, l) /\ In(pq[b], c, l)) /\ ~ (In(rq[b], c, l) /\ In(mshr[b], c, l))
        /\ ~ (In(pq[b], c, l) /\ In(mshr[b], c, l))
    BY <2>1 DEF LedgerNow, Ledger, Apart
  <2>8. \A d, e \in S : d = e
    BY <2>4, <2>6, <2>7 DEF In
  <2>9. At(rq, pq, mshr, memRQ, c, l) <=> In(rq[b], c, l) \/ In(pq[b], c, l) \/ In(mshr[b], c, l)
    BY <1>4 DEF At, b
  <2>10. S # {} <=> At(rq, pq, mshr, memRQ, c, l)
    BY <2>4, <2>9 DEF In
  <2> QED
    BY <2>8, <2>10, OneOrNone DEF S
<1> QED
  BY <1>3, <1>4

\* Where several nodes prefetch and read the same lines a name can be lost, when a
\* read replaces the prefetch in flight; but it is never carried twice, and never by
\* anything that no MSHR waits for, so return_data never looks for an entry in vain.
NeverAnsweredTwice ==
    \A c \in Cache, l \in Line :
        Cardinality(Carriers(c, l)) <=
            Cardinality({i \in DOMAIN mshr[c] :
                            LineOf[mshr[c][i].addr] = l /\ ~ mshr[c][i].returned})

\* No MSHR is answered twice and no answer comes for an entry that does not wait: the
\* assert(0) of CACHE::return_data is out of reach in every tree of caches, whatever
\* is merged, prefetched, forwarded from a write queue or served in any order.
THEOREM CacheNeverAnsweredTwice == Spec => []NeverAnsweredTwice
<1>1. TypeInv /\ LedgerNow => NeverAnsweredTwice
  <2> SUFFICES ASSUME TypeInv, LedgerNow, NEW c \in Cache, NEW l \in Line
               PROVE  Cardinality(Carriers(c, l)) <= Cardinality(Unreturned(c, l))
    BY DEF NeverAnsweredTwice, Unreturned
  <2>1. At(rq, pq, mshr, memRQ, c, l) => Waits(mshr[c], l)
    <3>1. c \in Receiver /\ c \notin Lone
      BY TopologyAssumption DEF Lone, Receiver
    <3> QED
      BY <3>1 DEF LedgerNow, Ledger, Claims, Owed
  <2> QED
    BY <2>1, CarriersCount, UnreturnedCount
<1> QED
  BY <1>1, SpecLedger, PTL

-----------------------------------------------------------------------------
\* Where the prefetches of a node are its own (PrefetchesApart with asks and prefetches
\* as the parameters a and f), no answer is lost.

\* Only a node that may ask for the line is answered, with a prefetch only one that may
\* prefetch it.
Rightful(a, f, e) ==
    /\ \A x \in e.to_return : LineOf[e.addr] \in a[x]
    /\ e.type = "PREFETCH" =>
          \A x \in e.to_return : x \in Cache /\ LineOf[e.addr] \in f[x]

\* In RQ: a read somebody waits for, or a prefetch as a load.
ReadFits(a, f, c, e) ==
    /\ Rightful(a, f, e)
    /\ e.fill <= FillLevel[c]
    /\ e.type # "PREFETCH" => e.to_return # {}
    /\ e.type = "PREFETCH" => \E x \in Cache : Below[x] = c /\ LineOf[e.addr] \in f[x]

\* In PQ.
PrefetchFits(a, f, c, e) ==
    /\ Rightful(a, f, e)
    /\ e.type = "PREFETCH" /\ LineOf[e.addr] \in f[c]
    /\ e.to_return # {} => e.fill <= FillLevel[c]
    /\ Below[c] # Memory => e.fill <= FillLevel[Below[c]]

\* A packet that misses in c.
MissFits(a, f, c, p) ==
    /\ Rightful(a, f, p)
    /\ LineOf[p.addr] \in a[c]
    /\ p.type = "PREFETCH" => LineOf[p.addr] \in f[c]
    /\ p.type # "PREFETCH" => p.fill <= FillLevel[c]
    /\ Below[c] # Memory => p.fill <= FillLevel[Below[c]]

Fits(a, f, r, q, m) ==
    \A c \in Cache : /\ \A i \in 1 .. Len(r[c]) : ReadFits(a, f, c, r[c][i])
                     /\ \A i \in 1 .. Len(q[c]) : PrefetchFits(a, f, c, q[c][i])
                     /\ \A i \in 1 .. Len(m[c]) : Rightful(a, f, m[c][i])

LEMMA LowerLevel ==
    ASSUME NEW c \in Cache, Below[c] # Memory
    PROVE  /\ Below[c] \in Cache /\ FillLevel[c] < FillLevel[Below[c]]
           /\ FillLevel[c] \in Nat /\ FillLevel[Below[c]] \in Nat
BY TopologyAssumption

LEMMA LevelIsNatural ==
    ASSUME NEW c \in Cache
    PROVE  FillLevel[c] \in Nat
BY TopologyAssumption

\* A prefetch of one node and a read of another never are for the same line.
LEMMA OwnPrefetch ==
    ASSUME NEW a, NEW f, PrefetchesApart(a, f), NEW c \in Cache, NEW x \in Cache, Below[x] = c,
           NEW y \in Node, Below[y] = c, NEW l, l \in f[x], l \in a[y]
    PROVE  x = y
BY DEF PrefetchesApart

LEMMA MergedRightful ==
    ASSUME NEW a, NEW f, NEW e, NEW p, NEW n, Rightful(a, f, e), Rightful(a, f, p),
           n.addr = e.addr, n.type = e.type, LineOf[e.addr] = LineOf[p.addr],
           n.to_return = e.to_return \cup p.to_return,
           e.type = "PREFETCH" => \A x \in p.to_return : x \in Cache /\ LineOf[p.addr] \in f[x]
    PROVE  Rightful(a, f, n)
BY DEF Rightful

LEMMA ReadsJoined ==
    ASSUME NEW a, NEW f, PrefetchesApart(a, f), NEW c \in Cache, NEW q \in Seq(Packet),
           \A i \in 1 .. Len(q) : ReadFits(a, f, c, q[i]), NEW p \in Packet, Sound(c, p),
           ReadFits(a, f, c, p)
    PROVE  \A i \in 1 .. Len(JoinRQ(c, q, p)) : ReadFits(a, f, c, JoinRQ(c, q, p)[i])
<1> DEFINE i == Find(q, p.addr)
           e == Merge(q[i], p)
<1>1. CASE i # 0
  <2>1. i \in 1 .. Len(q) /\ LineOf[q[i].addr] = LineOf[p.addr] /\ q[i] \in Packet
    BY <1>1, FindFields, ElementOfSeq DEF SameLine
  <2>2. /\ e \in Packet /\ e.addr = q[i].addr /\ e.type = q[i].type /\ e.fill = q[i].fill
        /\ e.to_return = q[i].to_return \cup p.to_return
    BY <2>1, MergedPacket
  <2>3. JoinRQ(c, q, p) = ReplaceAt(q, i, e)
    BY <1>1 DEF JoinRQ
  <2> HIDE DEF e, i
  <2>4. ReadFits(a, f, c, q[i])
    BY <2>1
  <2>5. ASSUME q[i].type = "PREFETCH", NEW y \in p.to_return
        PROVE  y \in Cache /\ LineOf[p.addr] \in f[y]
    <3>1. PICK x \in Cache : Below[x] = c /\ LineOf[p.addr] \in f[x]
      BY <2>1, <2>4, <2>5 DEF ReadFits
    <3>2. y \in Node /\ Below[y] = c /\ LineOf[p.addr] \in a[y]
      BY DEF Packet, Sound, ReadFits, Rightful
    <3> QED
      BY <3>1, <3>2, OwnPrefetch
  <2>6. Rightful(a, f, e)
    BY <2>1, <2>2, <2>4, <2>5, MergedRightful DEF ReadFits
  <2>7. ReadFits(a, f, c, e)
    BY <2>2, <2>4, <2>6 DEF ReadFits
  <2>8. /\ Len(ReplaceAt(q, i, e)) = Len(q)
        /\ \A j \in 1 .. Len(q) : ReplaceAt(q, i, e)[j] = IF j = i THEN e ELSE q[j]
    BY <2>2, ReplaceAtFields
  <2> QED
    BY <2>3, <2>7, <2>8
<1>2. CASE i = 0 /\ Len(q) < RQ_SIZE[c]
  <2>1. JoinRQ(c, q, p) = Append(q, p)
    BY <1>2 DEF JoinRQ
  <2>2. /\ Len(q) \in Nat /\ Len(Append(q, p)) = Len(q) + 1
        /\ \A j \in 1 .. Len(q) : Append(q, p)[j] = q[j]
        /\ Append(q, p)[Len(q) + 1] = p
    BY AppendFields
  <2>3. \A j \in 1 .. Len(q) + 1 : j \in 1 .. Len(q) \/ j = Len(q) + 1
    BY <2>2
  <2> QED
    BY <2>1, <2>2, <2>3
<1>3. CASE i = 0 /\ ~ Len(q) < RQ_SIZE[c]
  BY <1>3 DEF JoinRQ
<1> QED
  BY <1>1, <1>2, <1>3

LEMMA PrefetchesJoined ==
    ASSUME NEW a, NEW f, NEW c \in Cache, NEW q \in Seq(Packet),
           \A i \in 1 .. Len(q) : PrefetchFits(a, f, c, q[i]), NEW p \in Packet,
           PrefetchFits(a, f, c, p)
    PROVE  \A i \in 1 .. Len(JoinPQ(c, q, p)) : PrefetchFits(a, f, c, JoinPQ(c, q, p)[i])
<1> DEFINE i == Find(q, p.addr)
           g == Merge(q[i], p)
           e == [g EXCEPT !.fill = Lower(@, p.fill)]
<1>1. CASE i # 0
  <2>1. i \in 1 .. Len(q) /\ LineOf[q[i].addr] = LineOf[p.addr] /\ q[i] \in Packet
    BY <1>1, FindFields, ElementOfSeq DEF SameLine
  <2>2. /\ g \in Packet /\ g.addr = q[i].addr /\ g.type = q[i].type /\ g.fill = q[i].fill
        /\ g.to_return = q[i].to_return \cup p.to_return
    BY <2>1, MergedPacket
  <2>3. JoinPQ(c, q, p) = ReplaceAt(q, i, e)
    BY <1>1 DEF JoinPQ
  <2> HIDE DEF g
  <2>4. p.fill \in Nat /\ q[i].fill \in Nat
    BY <2>1 DEF Packet
  <2>5. /\ e \in Packet /\ e.addr = g.addr /\ e.type = g.type
        /\ e.fill = Lower(g.fill, p.fill) /\ e.to_return = g.to_return
    BY <2>2, <2>4, LoweredFields
  <2> HIDE DEF e, i
  <2>6. PrefetchFits(a, f, c, q[i])
    BY <2>1
  <2>7. Rightful(a, f, e)
    <3>1. /\ Rightful(a, f, q[i]) /\ Rightful(a, f, p)
          /\ \A x \in p.to_return : x \in Cache /\ LineOf[p.addr] \in f[x]
      BY <2>6 DEF PrefetchFits, Rightful
    <3>2. e.addr = q[i].addr /\ e.type = q[i].type /\ e.to_return = q[i].to_return \cup p.to_return
      BY <2>2, <2>5
    <3> QED
      BY <2>1, <3>1, <3>2, MergedRightful
  <2>8. e.fill \in Nat /\ e.fill <= q[i].fill /\ e.fill <= p.fill
    BY <2>2, <2>4, <2>5 DEF Lower
  <2>9. FillLevel[c] \in Nat /\ (Below[c] # Memory => FillLevel[Below[c]] \in Nat)
    BY LevelIsNatural, LowerLevel
  <2>10. PrefetchFits(a, f, c, e)
    BY <2>2, <2>4, <2>5, <2>6, <2>7, <2>8, <2>9 DEF PrefetchFits
  <2>11. /\ Len(ReplaceAt(q, i, e)) = Len(q)
         /\ \A j \in 1 .. Len(q) : ReplaceAt(q, i, e)[j] = IF j = i THEN e ELSE q[j]
    BY <2>5, ReplaceAtFields
  <2> QED
    BY <2>3, <2>10, <2>11
<1>2. CASE i = 0 /\ Len(q) < PQ_SIZE[c]
  <2>1. JoinPQ(c, q, p) = Append(q, p)
    BY <1>2 DEF JoinPQ
  <2>2. /\ Len(q) \in Nat /\ Len(Append(q, p)) = Len(q) + 1
        /\ \A j \in 1 .. Len(q) : Append(q, p)[j] = q[j]
        /\ Append(q, p)[Len(q) + 1] = p
    BY AppendFields
  <2>3. \A j \in 1 .. Len(q) + 1 : j \in 1 .. Len(q) \/ j = Len(q) + 1
    BY <2>2
  <2> QED
    BY <2>1, <2>2, <2>3
<1>3. CASE i = 0 /\ ~ Len(q) < PQ_SIZE[c]
  BY <1>3 DEF JoinPQ
<1> QED
  BY <1>1, <1>2, <1>3

LEMMA EntriesCombined ==
    ASSUME NEW a, NEW f, NEW l \in Seq(MshrEntry),
           \A i \in 1 .. Len(l) : Rightful(a, f, l[i]), NEW p \in Packet, Rightful(a, f, p),
           Find(l, p.addr) # 0
    PROVE  LET i == Find(l, p.addr)
               n == ReplaceAt(l, i, Combine(l[i], p))
           IN  \A j \in 1 .. Len(n) : Rightful(a, f, n[j])
<1> DEFINE i == Find(l, p.addr)
           e == Combine(l[i], p)
           n == ReplaceAt(l, i, e)
<1>1. i \in 1 .. Len(l) /\ LineOf[l[i].addr] = LineOf[p.addr] /\ l[i] \in MshrEntry
  BY FindFields, ElementOfSeq DEF SameLine
<1> HIDE DEF i
<1>2. e \in MshrEntry
  BY <1>1, CombinedFields
<1>3. Rightful(a, f, e)
  <2>1. CASE Replaces(p, l[i])
    <3>1. e.addr = p.addr /\ e.type = p.type /\ e.to_return = p.to_return
      BY <1>1, <2>1, CombinedFields
    <3> HIDE DEF e
    <3> QED
      BY <3>1 DEF Rightful
  <2>2. CASE ~ Replaces(p, l[i])
    <3>1. /\ e.addr = l[i].addr /\ e.type = l[i].type
          /\ e.to_return = l[i].to_return \cup p.to_return
      BY <1>1, <2>2, CombinedFields
    <3> HIDE DEF e
    <3>2. Rightful(a, f, l[i])
      BY <1>1
    <3>3. l[i].type = "PREFETCH" => \A x \in p.to_return : x \in Cache /\ LineOf[p.addr] \in f[x]
      BY <2>2 DEF Replaces, Rightful
    <3> QED
      BY <1>1, <3>1, <3>2, <3>3, MergedRightful
  <2> QED
    BY <2>1, <2>2
<1> HIDE DEF e
<1>4. Len(n) = Len(l) /\ \A j \in 1 .. Len(l) : n[j] = IF j = i THEN e ELSE l[j]
  BY <1>2, ReplaceAtFields
<1> HIDE DEF n
<1>5. \A j \in 1 .. Len(n) : Rightful(a, f, n[j])
  BY <1>3, <1>4
<1> QED
  BY <1>5 DEF n, e, i

\* return_data moves entries about and changes no packet in them.
LEMMA MarkedEntries ==
    ASSUME NEW l \in Seq(MshrEntry), NEW a
    PROVE  \A j \in 1 .. Len(MarkReturned(l, a)) : \E i \in 1 .. Len(l) :
              /\ MarkReturned(l, a)[j].addr = l[i].addr
              /\ MarkReturned(l, a)[j].type = l[i].type
              /\ MarkReturned(l, a)[j].to_return = l[i].to_return
<1> DEFINE i == Find(l, a)
           unreturned == {j \in DOMAIN l : ~ l[j].returned}
           first == CHOOSE j \in unreturned : \A k \in unreturned : j <= k
           once == ReplaceAt(l, i, l[first])
<1>1. CASE i = 0 \/ unreturned = {}
  <2>1. MarkReturned(l, a) = l
    BY <1>1 DEF MarkReturned
  <2> QED
    BY <2>1
<1>2. CASE i # 0 /\ unreturned # {}
  <2>1. i \in 1 .. Len(l) /\ l[i] \in MshrEntry
    BY <1>2, FindFields, ElementOfSeq
  <2>2. first \in unreturned
    <3>1. unreturned \in SUBSET Nat
      OBVIOUS
    <3> QED
      BY <1>2, <3>1, ChosenLeast
  <2>3. first \in 1 .. Len(l) /\ l[first] \in MshrEntry
    BY <2>2, ElementOfSeq
  <2>4. MarkReturned(l, a) = ReplaceAt(once, first, Arrived(l[i]))
    BY <1>2 DEF MarkReturned, Arrived
  <2> HIDE DEF first, i, unreturned
  <2>5. /\ once \in Seq(MshrEntry) /\ Len(once) = Len(l)
        /\ \A k \in 1 .. Len(l) : once[k] = IF k = i THEN l[first] ELSE l[k]
    BY <2>3, ReplaceAtFields
  <2> HIDE DEF once
  <2>6. /\ Arrived(l[i]) \in MshrEntry
        /\ Arrived(l[i]).addr = l[i].addr /\ Arrived(l[i]).type = l[i].type
        /\ Arrived(l[i]).to_return = l[i].to_return
    BY <2>1, ArrivedFields
  <2>7. /\ Len(MarkReturned(l, a)) = Len(l)
        /\ \A k \in 1 .. Len(l) : MarkReturned(l, a)[k] = IF k = first THEN Arrived(l[i])
                                                          ELSE IF k = i THEN l[first] ELSE l[k]
    BY <2>4, <2>5, <2>6, ReplaceAtFields
  <2> QED
    BY <2>1, <2>3, <2>6, <2>7
<1> QED
  BY <1>1, <1>2

LEMMA ReturnFits ==
    ASSUME NEW a, NEW f, NEW r, NEW q, NEW m, Queues(m, MSHR_SIZE, MshrEntry),
           Fits(a, f, r, q, m), NEW p
    PROVE  Fits(a, f, r, q, Return(m, p))
<1> DEFINE n == Return(m, p)
<1>1. \A c \in Cache : n[c] = IF c \in p.to_return THEN MarkReturned(m[c], p.addr) ELSE m[c]
  BY DEF Return
<1> HIDE DEF n
<1>2. ASSUME NEW c \in Cache PROVE \A j \in 1 .. Len(n[c]) : Rightful(a, f, n[c][j])
  <2>1. /\ m[c] \in Seq(MshrEntry)
        /\ \A i \in 1 .. Len(m[c]) : Rightful(a, f, m[c][i])
    BY DEF Queues, Fits
  <2>2. CASE c \in p.to_return
    <3>1. n[c] = MarkReturned(m[c], p.addr)
      BY <1>1, <2>2
    <3>2. \A j \in 1 .. Len(n[c]) : \E i \in 1 .. Len(m[c]) :
              /\ n[c][j].addr = m[c][i].addr /\ n[c][j].type = m[c][i].type
              /\ n[c][j].to_return = m[c][i].to_return
      <4> DEFINE l == m[c]
      <4>1. l \in Seq(MshrEntry)
        BY <2>1
      <4> HIDE DEF l
      <4>2. \A j \in 1 .. Len(MarkReturned(l, p.addr)) : \E i \in 1 .. Len(l) :
                /\ MarkReturned(l, p.addr)[j].addr = l[i].addr
                /\ MarkReturned(l, p.addr)[j].type = l[i].type
                /\ MarkReturned(l, p.addr)[j].to_return = l[i].to_return
        BY <4>1, MarkedEntries
      <4> QED
        BY <3>1, <4>2 DEF l
    <3> SUFFICES ASSUME NEW j \in 1 .. Len(n[c]) PROVE Rightful(a, f, n[c][j])
      OBVIOUS
    <3>3. PICK i \in 1 .. Len(m[c]) :
              /\ n[c][j].addr = m[c][i].addr /\ n[c][j].type = m[c][i].type
              /\ n[c][j].to_return = m[c][i].to_return
      BY <3>2
    <3>4. Rightful(a, f, m[c][i])
      BY <2>1
    <3> QED
      BY <3>3, <3>4 DEF Rightful
  <2>3. CASE c \notin p.to_return
    BY <1>1, <2>1, <2>3
  <2> QED
    BY <2>2, <2>3
<1> QED
  BY <1>2 DEF Fits, n

LEMMA AddRQFits ==
    ASSUME NEW a, NEW f, PrefetchesApart(a, f), NEW c \in Cache, NEW p \in Packet,
           NEW r, NEW q, NEW m, Requests(r, q, m, memRQ, pending), Fits(a, f, r, q, m),
           Sound(c, p), ReadFits(a, f, c, p), AddRQ(c, p, r, q, m)
    PROVE  Fits(a, f, rq', pq', mshr')
<1>1. CASE InWQ(c, p.addr)
  <2>1. rq' = r /\ pq' = q /\ mshr' = Return(m, p)
    BY <1>1 DEF AddRQ, Forward
  <2> QED
    BY <2>1, ReturnFits DEF Requests
<1>2. CASE ~ InWQ(c, p.addr)
  <2> DEFINE n == [r EXCEPT ![c] = JoinRQ(c, @, p)]
  <2>1. rq' = n /\ pq' = q /\ mshr' = m
    BY <1>2 DEF AddRQ
  <2>2. /\ r[c] \in Seq(Packet) /\ \A i \in 1 .. Len(r[c]) : ReadFits(a, f, c, r[c][i])
        /\ n[c] = JoinRQ(c, r[c], p) /\ \A d \in Cache : d # c => n[d] = r[d]
    BY DEF Requests, Queues, Fits
  <2> DEFINE l == r[c]
  <2>3. \A i \in 1 .. Len(JoinRQ(c, l, p)) : ReadFits(a, f, c, JoinRQ(c, l, p)[i])
    <3>1. l \in Seq(Packet) /\ \A i \in 1 .. Len(l) : ReadFits(a, f, c, l[i])
      BY <2>2
    <3> HIDE DEF l
    <3> QED
      BY <3>1, ReadsJoined
  <2> HIDE DEF n
  <2>4. \A i \in 1 .. Len(n[c]) : ReadFits(a, f, c, n[c][i])
    BY <2>2, <2>3
  <2> QED
    BY <2>1, <2>2, <2>4 DEF Fits
<1> QED
  BY <1>1, <1>2

LEMMA AddPQFits ==
    ASSUME NEW a, NEW f, NEW c \in Cache, NEW p \in Packet,
           NEW r, NEW q, NEW m, Requests(r, q, m, memRQ, pending), Fits(a, f, r, q, m),
           PrefetchFits(a, f, c, p), AddPQ(c, p, r, q, m)
    PROVE  Fits(a, f, rq', pq', mshr')
<1>1. CASE InWQ(c, p.addr)
  <2>1. rq' = r /\ pq' = q /\ mshr' = Return(m, p)
    BY <1>1 DEF AddPQ, Forward
  <2> QED
    BY <2>1, ReturnFits DEF Requests
<1>2. CASE ~ InWQ(c, p.addr)
  <2> DEFINE n == [q EXCEPT ![c] = JoinPQ(c, @, p)]
  <2>1. pq' = n /\ rq' = r /\ mshr' = m
    BY <1>2 DEF AddPQ
  <2>2. /\ q[c] \in Seq(Packet) /\ \A i \in 1 .. Len(q[c]) : PrefetchFits(a, f, c, q[c][i])
        /\ n[c] = JoinPQ(c, q[c], p) /\ \A d \in Cache : d # c => n[d] = q[d]
    BY DEF Requests, Queues, Fits
  <2> DEFINE l == q[c]
  <2>3. \A i \in 1 .. Len(JoinPQ(c, l, p)) : PrefetchFits(a, f, c, JoinPQ(c, l, p)[i])
    <3>1. l \in Seq(Packet) /\ \A i \in 1 .. Len(l) : PrefetchFits(a, f, c, l[i])
      BY <2>2
    <3> HIDE DEF l
    <3> QED
      BY <3>1, PrefetchesJoined
  <2> HIDE DEF n
  <2>4. \A i \in 1 .. Len(n[c]) : PrefetchFits(a, f, c, n[c][i])
    BY <2>2, <2>3
  <2> QED
    BY <2>1, <2>2, <2>4 DEF Fits
<1> QED
  BY <1>1, <1>2

LEMMA TakeReadFits ==
    ASSUME NEW a, NEW f, NEW r, NEW q, NEW m, Queues(r, RQ_SIZE, Packet),
           Fits(a, f, r, q, m), NEW c \in Cache, r[c] # <<>>
    PROVE  Fits(a, f, [r EXCEPT ![c] = Tail(@)], q, m) /\ ReadFits(a, f, c, Head(r[c]))
<1> DEFINE n == [r EXCEPT ![c] = Tail(@)]
<1>1. r[c] \in Seq(Packet) /\ n[c] = Tail(r[c]) /\ \A d \in Cache : d # c => n[d] = r[d]
  BY DEF Queues
<1> HIDE DEF n
<1>2. /\ Len(r[c]) \in Nat /\ Len(r[c]) >= 1 /\ Head(r[c]) = r[c][1]
      /\ Len(n[c]) = Len(r[c]) - 1
      /\ \A j \in 1 .. Len(r[c]) - 1 : n[c][j] = r[c][j + 1]
  <2> DEFINE l == r[c]
  <2>1. l # <<>> /\ n[c] = Tail(l)
    BY <1>1
  <2>2. l \in Seq(Packet)
    BY <1>1
  <2> HIDE DEF l
  <2>3. /\ Len(l) \in Nat /\ Len(l) >= 1 /\ Head(l) = l[1] /\ Len(Tail(l)) = Len(l) - 1
        /\ \A j \in 1 .. Len(l) - 1 : Tail(l)[j] = l[j + 1]
    BY <2>1, <2>2, TailFields
  <2> QED
    BY <2>1, <2>3 DEF l
<1>3. \A j \in 1 .. Len(n[c]) : j + 1 \in 1 .. Len(r[c]) /\ n[c][j] = r[c][j + 1]
  BY <1>2
<1>4. 1 \in 1 .. Len(r[c])
  BY <1>2
<1>5. Fits(a, f, n, q, m)
  BY <1>1, <1>3 DEF Fits
<1>6. ReadFits(a, f, c, Head(r[c]))
  BY <1>2, <1>4 DEF Fits
<1> QED
  BY <1>5, <1>6 DEF n

LEMMA TakePrefetchFits ==
    ASSUME NEW a, NEW f, NEW r, NEW q, NEW m, Queues(q, PQ_SIZE, Packet),
           Fits(a, f, r, q, m), NEW c \in Cache, q[c] # <<>>
    PROVE  Fits(a, f, r, [q EXCEPT ![c] = Tail(@)], m) /\ PrefetchFits(a, f, c, Head(q[c]))
<1> DEFINE n == [q EXCEPT ![c] = Tail(@)]
<1>1. q[c] \in Seq(Packet) /\ n[c] = Tail(q[c]) /\ \A d \in Cache : d # c => n[d] = q[d]
  BY DEF Queues
<1> HIDE DEF n
<1>2. /\ Len(q[c]) \in Nat /\ Len(q[c]) >= 1 /\ Head(q[c]) = q[c][1]
      /\ Len(n[c]) = Len(q[c]) - 1
      /\ \A j \in 1 .. Len(q[c]) - 1 : n[c][j] = q[c][j + 1]
  <2> DEFINE l == q[c]
  <2>1. l # <<>> /\ n[c] = Tail(l)
    BY <1>1
  <2>2. l \in Seq(Packet)
    BY <1>1
  <2> HIDE DEF l
  <2>3. /\ Len(l) \in Nat /\ Len(l) >= 1 /\ Head(l) = l[1] /\ Len(Tail(l)) = Len(l) - 1
        /\ \A j \in 1 .. Len(l) - 1 : Tail(l)[j] = l[j + 1]
    BY <2>1, <2>2, TailFields
  <2> QED
    BY <2>1, <2>3 DEF l
<1>3. \A j \in 1 .. Len(n[c]) : j + 1 \in 1 .. Len(q[c]) /\ n[c][j] = q[c][j + 1]
  BY <1>2
<1>4. 1 \in 1 .. Len(q[c])
  BY <1>2
<1>5. Fits(a, f, r, n, m)
  BY <1>1, <1>3 DEF Fits
<1>6. PrefetchFits(a, f, c, Head(q[c]))
  BY <1>2, <1>4 DEF Fits
<1> QED
  BY <1>5, <1>6 DEF n

LEMMA TakeEntryFits ==
    ASSUME NEW a, NEW f, NEW r, NEW q, NEW m, Queues(m, MSHR_SIZE, MshrEntry),
           Fits(a, f, r, q, m), NEW c \in Cache, m[c] # <<>>
    PROVE  Fits(a, f, r, q, [m EXCEPT ![c] = Tail(@)]) /\ Rightful(a, f, Head(m[c]))
<1> DEFINE n == [m EXCEPT ![c] = Tail(@)]
<1>1. m[c] \in Seq(MshrEntry) /\ n[c] = Tail(m[c]) /\ \A d \in Cache : d # c => n[d] = m[d]
  BY DEF Queues
<1> HIDE DEF n
<1>2. /\ Len(m[c]) \in Nat /\ Len(m[c]) >= 1 /\ Head(m[c]) = m[c][1]
      /\ Len(n[c]) = Len(m[c]) - 1
      /\ \A j \in 1 .. Len(m[c]) - 1 : n[c][j] = m[c][j + 1]
  <2> DEFINE l == m[c]
  <2>1. l # <<>> /\ n[c] = Tail(l)
    BY <1>1
  <2>2. l \in Seq(MshrEntry)
    BY <1>1
  <2> HIDE DEF l
  <2>3. /\ Len(l) \in Nat /\ Len(l) >= 1 /\ Head(l) = l[1] /\ Len(Tail(l)) = Len(l) - 1
        /\ \A j \in 1 .. Len(l) - 1 : Tail(l)[j] = l[j + 1]
    BY <2>1, <2>2, TailFields
  <2> QED
    BY <2>1, <2>3 DEF l
<1>3. \A j \in 1 .. Len(n[c]) : j + 1 \in 1 .. Len(m[c]) /\ n[c][j] = m[c][j + 1]
  BY <1>2
<1>4. 1 \in 1 .. Len(m[c])
  BY <1>2
<1>5. Fits(a, f, r, q, n)
  BY <1>1, <1>3 DEF Fits
<1>6. Rightful(a, f, Head(m[c]))
  BY <1>2, <1>4 DEF Fits
<1> QED
  BY <1>5, <1>6 DEF n

\* What stands at the head of a queue may miss.
LEMMA ReadMisses ==
    ASSUME NEW a, NEW f, PrefetchesApart(a, f), NEW c \in Cache, NEW p \in Packet,
           Sound(c, p), ReadFits(a, f, c, p)
    PROVE  MissFits(a, f, c, p)
<1>1. FillLevel[c] \in Nat /\ p.fill \in Nat
  BY LevelIsNatural DEF Packet
<1>2. Below[c] # Memory => p.fill <= FillLevel[Below[c]]
  BY <1>1, LowerLevel DEF ReadFits
<1>3. CASE p.type = "PREFETCH"
  <2>1. PICK x \in Cache : Below[x] = c /\ LineOf[p.addr] \in f[x]
    BY <1>3 DEF ReadFits
  <2>2. LineOf[p.addr] \in f[c] /\ LineOf[p.addr] \in a[c]
    BY <2>1 DEF PrefetchesApart
  <2> QED
    BY <1>2, <1>3, <2>2 DEF MissFits, ReadFits
<1>4. CASE p.type # "PREFETCH"
  <2>1. PICK x \in p.to_return : TRUE
    BY <1>4 DEF ReadFits
  <2>2. x \in Node /\ Below[x] = c /\ LineOf[p.addr] \in a[x]
    BY <2>1 DEF Packet, Sound, ReadFits, Rightful
  <2>3. LineOf[p.addr] \in a[c]
    BY <2>2 DEF PrefetchesApart
  <2> QED
    BY <1>2, <1>4, <2>3 DEF MissFits, ReadFits
<1> QED
  BY <1>3, <1>4

LEMMA PrefetchMisses ==
    ASSUME NEW a, NEW f, PrefetchesApart(a, f), NEW c \in Cache, NEW p,
           PrefetchFits(a, f, c, p)
    PROVE  MissFits(a, f, c, p)
BY DEF PrefetchFits, MissFits, PrefetchesApart

LEMMA WriteMisses ==
    ASSUME NEW a, NEW f, PrefetchesApart(a, f), NEW c \in Cache, NEW p \in Packet,
           WriteFits(a, c, p), p.type = "RFO"
    PROVE  MissFits(a, f, c, p)
<1>1. FillLevel[c] \in Nat /\ p.fill \in Nat
  BY LevelIsNatural DEF Packet
<1>2. Below[c] # Memory => p.fill <= FillLevel[Below[c]]
  BY <1>1, LowerLevel DEF WriteFits
<1>3. LineOf[p.addr] \in a[c]
  BY DEF WriteFits, PrefetchesApart, Node
<1>4. Rightful(a, f, p)
  BY DEF WriteFits, Rightful
<1> QED
  BY <1>2, <1>3, <1>4 DEF MissFits, WriteFits

\* What a miss asks of the level below fits the queue it is put in there.
LEMMA AskedFits ==
    ASSUME NEW a, NEW f, PrefetchesApart(a, f), NEW c \in Cache, NEW p \in Packet,
           MissFits(a, f, c, p), Below[c] # Memory
    PROVE  /\ Sound(Below[c], AskedOf(c, p))
           /\ ReadFits(a, f, Below[c], AskedOf(c, p))
           /\ p.type = "PREFETCH" => PrefetchFits(a, f, Below[c], AskedOf(c, p))
<1> DEFINE o == AskedOf(c, p)
           b == Below[c]
<1>1. /\ o.addr = p.addr /\ o.type = p.type /\ o.fill = p.fill
      /\ o.deps = {} /\ o.to_return = IF Keeps(c, p) THEN {c} ELSE {}
  BY AskedFields
<1>2. /\ b \in Cache /\ FillLevel[c] < FillLevel[b] /\ FillLevel[c] \in Nat /\ FillLevel[b] \in Nat
      /\ p.fill \in Nat
  BY LowerLevel DEF Packet
<1> HIDE DEF o
<1>4. Sound(b, o)
  BY <1>1 DEF Sound
<1>5. Rightful(a, f, o)
  BY <1>1 DEF MissFits, Rightful
<1>6. ReadFits(a, f, b, o)
  BY <1>1, <1>5 DEF MissFits, ReadFits, Keeps
<1>7. ASSUME p.type = "PREFETCH" PROVE PrefetchFits(a, f, b, o)
  <2>1. LineOf[o.addr] \in f[b]
    BY <1>1, <1>2, <1>7 DEF MissFits, PrefetchesApart
  <2>2. Below[b] # Memory => FillLevel[b] < FillLevel[Below[b]] /\ FillLevel[Below[b]] \in Nat
    BY <1>2, LowerLevel
  <2>3. o.fill <= FillLevel[b]
    BY <1>1 DEF MissFits
  <2> HIDE DEF b
  <2>4. Below[b] # Memory => o.fill <= FillLevel[Below[b]]
    BY <1>1, <1>2, <2>2, <2>3
  <2> QED
    BY <1>1, <1>5, <1>7, <2>1, <2>3, <2>4 DEF PrefetchFits
<1> QED
  BY <1>4, <1>6, <1>7 DEF o

LEMMA ReservedFits ==
    ASSUME NEW a, NEW f, NEW r, NEW q, Queues(mshr, MSHR_SIZE, MshrEntry),
           Fits(a, f, r, q, mshr), NEW c \in Cache, NEW p \in Packet, Rightful(a, f, p)
    PROVE  Fits(a, f, r, q, Reserved(c, p))
<1> DEFINE n == Reserved(c, p)
           e == Entry(p)
<1>1. CASE Keeps(c, p)
  <2>1. e \in MshrEntry /\ Rightful(a, f, e)
    BY EntryFields DEF Rightful
  <2> HIDE DEF e
  <2>2. /\ mshr[c] \in Seq(MshrEntry) /\ n[c] = Append(mshr[c], e)
        /\ \A d \in Cache : d # c => n[d] = mshr[d]
    BY <1>1 DEF Reserved, Queues, e
  <2> HIDE DEF n
  <2>3. /\ Len(mshr[c]) \in Nat /\ Len(n[c]) = Len(mshr[c]) + 1
        /\ \A j \in 1 .. Len(mshr[c]) : n[c][j] = mshr[c][j]
        /\ n[c][Len(mshr[c]) + 1] = e
    BY <2>1, <2>2, AppendFields
  <2>4. \A j \in 1 .. Len(n[c]) : j \in 1 .. Len(mshr[c]) \/ j = Len(mshr[c]) + 1
    BY <2>3
  <2> QED
    BY <2>1, <2>2, <2>3, <2>4 DEF Fits, n
<1>2. CASE ~ Keeps(c, p)
  BY <1>2 DEF Reserved
<1> QED
  BY <1>1, <1>2

LEMMA MissKeepsFits ==
    ASSUME NEW a, NEW f, PrefetchesApart(a, f), NEW c \in Cache, NEW p \in Packet,
           NEW r, NEW q, Requests(r, q, mshr, memRQ, pending), Fits(a, f, r, q, mshr),
           MissFits(a, f, c, p), ReadlikeMiss(c, p, r, q)
    PROVE  Fits(a, f, rq', pq', mshr')
<1>1. CASE JoinMSHR(c, p, r, q)
  <2> DEFINE l == mshr[c]
             i == Find(l, p.addr)
             n == ReplaceAt(l, i, Combine(l[i], p))
             m == [mshr EXCEPT ![c] = n]
  <2>1. i # 0 /\ rq' = r /\ pq' = q /\ mshr' = m
    BY <1>1 DEF JoinMSHR
  <2>2. l \in Seq(MshrEntry) /\ \A j \in 1 .. Len(l) : Rightful(a, f, l[j])
    BY DEF Requests, Queues, Fits
  <2>3. Rightful(a, f, p)
    BY DEF MissFits
  <2>4. DOMAIN mshr = Cache
    BY DEF Requests, Queues
  <2> HIDE DEF l
  <2>5. \A j \in 1 .. Len(n) : Rightful(a, f, n[j])
    BY <2>1, <2>2, <2>3, EntriesCombined
  <2> HIDE DEF n, i
  <2>6. m[c] = n /\ \A d \in Cache : d # c => m[d] = mshr[d]
    BY <2>4
  <2> HIDE DEF m
  <2> QED
    BY <2>1, <2>5, <2>6 DEF Fits
<1>2. CASE AskBelow(c, p, r, q)
  <2> DEFINE n == Reserved(c, p)
             o == AskedOf(c, p)
             b == Below[c]
  <2>1. Len(mshr[c]) # MSHR_SIZE[c]
    BY <1>2, AskBelowCases
  <2>2. o \in Packet
    BY AskedFields
  <2>3. Requests(r, q, n, memRQ, pending)
    BY <2>1, ReservedType
  <2>4. Fits(a, f, r, q, n)
    BY ReservedFits DEF Requests, MissFits
  <2>5. b # Memory => /\ b \in Cache /\ Sound(b, o) /\ ReadFits(a, f, b, o)
                      /\ p.type = "PREFETCH" => PrefetchFits(a, f, b, o)
    BY AskedFits, LevelsDiffer
  <2>6. \/ b = Memory /\ MemoryAdd(o, r, q, n)
        \/ b # Memory /\ AddRQ(b, o, r, q, n)
        \/ b # Memory /\ p.type = "PREFETCH" /\ AddPQ(b, o, r, q, n)
    BY <1>2, AskBelowCases
  <2> HIDE DEF n, o, b
  <2>7. CASE b = Memory /\ MemoryAdd(o, r, q, n)
    <3>1. rq' = r /\ pq' = q /\ (mshr' = n \/ mshr' = Return(n, o))
      BY <2>7 DEF MemoryAdd, Forward
    <3> QED
      BY <2>3, <2>4, <3>1, ReturnFits DEF Requests
  <2>8. CASE b # Memory /\ AddRQ(b, o, r, q, n)
    BY <2>2, <2>3, <2>4, <2>5, <2>8, AddRQFits
  <2>9. CASE b # Memory /\ p.type = "PREFETCH" /\ AddPQ(b, o, r, q, n)
    BY <2>2, <2>3, <2>4, <2>5, <2>9, AddPQFits
  <2> QED
    BY <2>6, <2>7, <2>8, <2>9
<1> QED
  BY <1>1, <1>2 DEF ReadlikeMiss

FitsNow(a, f) == Fits(a, f, rq, pq, mshr)

\* Whoever waits for a prefetch in flight is the only node that may want its line.
LEMMA PrefetchIsOwn ==
    ASSUME NEW a, NEW f, PrefetchesApart(a, f), LedgerNow, FitsNow(a, f), NEW c \in Cache,
           NEW i \in 1 .. Len(mshr[c]), mshr[c][i].type = "PREFETCH",
           NEW x \in mshr[c][i].to_return, NEW y \in Node, Below[y] = c,
           LineOf[mshr[c][i].addr] \in a[y]
    PROVE  x \in Cache /\ x = y
<1>1. Rightful(a, f, mshr[c][i]) /\ Sound(c, mshr[c][i])
  BY DEF FitsNow, Fits, LedgerNow, Ledger, Lists, Tidy
<1>2. x \in Cache /\ Below[x] = c /\ LineOf[mshr[c][i].addr] \in f[x]
  BY <1>1 DEF Rightful, Sound
<1> QED
  BY <1>2, OwnPrefetch

LEMMA FitsLossless ==
    ASSUME NEW a, NEW f, PrefetchesApart(a, f), TypeInv, LedgerNow, FitsNow(a, f), Writes(a, wq)
    PROVE  LosslessStep
<1>1. ASSUME NEW c \in Cache, rq[c] # <<>> PROVE Lossless(c, Head(rq[c]))
  <2> DEFINE p == Head(rq[c])
  <2>1. rq[c] \in Seq(Packet) /\ Tidy(c, rq[c])
    BY DEF TypeInv, Requests, Queues, LedgerNow, Ledger, Lists
  <2>2. p \in Packet /\ p = rq[c][1] /\ 1 \in 1 .. Len(rq[c])
    BY <1>1, <2>1, TailFields
  <2> HIDE DEF p
  <2>3. ReadFits(a, f, c, p) /\ Sound(c, p)
    BY <2>1, <2>2 DEF FitsNow, Fits, Tidy
  <2>4. Keeps(c, p)
    BY <2>3 DEF ReadFits, Keeps
  <2>5. ASSUME NEW i \in 1 .. Len(mshr[c]), LineOf[mshr[c][i].addr] = LineOf[p.addr],
               Replaces(p, mshr[c][i])
        PROVE  mshr[c][i].to_return = {}
    <3>1. PICK y \in p.to_return : TRUE
      BY <2>3, <2>5 DEF Replaces, ReadFits
    <3>2. y \in Node /\ Below[y] = c /\ LineOf[p.addr] \in a[y]
      BY <2>2, <2>3, <3>1 DEF Packet, Sound, ReadFits, Rightful
    <3>3. ASSUME NEW x \in mshr[c][i].to_return PROVE FALSE
      <4>1. x \in Cache /\ x = y
        BY <2>5, <3>2, <3>3, PrefetchIsOwn DEF Replaces
      <4>2. In(rq[c], x, LineOf[p.addr])
        BY <2>2, <3>1, <4>1 DEF In, Names
      <4>3. In(mshr[c], x, LineOf[p.addr])
        BY <2>5, <3>3, <4>1 DEF In, Names
      <4> QED
        BY <4>2, <4>3 DEF LedgerNow, Ledger, Apart
    <3> QED
      BY <3>3
  <2> QED
    BY <2>4, <2>5 DEF Lossless, p
<1>2. ASSUME NEW c \in Cache, pq[c] # <<>> PROVE Lossless(c, Head(pq[c]))
  <2> DEFINE p == Head(pq[c])
  <2>1. PrefetchFits(a, f, c, p)
    BY <1>2, TakePrefetchFits DEF TypeInv, Requests, FitsNow
  <2> QED
    BY <2>1 DEF Lossless, PrefetchFits, Keeps, Replaces
<1>3. ASSUME NEW c \in Cache, wq[c] # <<>>, Head(wq[c]).type = "RFO"
      PROVE  Lossless(c, Head(wq[c]))
  <2> DEFINE p == Head(wq[c])
  <2>1. WriteFits(a, c, p)
    BY <1>3, WritesShortened DEF TypeInv
  <2> HIDE DEF p
  <2>2. PICK y \in Client : Below[y] = c /\ LineOf[p.addr] \in a[y]
    BY <1>3, <2>1 DEF WriteFits, p
  <2>3. y \notin Cache /\ y \in Node
    BY TopologyAssumption DEF Node
  <2>4. ASSUME NEW i \in 1 .. Len(mshr[c]), LineOf[mshr[c][i].addr] = LineOf[p.addr],
               Replaces(p, mshr[c][i]), NEW x \in mshr[c][i].to_return
        PROVE  FALSE
    <3>1. x = y /\ x \in Cache
      BY <2>2, <2>3, <2>4, PrefetchIsOwn DEF Replaces
    <3> QED
      BY <2>3, <3>1
  <2>5. p.to_return = {}
    BY <2>1 DEF WriteFits
  <2> QED
    BY <2>4, <2>5 DEF Lossless, p
<1> QED
  BY <1>1, <1>2, <1>3 DEF LosslessStep

LEMMA FitsStep ==
    ASSUME NEW a, NEW f, PrefetchesApart(a, f), TypeInv, LedgerNow, FitsNow(a, f),
           Writes(a, wq), [Next]_vars
    PROVE  FitsNow(a, f)'
<1> SUFFICES Fits(a, f, rq', pq', mshr')
  BY DEF FitsNow, Fits, ReadFits, PrefetchFits, Rightful
<1> USE DEF FitsNow
<1>1. Requests(rq, pq, mshr, memRQ, pending)
  BY DEF TypeInv
<1>2. \A p : Fits(a, f, rq, pq, Return(mshr, p))
  BY <1>1, ReturnFits DEF Requests
<1>3. ASSUME NEW c \in Cache, HandleRead(c) PROVE Fits(a, f, rq', pq', mshr')
  <2> DEFINE p == Head(rq[c])
             r == [rq EXCEPT ![c] = Tail(@)]
  <2>1. rq[c] # <<>> /\ (ReadlikeHit(p, r, pq) \/ ReadlikeMiss(c, p, r, pq))
    BY <1>3 DEF HandleRead
  <2>2. p \in Packet /\ Requests(r, pq, mshr, memRQ, pending)
    BY <1>1, <2>1, QueueShortened, SizesAreFunctions DEF Requests
  <2>3. Fits(a, f, r, pq, mshr) /\ ReadFits(a, f, c, p)
    BY <1>1, <2>1, TakeReadFits DEF Requests
  <2>4. Sound(c, p)
    BY <1>1, <2>1, TailNames DEF LedgerNow, Ledger, Lists, Requests, Queues
  <2> HIDE DEF p, r
  <2>5. MissFits(a, f, c, p)
    BY <2>2, <2>3, <2>4, ReadMisses
  <2>6. CASE ReadlikeHit(p, r, pq)
    <3>1. rq' = r /\ pq' = pq /\ mshr' = Return(mshr, p)
      BY <2>6 DEF ReadlikeHit
    <3> QED
      BY <2>2, <2>3, <3>1, ReturnFits DEF Requests
  <2>7. CASE ReadlikeMiss(c, p, r, pq)
    BY <2>2, <2>3, <2>5, <2>7, MissKeepsFits
  <2> QED
    BY <2>1, <2>6, <2>7
<1>4. ASSUME NEW c \in Cache, HandlePrefetch(c) PROVE Fits(a, f, rq', pq', mshr')
  <2> DEFINE p == Head(pq[c])
             q == [pq EXCEPT ![c] = Tail(@)]
  <2>1. pq[c] # <<>> /\ (ReadlikeHit(p, rq, q) \/ ReadlikeMiss(c, p, rq, q))
    BY <1>4 DEF HandlePrefetch
  <2>2. p \in Packet /\ Requests(rq, q, mshr, memRQ, pending)
    BY <1>1, <2>1, QueueShortened, SizesAreFunctions DEF Requests
  <2>3. Fits(a, f, rq, q, mshr) /\ PrefetchFits(a, f, c, p)
    BY <1>1, <2>1, TakePrefetchFits DEF Requests
  <2> HIDE DEF p, q
  <2>4. MissFits(a, f, c, p)
    BY <2>3, PrefetchMisses
  <2>5. CASE ReadlikeHit(p, rq, q)
    <3>1. rq' = rq /\ pq' = q /\ mshr' = Return(mshr, p)
      BY <2>5 DEF ReadlikeHit
    <3> QED
      BY <2>2, <2>3, <3>1, ReturnFits DEF Requests
  <2>6. CASE ReadlikeMiss(c, p, rq, q)
    BY <2>2, <2>3, <2>4, <2>6, MissKeepsFits
  <2> QED
    BY <2>1, <2>5, <2>6
<1>5. ASSUME NEW c \in Cache, HandleWriteback(c) PROVE Fits(a, f, rq', pq', mshr')
  <2> DEFINE p == Head(wq[c])
  <2>1. /\ wq[c] # <<>>
        /\ \/ UNCHANGED <<rq, pq, mshr, memRQ, pending>>
           \/ p.type = "RFO" /\ ReadlikeMiss(c, p, rq, pq)
    BY <1>5, WritebackCases
  <2>2. p \in Packet /\ WriteFits(a, c, p)
    BY <2>1, QueueShortened, SizesAreFunctions, WritesShortened DEF TypeInv
  <2> HIDE DEF p
  <2>3. p.type = "RFO" => MissFits(a, f, c, p)
    BY <2>2, WriteMisses
  <2>4. CASE p.type = "RFO" /\ ReadlikeMiss(c, p, rq, pq)
    BY <1>1, <2>2, <2>3, <2>4, MissKeepsFits
  <2> QED
    BY <2>1, <2>4
<1>6. ASSUME NEW c \in Cache, HandleFill(c) PROVE Fits(a, f, rq', pq', mshr')
  <2> DEFINE e == Head(mshr[c])
             n == Return(mshr, e)
  <2>1. /\ mshr[c] # <<>> /\ rq' = rq /\ pq' = pq
        /\ mshr' = [n EXCEPT ![c] = Tail(mshr[c])]
    BY <1>6 DEF HandleFill
  <2>2. Fits(a, f, rq, pq, [mshr EXCEPT ![c] = Tail(@)])
    BY <1>1, <2>1, TakeEntryFits DEF Requests
  <2>3. Fits(a, f, rq, pq, n)
    BY <1>2
  <2>4. DOMAIN mshr = Cache /\ DOMAIN n = Cache
    BY <1>1 DEF Requests, Queues, Return
  <2> HIDE DEF n
  <2>5. mshr'[c] = [mshr EXCEPT ![c] = Tail(@)][c] /\ \A d \in Cache : d # c => mshr'[d] = n[d]
    BY <2>1, <2>4
  <2>6. \A i \in 1 .. Len(mshr'[c]) : Rightful(a, f, mshr'[c][i])
    BY <2>2, <2>5 DEF Fits
  <2>7. \A d \in Cache : d # c => \A i \in 1 .. Len(mshr'[d]) : Rightful(a, f, mshr'[d][i])
    BY <2>3, <2>5 DEF Fits
  <2> QED
    BY <2>1, <2>6, <2>7 DEF Fits
<1>7. CASE MemoryRead
  <2>1. PICK p \in memRQ : rq' = rq /\ pq' = pq /\ mshr' = Return(mshr, p)
    BY <1>7 DEF MemoryRead
  <2> QED
    BY <1>2, <2>1
<1>8. ASSUME NEW u \in Client, NEW b \in Addr, Load(u, b) PROVE Fits(a, f, rq', pq', mshr')
  <2> DEFINE c == Below[u]
             p == LoadPacket(u, b)
             l == rq[c]
             n == JoinRQ(c, l, p)
  <2>1. /\ b \in LoadAddr[u] /\ pq' = pq /\ mshr' = mshr
        /\ rq' = rq \/ rq' = [rq EXCEPT ![c] = n]
    BY <1>8 DEF Load, LoadPacket
  <2>2. p \in Packet /\ c \in Cache /\ FillLevel[c] \in Nat /\ u \in Node
    BY NewPacketsType, TopologyAssumption DEF Node
  <2>3. LineOf[b] \in a[u]
    BY <2>1 DEF PrefetchesApart
  <2>4. Sound(c, p) /\ ReadFits(a, f, c, p)
    BY <2>2, <2>3 DEF LoadPacket, Sound, ReadFits, Rightful
  <2>5. DOMAIN rq = Cache /\ l \in Seq(Packet) /\ \A i \in 1 .. Len(l) : ReadFits(a, f, c, l[i])
    BY <1>1, <2>2 DEF Requests, Queues, Fits
  <2> HIDE DEF c, p, l
  <2>6. \A i \in 1 .. Len(n) : ReadFits(a, f, c, n[i])
    BY <2>2, <2>4, <2>5, ReadsJoined
  <2> HIDE DEF n
  <2>7. CASE rq' = [rq EXCEPT ![c] = n]
    <3>1. rq'[c] = n /\ \A d \in Cache : d # c => rq'[d] = rq[d]
      BY <2>2, <2>5, <2>7
    <3> QED
      BY <2>1, <2>6, <3>1 DEF Fits
  <2> QED
    BY <2>1, <2>7
<1>9. ASSUME NEW c \in Cache, NEW b \in Addr, NEW g \in BOOLEAN, PrefetchLine(c, b, g)
      PROVE  Fits(a, f, rq', pq', mshr')
  <2> DEFINE p == PrefetchPacket(c, b, g)
  <2>1. AddPQ(c, p, rq, pq, mshr) /\ (g \/ Below[c] \in Cache) /\ b \in PrefetchAddr[c]
    BY <1>9 DEF PrefetchLine, PrefetchPacket
  <2>2. p \in Packet
    BY <2>1, NewPacketsType
  <2>3. /\ p.addr = b /\ p.type = "PREFETCH" /\ p.to_return = {}
        /\ p.fill = IF g THEN FillLevel[c] ELSE FillLevel[Below[c]]
    BY DEF PrefetchPacket
  <2> HIDE DEF p
  <2>4. LineOf[b] \in f[c]
    BY <2>1 DEF PrefetchesApart
  <2>5. Below[c] # Memory => p.fill <= FillLevel[Below[c]]
    BY <2>3, LowerLevel
  <2>6. PrefetchFits(a, f, c, p)
    BY <2>3, <2>4, <2>5 DEF PrefetchFits, Rightful
  <2> QED
    BY <1>1, <2>1, <2>2, <2>6, AddPQFits
<1>10. CASE UNCHANGED <<rq, pq, mshr>>
  BY <1>10
<1>11. MemoryWrite \/ FinishWarmup \/ (\E u \in Client, b \in Addr : Store(u, b)) \/ UNCHANGED vars
         => UNCHANGED <<rq, pq, mshr>>
  BY DEF MemoryWrite, FinishWarmup, Store, vars
<1> QED
  BY <1>3, <1>4, <1>5, <1>6, <1>7, <1>8, <1>9, <1>10, <1>11 DEF Next, Operate

\* The invariant of the two theorems that follow: what a read asks for fits the
\* configuration, and the ledger owes and pays the same.
DueInv(a, f) == TypeInv /\ Writes(a, wq) /\ LedgerNow /\ FitsNow(a, f) /\ DueNow

LEMMA DueInit ==
    ASSUME NEW a, NEW f, Init
    PROVE  DueInv(a, f)
<1>1. \A c \in Cache : rq[c] = <<>> /\ pq[c] = <<>> /\ mshr[c] = <<>>
  BY DEF Init
<1>2. FitsNow(a, f)
  BY <1>1 DEF FitsNow, Fits
<1> QED
  BY <1>2, InitTypeInv, InitLedger DEF DueInv

LEMMA DueStep ==
    ASSUME NEW a, NEW f, PrefetchesApart(a, f), DueInv(a, f), [Next]_vars
    PROVE  DueInv(a, f)'
<1> USE DEF DueInv
<1>1. StoresAsked(a)
  BY DEF StoresAsked, PrefetchesApart
<1>2. Writes(a, wq)'
  BY <1>1, WritesStep DEF Writes, WriteFits
<1>3. LosslessStep
  BY FitsLossless
<1> QED
  BY <1>2, <1>3, NextTypeInv, LedgerStep, FitsStep

\* Every MSHR that waits is answered by exactly one packet below, however the packets
\* are merged, forwarded and put off: none is lost, and none comes for an entry that
\* does not wait (CACHE::return_data, packet_dep_merge and readlike_miss together).
\* It needs PrefetchesApart: where a read meets another node's prefetch in flight the
\* code drops the answer of that node.
THEOREM CacheMissCarriedOnce ==
    ASSUME NEW asks, NEW prefetches, PrefetchesApart(asks, prefetches)
    PROVE  Spec => []MissCarriedOnce
<1>1. DueInv(asks, prefetches) => MissCarriedOnce
  <2> SUFFICES ASSUME TypeInv, LedgerNow, DueNow, NEW c \in Cache, NEW l \in Line
               PROVE  Cardinality(Carriers(c, l)) = Cardinality(Unreturned(c, l))
    BY DEF MissCarriedOnce, Unreturned, DueInv
  <2>1. At(rq, pq, mshr, memRQ, c, l) <=> Waits(mshr[c], l)
    <3>1. c \in Receiver /\ c \notin Lone
      BY TopologyAssumption DEF Lone, Receiver
    <3> QED
      BY <3>1 DEF LedgerNow, Ledger, Claims, DueNow, Due, Owed
  <2> QED
    BY <2>1, CarriersCount, UnreturnedCount
<1>2. Init => DueInv(asks, prefetches)
  BY DueInit
<1>3. DueInv(asks, prefetches) /\ [Next]_vars => DueInv(asks, prefetches)'
  BY DueStep
<1> QED
  BY <1>1, <1>2, <1>3, PTL DEF Spec

\* The same for the loads of a client that has its first-level cache for itself, as
\* every client of the repository's configurations has: exactly one packet carries
\* each load that is not answered yet through every merge of dependents.
THEOREM CacheLoadCarriedOnce ==
    ASSUME NEW asks, NEW prefetches, PrefetchesApart(asks, prefetches), Lone = Client
    PROVE  Spec => []LoadCarriedOnce
<1>1. DueInv(asks, prefetches) => LoadCarriedOnce
  <2> SUFFICES ASSUME TypeInv, LedgerNow, FitsNow(asks, prefetches), DueNow,
                      NEW u \in Client, NEW k \in Addr
               PROVE  Cardinality(DependentOn(u, k)) = IF k \in pending[u] THEN 1 ELSE 0
    BY DEF LoadCarriedOnce, DueInv
  <2> DEFINE b == Below[u]
             S == DependentOn(u, k)
  <2>1. u \in Lone /\ u \in Receiver /\ u \notin Cache /\ b \in Cache
    BY TopologyAssumption DEF Receiver
  <2>2. \A p : Names(p, u, k) <=> u \in p.to_return /\ k \in p.deps
    BY <2>1 DEF Names
  <2>3. S = {<<"rq", i>>   : i \in {i \in DOMAIN rq[b] :
                                       u \in rq[b][i].to_return /\ k \in rq[b][i].deps}} \cup
            {<<"mshr", i>> : i \in {i \in DOMAIN mshr[b] :
                                       u \in mshr[b][i].to_return /\ k \in mshr[b][i].deps}}
    BY DEF DependentOn
  <2> HIDE DEF S, b
  <2>4. /\ DOMAIN rq[b] = 1 .. Len(rq[b]) /\ DOMAIN pq[b] = 1 .. Len(pq[b])
        /\ DOMAIN mshr[b] = 1 .. Len(mshr[b])
    BY <2>1 DEF TypeInv, Requests, Queues
  <2>5. \A e : e \in S <=>
              \/ \E i \in 1 .. Len(rq[b]) : e = <<"rq", i>> /\ Names(rq[b][i], u, k)
              \/ \E i \in 1 .. Len(mshr[b]) : e = <<"mshr", i>> /\ Names(mshr[b][i], u, k)
    BY <2>2, <2>3, <2>4
  <2>6. Tidy(b, rq[b]) /\ Tidy(b, mshr[b])
    BY <2>1 DEF LedgerNow, Ledger, Lists
  <2>7. /\ \A i, j \in 1 .. Len(rq[b]) :
              Names(rq[b][i], u, k) /\ Names(rq[b][j], u, k) => i = j
        /\ \A i, j \in 1 .. Len(mshr[b]) :
              Names(mshr[b][i], u, k) /\ Names(mshr[b][j], u, k) => i = j
    BY <2>6, UniqueName
  <2>8. ~ (In(rq[b], u, k) /\ In(mshr[b], u, k))
    BY <2>1 DEF LedgerNow, Ledger, Apart
  <2>9. \A d, e \in S : d = e
    BY <2>5, <2>7, <2>8 DEF In
  <2>10. ~ In(pq[b], u, k)
    <3>1. \A i \in 1 .. Len(pq[b]) : u \notin pq[b][i].to_return
      BY <2>1 DEF FitsNow, Fits, PrefetchFits, Rightful
    <3> QED
      BY <2>2, <3>1 DEF In
  <2>11. At(rq, pq, mshr, memRQ, u, k) <=> In(rq[b], u, k) \/ In(mshr[b], u, k)
    BY <2>1, <2>10, AtLevel DEF Here, b
  <2>12. S # {} <=> At(rq, pq, mshr, memRQ, u, k)
    BY <2>5, <2>11 DEF In
  <2>13. At(rq, pq, mshr, memRQ, u, k) <=> k \in pending[u]
    BY <2>1 DEF LedgerNow, Ledger, Claims, DueNow, Due, Owed
  <2> QED
    BY <2>9, <2>12, <2>13, OneOrNone DEF S
<1>2. Init => DueInv(asks, prefetches)
  BY DueInit
<1>3. DueInv(asks, prefetches) /\ [Next]_vars => DueInv(asks, prefetches)'
  BY DueStep
<1> QED
  BY <1>1, <1>2, <1>3, PTL DEF Spec

-----------------------------------------------------------------------------
\* One copy of a line.  Where what is written is asked for along one path only
\* (WritesApart, with asks as the parameter a), the cache that a dirty line comes from
\* is named in every request for it at the level below.

Has(q, k) == \E i \in 1 .. Len(q) : LineOf[q[i].addr] = k

\* A dirty line on its way to this level.
Back(q, k) == \E i \in 1 .. Len(q) : q[i].type = "WRITEBACK" /\ LineOf[q[i].addr] = k

Cached(b, c, k) ==
    \E s \in Sets : \E v \in 1 .. Ways[c] : b[c][s][v] # Invalid /\ LineOf[b[c][s][v].addr] = k

\* A packet at cache c: one for a written line names the cache above that asks for it.
Private(a, c, e) ==
    /\ e.type \in {"RFO", "WRITEBACK"} => LineOf[e.addr] \in WrittenLine
    /\ LineOf[e.addr] \in WrittenLine =>
          /\ e.type # "PREFETCH" /\ LineOf[e.addr] \in a[c]
          /\ \A x \in Cache : Below[x] = c /\ LineOf[e.addr] \in a[x] => x \in e.to_return

\* In RQ, and what misses: cache c keeps an entry for a written line.
PrivateRead(a, c, e) ==
    Private(a, c, e) /\ (LineOf[e.addr] \in WrittenLine => Keeps(c, e))

\* In PQ.
Unwritten(e) == e.type \notin {"RFO", "WRITEBACK"} /\ LineOf[e.addr] \notin WrittenLine

Paths(a, r, q, m) ==
    \A c \in Cache : /\ \A i \in 1 .. Len(r[c]) : PrivateRead(a, c, r[c][i])
                     /\ \A i \in 1 .. Len(q[c]) : Unwritten(q[c][i])
                     /\ \A i \in 1 .. Len(m[c]) : Private(a, c, m[c][i])

\* In WQ: a store, or the dirty line of a cache above.
PrivateWrite(a, c, e) ==
    /\ LineOf[e.addr] \in WrittenLine /\ LineOf[e.addr] \in a[c]
    /\ \/ e.type = "RFO"
       \/ e.type = "WRITEBACK" /\ \E x \in Cache : Below[x] = c /\ LineOf[e.addr] \in a[x]

PrivateWrites(a, w) == \A c \in Cache : \A i \in 1 .. Len(w[c]) : PrivateWrite(a, c, w[c][i])

\* In set s of cache c.
PrivateBlock(a, c, s, e) ==
    e # Invalid => /\ SetFor(c, e.addr) = s
                   /\ e.dirty => LineOf[e.addr] \in WrittenLine /\ LineOf[e.addr] \in a[c]

PrivateBlocks(a, b) ==
    \A c \in Cache, s \in Sets : \A v \in 1 .. Ways[c] : PrivateBlock(a, c, s, b[c][s][v])

OneCopy(b) ==
    \A c \in Cache, s \in Sets : \A v, u \in 1 .. Ways[c] :
        /\ b[c][s][v] # Invalid /\ b[c][s][u] # Invalid
        /\ LineOf[b[c][s][v].addr] = LineOf[b[c][s][u].addr]
        => v = u

\* What is in flight is not cached.
MissesAbsent(m, b) == \A c \in Cache : \A k : Has(m[c], k) => ~ Cached(b, c, k)

\* What is written back is not in flight where it goes.
WritesAlone(w, r, m) ==
    \A c \in Cache : \A k : Back(w[c], k) => ~ Has(r[c], k) /\ ~ Has(m[c], k)

Copies(a, r, q, m, w, b) ==
    /\ Paths(a, r, q, m) /\ PrivateWrites(a, w) /\ PrivateBlocks(a, b)
    /\ OneCopy(b) /\ MissesAbsent(m, b) /\ WritesAlone(w, r, m)

CopiesNow(a) == Copies(a, rq, pq, mshr, wq, block)

CopyInv(a) == TypeInv /\ Writes(a, wq) /\ LedgerNow /\ CopiesNow(a)

LEMMA TailMembers ==
    ASSUME NEW S, NEW q \in Seq(S), q # <<>>
    PROVE  /\ \A j \in 1 .. Len(Tail(q)) : j + 1 \in 1 .. Len(q) /\ Tail(q)[j] = q[j + 1]
           /\ 1 \in 1 .. Len(q) /\ Head(q) = q[1]
<1>1. /\ Len(q) \in Nat /\ Len(q) >= 1 /\ Head(q) = q[1] /\ Len(Tail(q)) = Len(q) - 1
      /\ \A j \in 1 .. Len(q) - 1 : Tail(q)[j] = q[j + 1]
  BY TailFields
<1> QED
  BY <1>1

LEMMA AppendMembers ==
    ASSUME NEW S, NEW q \in Seq(S), NEW e \in S
    PROVE  \A j \in 1 .. Len(Append(q, e)) : \/ j \in 1 .. Len(q) /\ Append(q, e)[j] = q[j]
                                             \/ Append(q, e)[j] = e
<1>1. /\ Len(q) \in Nat /\ Len(Append(q, e)) = Len(q) + 1
      /\ \A j \in 1 .. Len(q) : Append(q, e)[j] = q[j]
      /\ Append(q, e)[Len(q) + 1] = e
  BY AppendFields
<1>2. \A j \in 1 .. Len(q) + 1 : j \in 1 .. Len(q) \/ j = Len(q) + 1
  BY <1>1
<1> QED
  BY <1>1, <1>2

LEMMA TailHas ==
    ASSUME NEW S, NEW q \in Seq(S), q # <<>>
    PROVE  /\ \A k : Has(Tail(q), k) => Has(q, k)
           /\ \A k : Back(Tail(q), k) => Back(q, k)
           /\ Has(q, LineOf[Head(q).addr])
           /\ Head(q).type = "WRITEBACK" => Back(q, LineOf[Head(q).addr])
           /\ Distinct(q) => ~ Has(Tail(q), LineOf[Head(q).addr])
<1> DEFINE n == Tail(q)
           h == Head(q)
<1>1. /\ \A j \in 1 .. Len(n) : j + 1 \in 1 .. Len(q) /\ n[j] = q[j + 1]
      /\ 1 \in 1 .. Len(q) /\ h = q[1]
  BY TailMembers
<1> HIDE DEF n, h
<1>2. \A k : Has(n, k) => Has(q, k)
  BY <1>1 DEF Has
<1>3. \A k : Back(n, k) => Back(q, k)
  BY <1>1 DEF Back
<1>4. Has(q, LineOf[h.addr]) /\ (h.type = "WRITEBACK" => Back(q, LineOf[h.addr]))
  BY <1>1 DEF Has, Back
<1>5. ASSUME Distinct(q), NEW j \in 1 .. Len(n), LineOf[n[j].addr] = LineOf[h.addr] PROVE FALSE
  <2>1. j + 1 = 1
    BY <1>1, <1>5 DEF Distinct
  <2> QED
    BY <2>1
<1> QED
  BY <1>2, <1>3, <1>4, <1>5 DEF Has, n, h

LEMMA AppendHas ==
    ASSUME NEW S, NEW q \in Seq(S), NEW e \in S
    PROVE  /\ \A k : Has(Append(q, e), k) => Has(q, k) \/ k = LineOf[e.addr]
           /\ \A k : Back(Append(q, e), k)
                        => Back(q, k) \/ (e.type = "WRITEBACK" /\ k = LineOf[e.addr])
<1> DEFINE n == Append(q, e)
<1>1. \A j \in 1 .. Len(n) : (j \in 1 .. Len(q) /\ n[j] = q[j]) \/ n[j] = e
  BY AppendMembers
<1> HIDE DEF n
<1>2. \A k : Has(n, k) => Has(q, k) \/ k = LineOf[e.addr]
  BY <1>1 DEF Has
<1>3. \A k : Back(n, k) => Back(q, k) \/ (e.type = "WRITEBACK" /\ k = LineOf[e.addr])
  BY <1>1 DEF Back
<1> QED
  BY <1>2, <1>3 DEF n

\* A replaced member whose line stays adds no line.
LEMMA ReplacedHas ==
    ASSUME NEW S, NEW q \in Seq(S), NEW i \in 1 .. Len(q), NEW e \in S,
           LineOf[e.addr] = LineOf[q[i].addr]
    PROVE  \A k : Has(ReplaceAt(q, i, e), k) => Has(q, k)
<1> DEFINE n == ReplaceAt(q, i, e)
<1>1. Len(n) = Len(q) /\ \A j \in 1 .. Len(q) : n[j] = IF j = i THEN e ELSE q[j]
  BY ReplaceAtFields
<1> HIDE DEF n
<1>2. ASSUME NEW k, Has(n, k) PROVE Has(q, k)
  <2>1. PICK j \in 1 .. Len(q) : LineOf[n[j].addr] = k
    BY <1>1, <1>2 DEF Has
  <2>2. LineOf[q[j].addr] = k
    BY <1>1, <2>1
  <2> QED
    BY <2>2 DEF Has
<1> QED
  BY <1>2 DEF n

\* More names do no harm.
LEMMA PrivateSame ==
    ASSUME NEW a, NEW c, NEW e, NEW n, Private(a, c, e), n.addr = e.addr, n.type = e.type,
           e.to_return \subseteq n.to_return
    PROVE  Private(a, c, n)
BY DEF Private

LEMMA PrivateReadsJoined ==
    ASSUME NEW a, NEW c \in Cache, NEW q \in Seq(Packet), NEW p \in Packet,
           \A i \in 1 .. Len(q) : PrivateRead(a, c, q[i]), PrivateRead(a, c, p)
    PROVE  /\ \A i \in 1 .. Len(JoinRQ(c, q, p)) : PrivateRead(a, c, JoinRQ(c, q, p)[i])
           /\ \A k : Has(JoinRQ(c, q, p), k) => Has(q, k) \/ k = LineOf[p.addr]
<1> DEFINE i == Find(q, p.addr)
           e == Merge(q[i], p)
<1>1. CASE i # 0
  <2>1. i \in 1 .. Len(q) /\ q[i] \in Packet
    BY <1>1, FindFields, ElementOfSeq
  <2>2. /\ e \in Packet /\ e.addr = q[i].addr /\ e.type = q[i].type /\ e.fill = q[i].fill
        /\ q[i].to_return \subseteq e.to_return
    BY <2>1, MergedPacket
  <2>3. JoinRQ(c, q, p) = ReplaceAt(q, i, e)
    BY <1>1 DEF JoinRQ
  <2> HIDE DEF e, i
  <2>4. PrivateRead(a, c, q[i])
    BY <2>1
  <2>5. PrivateRead(a, c, e)
    BY <2>2, <2>4, PrivateSame DEF PrivateRead, Keeps
  <2>6. /\ Len(ReplaceAt(q, i, e)) = Len(q)
        /\ \A j \in 1 .. Len(q) : ReplaceAt(q, i, e)[j] = IF j = i THEN e ELSE q[j]
    BY <2>2, ReplaceAtFields
  <2>7. \A k : Has(ReplaceAt(q, i, e), k) => Has(q, k)
    BY <2>1, <2>2, ReplacedHas
  <2> QED
    BY <2>3, <2>5, <2>6, <2>7
<1>2. CASE i = 0 /\ Len(q) < RQ_SIZE[c]
  <2>1. JoinRQ(c, q, p) = Append(q, p)
    BY <1>2 DEF JoinRQ
  <2>2. \A j \in 1 .. Len(Append(q, p)) : \/ j \in 1 .. Len(q) /\ Append(q, p)[j] = q[j]
                                          \/ Append(q, p)[j] = p
    BY AppendMembers
  <2>3. \A k : Has(Append(q, p), k) => Has(q, k) \/ k = LineOf[p.addr]
    BY AppendHas
  <2> QED
    BY <2>1, <2>2, <2>3
<1>3. CASE i = 0 /\ ~ Len(q) < RQ_SIZE[c]
  BY <1>3 DEF JoinRQ
<1> QED
  BY <1>1, <1>2, <1>3

LEMMA UnwrittenJoined ==
    ASSUME NEW c \in Cache, NEW q \in Seq(Packet), NEW p \in Packet,
           \A i \in 1 .. Len(q) : Unwritten(q[i]), Unwritten(p)
    PROVE  \A i \in 1 .. Len(JoinPQ(c, q, p)) : Unwritten(JoinPQ(c, q, p)[i])
<1> DEFINE i == Find(q, p.addr)
           g == Merge(q[i], p)
           e == [g EXCEPT !.fill = Lower(@, p.fill)]
<1>1. CASE i # 0
  <2>1. i \in 1 .. Len(q) /\ q[i] \in Packet
    BY <1>1, FindFields, ElementOfSeq
  <2>2. g \in Packet /\ g.addr = q[i].addr /\ g.type = q[i].type
    BY <2>1, MergedPacket
  <2>3. JoinPQ(c, q, p) = ReplaceAt(q, i, e)
    BY <1>1 DEF JoinPQ
  <2> HIDE DEF g
  <2>4. p.fill \in Nat
    BY DEF Packet
  <2>5. e \in Packet /\ e.addr = g.addr /\ e.type = g.type
    BY <2>2, <2>4, LoweredFields
  <2> HIDE DEF e, i
  <2>6. Unwritten(e)
    BY <2>1, <2>2, <2>5 DEF Unwritten
  <2>7. /\ Len(ReplaceAt(q, i, e)) = Len(q)
        /\ \A j \in 1 .. Len(q) : ReplaceAt(q, i, e)[j] = IF j = i THEN e ELSE q[j]
    BY <2>5, ReplaceAtFields
  <2> QED
    BY <2>3, <2>6, <2>7
<1>2. CASE i = 0 /\ Len(q) < PQ_SIZE[c]
  <2>1. JoinPQ(c, q, p) = Append(q, p)
    BY <1>2 DEF JoinPQ
  <2>2. \A j \in 1 .. Len(Append(q, p)) : \/ j \in 1 .. Len(q) /\ Append(q, p)[j] = q[j]
                                          \/ Append(q, p)[j] = p
    BY AppendMembers
  <2> QED
    BY <2>1, <2>2
<1>3. CASE i = 0 /\ ~ Len(q) < PQ_SIZE[c]
  BY <1>3 DEF JoinPQ
<1> QED
  BY <1>1, <1>2, <1>3

LEMMA PrivateCombined ==
    ASSUME NEW a, NEW c, NEW l \in Seq(MshrEntry), \A i \in 1 .. Len(l) : Private(a, c, l[i]),
           NEW p \in Packet, Private(a, c, p), Find(l, p.addr) # 0
    PROVE  LET i == Find(l, p.addr)
               n == ReplaceAt(l, i, Combine(l[i], p))
           IN  /\ \A j \in 1 .. Len(n) : Private(a, c, n[j])
               /\ \A k : Has(n, k) => Has(l, k)
<1> DEFINE i == Find(l, p.addr)
           e == Combine(l[i], p)
           n == ReplaceAt(l, i, e)
<1>1. i \in 1 .. Len(l) /\ LineOf[l[i].addr] = LineOf[p.addr] /\ l[i] \in MshrEntry
  BY FindFields, ElementOfSeq DEF SameLine
<1> HIDE DEF i
<1>2. e \in MshrEntry
  BY <1>1, CombinedFields
<1>3. Private(a, c, e) /\ LineOf[e.addr] = LineOf[l[i].addr]
  <2>1. CASE Replaces(p, l[i])
    <3>1. e.addr = p.addr /\ e.type = p.type /\ e.to_return = p.to_return
      BY <1>1, <2>1, CombinedFields
    <3> HIDE DEF e
    <3> QED
      BY <1>1, <3>1, PrivateSame
  <2>2. CASE ~ Replaces(p, l[i])
    <3>1. /\ e.addr = l[i].addr /\ e.type = l[i].type
          /\ e.to_return = l[i].to_return \cup p.to_return
      BY <1>1, <2>2, CombinedFields
    <3> HIDE DEF e
    <3>2. Private(a, c, l[i])
      BY <1>1
    <3> QED
      BY <3>1, <3>2, PrivateSame
  <2> QED
    BY <2>1, <2>2
<1> HIDE DEF e
<1>4. Len(n) = Len(l) /\ \A j \in 1 .. Len(l) : n[j] = IF j = i THEN e ELSE l[j]
  BY <1>2, ReplaceAtFields
<1>5. \A k : Has(n, k) => Has(l, k)
  BY <1>1, <1>2, <1>3, ReplacedHas
<1> HIDE DEF n
<1>6. \A j \in 1 .. Len(n) : Private(a, c, n[j])
  BY <1>3, <1>4
<1> QED
  BY <1>5, <1>6 DEF n, e, i

LEMMA PrivateMarked ==
    ASSUME NEW a, NEW c, NEW l \in Seq(MshrEntry), NEW d,
           \A i \in 1 .. Len(l) : Private(a, c, l[i])
    PROVE  /\ \A j \in 1 .. Len(MarkReturned(l, d)) : Private(a, c, MarkReturned(l, d)[j])
           /\ \A k : Has(MarkReturned(l, d), k) => Has(l, k)
<1> DEFINE n == MarkReturned(l, d)
<1>1. \A j \in 1 .. Len(n) : \E i \in 1 .. Len(l) :
          n[j].addr = l[i].addr /\ n[j].type = l[i].type /\ n[j].to_return = l[i].to_return
  BY MarkedEntries
<1> HIDE DEF n
<1>2. ASSUME NEW j \in 1 .. Len(n) PROVE Private(a, c, n[j])
  <2>1. PICK i \in 1 .. Len(l) :
          n[j].addr = l[i].addr /\ n[j].type = l[i].type /\ n[j].to_return = l[i].to_return
    BY <1>1
  <2> QED
    BY <2>1, PrivateSame
<1>3. \A k : Has(n, k) => Has(l, k)
  BY <1>1 DEF Has
<1> QED
  BY <1>2, <1>3 DEF n

LEMMA ReturnPaths ==
    ASSUME NEW a, NEW r, NEW q, NEW m, Queues(m, MSHR_SIZE, MshrEntry),
           Paths(a, r, q, m), NEW p
    PROVE  /\ Paths(a, r, q, Return(m, p))
           /\ \A d \in Cache : \A k : Has(Return(m, p)[d], k) => Has(m[d], k)
<1> DEFINE n == Return(m, p)
<1>1. \A d \in Cache : n[d] = IF d \in p.to_return THEN MarkReturned(m[d], p.addr) ELSE m[d]
  BY DEF Return
<1> HIDE DEF n
<1>2. ASSUME NEW d \in Cache
      PROVE  /\ \A j \in 1 .. Len(n[d]) : Private(a, d, n[d][j])
             /\ \A k : Has(n[d], k) => Has(m[d], k)
  <2> DEFINE l == m[d]
  <2>1. l \in Seq(MshrEntry) /\ \A i \in 1 .. Len(l) : Private(a, d, l[i])
    BY DEF Queues, Paths
  <2>2. n[d] = MarkReturned(l, p.addr) \/ n[d] = l
    BY <1>1
  <2> HIDE DEF l
  <2>3. /\ \A j \in 1 .. Len(MarkReturned(l, p.addr)) : Private(a, d, MarkReturned(l, p.addr)[j])
        /\ \A k : Has(MarkReturned(l, p.addr), k) => Has(l, k)
    BY <2>1, PrivateMarked
  <2>4. CASE n[d] = MarkReturned(l, p.addr)
    BY <2>3, <2>4 DEF l
  <2>5. CASE n[d] = l
    BY <2>1, <2>5 DEF l
  <2> QED
    BY <2>2, <2>4, <2>5
<1> QED
  BY <1>2 DEF Paths, n

\* A cache that dirty lines come to from above compares lines, so what enters its RQ
\* is not waiting in its WQ to be written back.
LEMMA NotInWQ ==
    ASSUME NEW a, Queues(wq, WQ_SIZE, Packet), PrivateWrites(a, wq), NEW c \in Cache, NEW d,
           ~ InWQ(c, d)
    PROVE  ~ Back(wq[c], LineOf[d])
<1> SUFFICES ASSUME Back(wq[c], LineOf[d]) PROVE FALSE
  OBVIOUS
<1>1. PICK i \in 1 .. Len(wq[c]) : wq[c][i].type = "WRITEBACK" /\ LineOf[wq[c][i].addr] = LineOf[d]
  BY DEF Back
<1>2. \E x \in Cache : Below[x] = c
  BY <1>1 DEF PrivateWrites, PrivateWrite
<1>3. c \notin MatchOffset
  BY <1>2, TopologyAssumption
<1>4. DOMAIN wq[c] = 1 .. Len(wq[c])
  BY DEF Queues
<1> QED
  BY <1>1, <1>3, <1>4 DEF InWQ, SameLine

LEMMA AddRQPrivate ==
    ASSUME NEW a, Queues(wq, WQ_SIZE, Packet), PrivateWrites(a, wq), NEW c \in Cache,
           NEW p \in Packet, NEW r, NEW q, NEW m, Requests(r, q, m, memRQ, pending),
           Paths(a, r, q, m), PrivateRead(a, c, p), AddRQ(c, p, r, q, m)
    PROVE  /\ Paths(a, rq', pq', mshr')
           /\ \A d \in Cache : \A k : Has(rq'[d], k) => Has(r[d], k) \/ ~ Back(wq[d], k)
           /\ \A d \in Cache : \A k : Has(mshr'[d], k) => Has(m[d], k)
<1>1. CASE InWQ(c, p.addr)
  <2>1. rq' = r /\ pq' = q /\ mshr' = Return(m, p)
    BY <1>1 DEF AddRQ, Forward
  <2> QED
    BY <2>1, ReturnPaths DEF Requests
<1>2. CASE ~ InWQ(c, p.addr)
  <2> DEFINE l == r[c]
             n == [r EXCEPT ![c] = JoinRQ(c, @, p)]
  <2>1. rq' = n /\ pq' = q /\ mshr' = m
    BY <1>2 DEF AddRQ
  <2>2. /\ l \in Seq(Packet) /\ \A i \in 1 .. Len(l) : PrivateRead(a, c, l[i])
        /\ n[c] = JoinRQ(c, l, p) /\ \A d \in Cache : d # c => n[d] = r[d]
    BY DEF Requests, Queues, Paths
  <2>3. ~ Back(wq[c], LineOf[p.addr])
    BY <1>2, NotInWQ
  <2> HIDE DEF l, n
  <2>4. /\ \A i \in 1 .. Len(n[c]) : PrivateRead(a, c, n[c][i])
        /\ \A k : Has(n[c], k) => Has(l, k) \/ k = LineOf[p.addr]
    <3>1. /\ \A i \in 1 .. Len(JoinRQ(c, l, p)) : PrivateRead(a, c, JoinRQ(c, l, p)[i])
          /\ \A k : Has(JoinRQ(c, l, p), k) => Has(l, k) \/ k = LineOf[p.addr]
      <4>1. l \in Seq(Packet)
        BY <2>2
      <4>2. \A i \in 1 .. Len(l) : PrivateRead(a, c, l[i])
        BY <2>2
      <4> QED
        BY <4>1, <4>2, PrivateReadsJoined, ZenonT(60)
    <3> QED
      BY <2>2, <3>1
  <2>5. Paths(a, n, q, m)
    BY <2>2, <2>4 DEF Paths
  <2>6. \A d \in Cache : \A k : Has(n[d], k) => Has(r[d], k) \/ ~ Back(wq[d], k)
    BY <2>2, <2>3, <2>4 DEF l
  <2> QED
    BY <2>1, <2>5, <2>6
<1> QED
  BY <1>1, <1>2

LEMMA AddPQPrivate ==
    ASSUME NEW a, NEW c \in Cache, NEW p \in Packet, NEW r, NEW q, NEW m,
           Requests(r, q, m, memRQ, pending), Paths(a, r, q, m), Unwritten(p),
           AddPQ(c, p, r, q, m)
    PROVE  /\ Paths(a, rq', pq', mshr')
           /\ rq' = r
           /\ \A d \in Cache : \A k : Has(mshr'[d], k) => Has(m[d], k)
<1>1. CASE InWQ(c, p.addr)
  <2>1. rq' = r /\ pq' = q /\ mshr' = Return(m, p)
    BY <1>1 DEF AddPQ, Forward
  <2> QED
    BY <2>1, ReturnPaths DEF Requests
<1>2. CASE ~ InWQ(c, p.addr)
  <2> DEFINE l == q[c]
             n == [q EXCEPT ![c] = JoinPQ(c, @, p)]
  <2>1. rq' = r /\ pq' = n /\ mshr' = m
    BY <1>2 DEF AddPQ
  <2>2. /\ l \in Seq(Packet) /\ \A i \in 1 .. Len(l) : Unwritten(l[i])
        /\ n[c] = JoinPQ(c, l, p) /\ \A d \in Cache : d # c => n[d] = q[d]
    BY DEF Requests, Queues, Paths
  <2> HIDE DEF l, n
  <2>3. \A i \in 1 .. Len(n[c]) : Unwritten(n[c][i])
    BY <2>2, UnwrittenJoined
  <2>4. Paths(a, r, n, m)
    BY <2>2, <2>3 DEF Paths
  <2> QED
    BY <2>1, <2>4
<1> QED
  BY <1>1, <1>2

\* The request that a cache sends down for a written line names it, and no other cache
\* over the same one asks for that line.
LEMMA AskedPrivate ==
    ASSUME NEW a, WritesApart(a), NEW c \in Cache, NEW p \in Packet, PrivateRead(a, c, p),
           Below[c] # Memory
    PROVE  /\ PrivateRead(a, Below[c], AskedOf(c, p))
           /\ p.type = "PREFETCH" => Unwritten(AskedOf(c, p))
<1> DEFINE o == AskedOf(c, p)
           b == Below[c]
           k == LineOf[p.addr]
<1>1. /\ o.addr = p.addr /\ o.type = p.type /\ o.fill = p.fill
      /\ o.to_return = IF Keeps(c, p) THEN {c} ELSE {}
  BY AskedFields
<1>2. /\ b \in Cache /\ FillLevel[c] < FillLevel[b] /\ FillLevel[c] \in Nat /\ FillLevel[b] \in Nat
      /\ p.fill \in Nat
  BY LowerLevel DEF Packet
<1> HIDE DEF o
<1>3. ASSUME k \in WrittenLine
      PROVE  /\ o.type # "PREFETCH" /\ k \in a[b] /\ Keeps(b, o)
             /\ \A x \in Cache : Below[x] = b /\ k \in a[x] => x \in o.to_return
  <2>1. o.type # "PREFETCH" /\ k \in a[c] /\ Keeps(c, p)
    BY <1>1, <1>3 DEF PrivateRead, Private
  <2>2. k \in a[b]
    BY <1>2, <2>1 DEF WritesApart, Node
  <2>3. Keeps(b, o)
    BY <1>1, <1>2, <2>1 DEF Keeps
  <2>4. \A x \in Cache : Below[x] = b /\ k \in a[x] => x = c
    BY <1>2, <1>3, <2>1 DEF WritesApart, Node
  <2> QED
    BY <1>1, <2>1, <2>2, <2>3, <2>4
<1>4. p.type \in {"RFO", "WRITEBACK"} => k \in WrittenLine
  BY DEF PrivateRead, Private
<1>5. p.type = "PREFETCH" => k \notin WrittenLine
  BY DEF PrivateRead, Private
<1>6. PrivateRead(a, b, o)
  BY <1>1, <1>3, <1>4 DEF PrivateRead, Private
<1>7. p.type = "PREFETCH" => Unwritten(o)
  BY <1>1, <1>5 DEF Unwritten
<1> QED
  BY <1>6, <1>7 DEF o

LEMMA ReservedPrivate ==
    ASSUME NEW a, NEW r, NEW q, Queues(mshr, MSHR_SIZE, MshrEntry),
           Paths(a, r, q, mshr), NEW c \in Cache, NEW p \in Packet, Private(a, c, p)
    PROVE  /\ Paths(a, r, q, Reserved(c, p))
           /\ \A d \in Cache : \A k : Has(Reserved(c, p)[d], k)
                                  => Has(mshr[d], k) \/ (d = c /\ k = LineOf[p.addr])
<1> DEFINE n == Reserved(c, p)
           e == Entry(p)
           l == mshr[c]
<1>1. CASE Keeps(c, p)
  <2>1. e \in MshrEntry /\ e.addr = p.addr /\ e.type = p.type /\ e.to_return = p.to_return
    BY EntryFields
  <2>2. l \in Seq(MshrEntry) /\ \A i \in 1 .. Len(l) : Private(a, c, l[i])
    BY DEF Queues, Paths
  <2> HIDE DEF e
  <2>3. n[c] = Append(l, e) /\ \A d \in Cache : d # c => n[d] = mshr[d]
    BY <1>1 DEF Reserved, Queues, e
  <2> HIDE DEF n, l
  <2>4. Private(a, c, e)
    BY <2>1, PrivateSame
  <2>5. \A j \in 1 .. Len(n[c]) : (j \in 1 .. Len(l) /\ n[c][j] = l[j]) \/ n[c][j] = e
    BY <2>1, <2>2, <2>3, AppendMembers
  <2>6. \A j \in 1 .. Len(n[c]) : Private(a, c, n[c][j])
    BY <2>2, <2>4, <2>5
  <2>7. \A k : Has(n[c], k) => Has(l, k) \/ k = LineOf[e.addr]
    BY <2>1, <2>2, <2>3, AppendHas
  <2>8. Paths(a, r, q, n)
    BY <2>3, <2>6 DEF Paths
  <2>9. \A d \in Cache : \A k : Has(n[d], k) => Has(mshr[d], k) \/ (d = c /\ k = LineOf[p.addr])
    BY <2>1, <2>3, <2>7 DEF l
  <2> QED
    BY <2>8, <2>9 DEF n
<1>2. CASE ~ Keeps(c, p)
  BY <1>2 DEF Reserved
<1> QED
  BY <1>1, <1>2

\* A miss: the entry of the line in flight, and a request below for no line that waits
\* to be written back there.
LEMMA MissPrivate ==
    ASSUME NEW a, WritesApart(a), Queues(wq, WQ_SIZE, Packet), PrivateWrites(a, wq),
           NEW c \in Cache, NEW p \in Packet, NEW r, NEW q,
           Requests(r, q, mshr, memRQ, pending), Paths(a, r, q, mshr),
           PrivateRead(a, c, p), ReadlikeMiss(c, p, r, q)
    PROVE  /\ Paths(a, rq', pq', mshr')
           /\ \A d \in Cache : \A k : Has(rq'[d], k) => Has(r[d], k) \/ ~ Back(wq[d], k)
           /\ \A d \in Cache : \A k : Has(mshr'[d], k)
                                  => Has(mshr[d], k) \/ (d = c /\ k = LineOf[p.addr])
<1>0. Private(a, c, p)
  BY DEF PrivateRead
<1>1. CASE JoinMSHR(c, p, r, q)
  <2> DEFINE l == mshr[c]
             i == Find(l, p.addr)
             n == ReplaceAt(l, i, Combine(l[i], p))
             m == [mshr EXCEPT ![c] = n]
  <2>1. i # 0 /\ rq' = r /\ pq' = q /\ mshr' = m
    BY <1>1 DEF JoinMSHR
  <2>2. l \in Seq(MshrEntry) /\ \A j \in 1 .. Len(l) : Private(a, c, l[j])
    BY DEF Requests, Queues, Paths
  <2>3. DOMAIN mshr = Cache
    BY DEF Requests, Queues
  <2> HIDE DEF l
  <2>4. (\A j \in 1 .. Len(n) : Private(a, c, n[j])) /\ \A k : Has(n, k) => Has(l, k)
    BY <1>0, <2>1, <2>2, PrivateCombined
  <2> HIDE DEF n, i
  <2>5. m[c] = n /\ \A d \in Cache : d # c => m[d] = mshr[d]
    BY <2>3
  <2> HIDE DEF m
  <2>6. Paths(a, r, q, m)
    BY <2>4, <2>5 DEF Paths
  <2>7. \A d \in Cache : \A k : Has(m[d], k) => Has(mshr[d], k)
    BY <2>4, <2>5 DEF l
  <2> QED
    BY <2>1, <2>6, <2>7
<1>2. CASE AskBelow(c, p, r, q)
  <2> DEFINE n == Reserved(c, p)
             o == AskedOf(c, p)
             b == Below[c]
  <2>1. Len(mshr[c]) # MSHR_SIZE[c]
    BY <1>2, AskBelowCases
  <2>2. o \in Packet
    BY AskedFields
  <2>3. Requests(r, q, n, memRQ, pending)
    BY <2>1, ReservedType
  <2>4. /\ Paths(a, r, q, n)
        /\ \A d \in Cache : \A k : Has(n[d], k) => Has(mshr[d], k) \/ (d = c /\ k = LineOf[p.addr])
    BY <1>0, ReservedPrivate DEF Requests
  <2>5. b # Memory => /\ b \in Cache /\ PrivateRead(a, b, o)
                      /\ p.type = "PREFETCH" => Unwritten(o)
    BY AskedPrivate, LevelsDiffer
  <2>6. \/ b = Memory /\ MemoryAdd(o, r, q, n)
        \/ b # Memory /\ AddRQ(b, o, r, q, n)
        \/ b # Memory /\ p.type = "PREFETCH" /\ AddPQ(b, o, r, q, n)
    BY <1>2, AskBelowCases
  <2> HIDE DEF n, o, b
  <2>7. CASE b = Memory /\ MemoryAdd(o, r, q, n)
    <3>1. rq' = r /\ pq' = q /\ (mshr' = n \/ mshr' = Return(n, o))
      BY <2>7 DEF MemoryAdd, Forward
    <3>2. /\ Paths(a, r, q, Return(n, o))
          /\ \A d \in Cache : \A k : Has(Return(n, o)[d], k) => Has(n[d], k)
      BY <2>3, <2>4, ReturnPaths DEF Requests
    <3> QED
      BY <2>4, <3>1, <3>2
  <2>8. CASE b # Memory /\ AddRQ(b, o, r, q, n)
    <3>1. /\ Paths(a, rq', pq', mshr')
          /\ \A d \in Cache : \A k : Has(rq'[d], k) => Has(r[d], k) \/ ~ Back(wq[d], k)
          /\ \A d \in Cache : \A k : Has(mshr'[d], k) => Has(n[d], k)
      BY <2>2, <2>3, <2>4, <2>5, <2>8, AddRQPrivate
    <3> QED
      BY <2>4, <3>1
  <2>9. CASE b # Memory /\ p.type = "PREFETCH" /\ AddPQ(b, o, r, q, n)
    <3>1. /\ Paths(a, rq', pq', mshr') /\ rq' = r
          /\ \A d \in Cache : \A k : Has(mshr'[d], k) => Has(n[d], k)
      BY <2>2, <2>3, <2>4, <2>5, <2>9, AddPQPrivate
    <3> QED
      BY <2>4, <3>1
  <2> QED
    BY <2>6, <2>7, <2>8, <2>9
<1> QED
  BY <1>1, <1>2 DEF ReadlikeMiss

\* Where a dirty line is, nothing for it is in flight below: that would name the cache,
\* whose MSHR would wait for the line and so not hold it.
LEMMA NothingBelow ==
    ASSUME NEW a, LedgerNow, Paths(a, rq, pq, mshr), MissesAbsent(mshr, block),
           NEW c \in Cache, Below[c] \in Cache, NEW k \in WrittenLine, k \in a[c],
           Cached(block, c, k)
    PROVE  ~ Has(rq[Below[c]], k) /\ ~ Has(mshr[Below[c]], k)
<1> DEFINE b == Below[c]
<1>1. ~ Has(mshr[c], k)
  BY DEF MissesAbsent
<1>2. ~ At(rq, pq, mshr, memRQ, c, k)
  <2>1. c \in Receiver /\ c \notin Lone
    BY TopologyAssumption DEF Receiver, Lone
  <2>2. ~ Waits(mshr[c], k)
    BY <1>1 DEF Waits, Has
  <2> QED
    BY <2>1, <2>2 DEF LedgerNow, Ledger, Claims, Owed
<1>3. ~ In(rq[b], c, k) /\ ~ In(mshr[b], c, k)
  BY <1>2, AtLevel DEF Here
<1>4. ASSUME NEW i \in 1 .. Len(rq[b]), LineOf[rq[b][i].addr] = k PROVE FALSE
  <2>1. c \in rq[b][i].to_return
    BY <1>4 DEF Paths, PrivateRead, Private
  <2> QED
    BY <1>3, <1>4, <2>1 DEF In, Names
<1>5. ASSUME NEW i \in 1 .. Len(mshr[b]), LineOf[mshr[b][i].addr] = k PROVE FALSE
  <2>1. c \in mshr[b][i].to_return
    BY <1>5 DEF Paths, Private
  <2> QED
    BY <1>3, <1>5, <2>1 DEF In, Names
<1> QED
  BY <1>4, <1>5 DEF Has

\* From w to n only the list of cache b changes, to q; from block to n only a way does.
OnlyList(w, n, b, q) == n[b] = q /\ \A d \in Cache : d # b => n[d] = w[d]

OnlyWay(n, c, s, v, e) ==
    /\ n[c][s][v] = e
    /\ \A x \in Cache, t \in Sets : \A u \in 1 .. Ways[x] :
          ~ (x = c /\ t = s /\ u = v) => n[x][t][u] = block[x][t][u]

LEMMA PrivateWritesExtended ==
    ASSUME NEW a, NEW w, Queues(w, WQ_SIZE, Packet), PrivateWrites(a, w), NEW b \in Cache,
           NEW p \in Packet, PrivateWrite(a, b, p), NEW n, OnlyList(w, n, b, Append(w[b], p))
    PROVE  /\ PrivateWrites(a, n)
           /\ \A d \in Cache : \A k : Back(n[d], k)
                 => \/ Back(w[d], k)
                    \/ d = b /\ p.type = "WRITEBACK" /\ k = LineOf[p.addr]
<1> DEFINE l == w[b]
<1>1. /\ l \in Seq(Packet) /\ \A i \in 1 .. Len(l) : PrivateWrite(a, b, l[i])
      /\ n[b] = Append(l, p) /\ \A d \in Cache : d # b => n[d] = w[d]
  BY DEF Queues, PrivateWrites, OnlyList
<1> HIDE DEF l
<1>2. \A j \in 1 .. Len(n[b]) : (j \in 1 .. Len(l) /\ n[b][j] = l[j]) \/ n[b][j] = p
  BY <1>1, AppendMembers
<1>3. \A k : Back(n[b], k) => Back(l, k) \/ (p.type = "WRITEBACK" /\ k = LineOf[p.addr])
  BY <1>1, AppendHas
<1>4. PrivateWrites(a, n)
  BY <1>1, <1>2 DEF PrivateWrites
<1>5. \A d \in Cache : \A k : Back(n[d], k)
          => Back(w[d], k) \/ (d = b /\ p.type = "WRITEBACK" /\ k = LineOf[p.addr])
  BY <1>1, <1>3 DEF l
<1> QED
  BY <1>4, <1>5

LEMMA PrivateWritesShortened ==
    ASSUME NEW a, Queues(wq, WQ_SIZE, Packet), PrivateWrites(a, wq), NEW c \in Cache,
           wq[c] # <<>>, NEW n, OnlyList(wq, n, c, Tail(wq[c]))
    PROVE  /\ PrivateWrites(a, n) /\ PrivateWrite(a, c, Head(wq[c]))
           /\ \A d \in Cache : \A k : Back(n[d], k) => Back(wq[d], k)
           /\ Head(wq[c]).type = "WRITEBACK" => Back(wq[c], LineOf[Head(wq[c]).addr])
<1> DEFINE l == wq[c]
<1>1. /\ l \in Seq(Packet) /\ l # <<>> /\ \A i \in 1 .. Len(l) : PrivateWrite(a, c, l[i])
      /\ n[c] = Tail(l) /\ \A d \in Cache : d # c => n[d] = wq[d]
  BY DEF Queues, PrivateWrites, OnlyList
<1> HIDE DEF l
<1>2. /\ \A j \in 1 .. Len(Tail(l)) : j + 1 \in 1 .. Len(l) /\ Tail(l)[j] = l[j + 1]
      /\ 1 \in 1 .. Len(l) /\ Head(l) = l[1]
  BY <1>1, TailMembers
<1>3. /\ \A k : Back(Tail(l), k) => Back(l, k)
      /\ Head(l).type = "WRITEBACK" => Back(l, LineOf[Head(l).addr])
  BY <1>1, TailHas
<1>4. PrivateWrites(a, n) /\ PrivateWrite(a, c, Head(l))
  <2>1. PrivateWrite(a, c, Head(l))
    BY <1>1, <1>2
  <2>2. \A j \in 1 .. Len(n[c]) : PrivateWrite(a, c, n[c][j])
    BY <1>1, <1>2
  <2> QED
    BY <1>1, <2>1, <2>2 DEF PrivateWrites
<1>5. \A d \in Cache : \A k : Back(n[d], k) => Back(wq[d], k)
  BY <1>1, <1>3 DEF l
<1> QED
  BY <1>3, <1>4, <1>5 DEF l

LEMMA WriteBelowPrivate ==
    ASSUME NEW a, WritesApart(a), NEW c \in Cache, NEW d \in Addr, NEW w,
           Queues(w, WQ_SIZE, Packet), PrivateWrites(a, w), LineOf[d] \in WrittenLine,
           LineOf[d] \in a[c], WriteBelow(c, d, w)
    PROVE  /\ PrivateWrites(a, wq')
           /\ \A x \in Cache : \A k :
                 Back(wq'[x], k) => Back(w[x], k) \/ (x = Below[c] /\ k = LineOf[d])
<1> DEFINE b == Below[c]
           p == [addr |-> d, type |-> "WRITEBACK", fill |-> FillLevel[b],
                 to_return |-> {}, deps |-> {}]
           n == [w EXCEPT ![b] = Append(@, p)]
<1>1. wq' = w \/ (b # Memory /\ wq' = n)
  BY DEF WriteBelow
<1>2. CASE wq' = w
  BY <1>2
<1>3. CASE b # Memory /\ wq' = n
  <2>1. b \in Cache /\ LineOf[d] \in a[b]
    BY <1>3, LevelsDiffer DEF WritesApart, Node
  <2>2. p \in Packet /\ p.addr = d /\ p.type = "WRITEBACK"
    BY <2>1, TopologyAssumption DEF Packet, Type
  <2> HIDE DEF p
  <2>3. PrivateWrite(a, b, p)
    BY <2>1, <2>2 DEF PrivateWrite
  <2>4. /\ PrivateWrites(a, n)
        /\ \A x \in Cache : \A k : Back(n[x], k)
              => Back(w[x], k) \/ (x = b /\ p.type = "WRITEBACK" /\ k = LineOf[p.addr])
    <3>1. b \in Cache /\ p \in Packet /\ PrivateWrite(a, b, p)
      BY <2>1, <2>2, <2>3
    <3>2. OnlyList(w, n, b, Append(w[b], p))
      BY <3>1 DEF OnlyList, Queues
    <3> HIDE DEF b, n
    <3> QED
      BY <3>1, <3>2, PrivateWritesExtended
  <2> HIDE DEF n
  <2> QED
    BY <1>3, <2>2, <2>4
<1> QED
  BY <1>1, <1>2, <1>3

\* A block filled with a line that is in no way of its set.
LEMMA FilledBlocks ==
    ASSUME NEW a, Blocks(block), PrivateBlocks(a, block), OneCopy(block), NEW c \in Cache,
           NEW d \in Addr, ~ Cached(block, c, LineOf[d]), NEW v \in 1 .. Ways[c],
           NEW e \in Block, e.addr = d, NEW s, s = SetFor(c, d), PrivateBlock(a, c, s, e),
           NEW n, OnlyWay(n, c, s, v, e)
    PROVE  /\ PrivateBlocks(a, n)
           /\ OneCopy(n)
           /\ \A x \in Cache : \A k :
                 Cached(n, x, k) => Cached(block, x, k) \/ (x = c /\ k = LineOf[d])
<1>0. s \in Sets
  BY SetForType
<1>1. /\ n[c][s][v] = e
      /\ \A x \in Cache, t \in Sets : \A u \in 1 .. Ways[x] :
            ~ (x = c /\ t = s /\ u = v) => n[x][t][u] = block[x][t][u]
  BY DEF OnlyWay
<1>2. PrivateBlocks(a, n)
  BY <1>1 DEF PrivateBlocks
<1>3. OneCopy(n)
  <2> SUFFICES ASSUME NEW x \in Cache, NEW t \in Sets, NEW u \in 1 .. Ways[x], NEW y \in 1 .. Ways[x],
                      n[x][t][u] # Invalid, n[x][t][y] # Invalid,
                      LineOf[n[x][t][u].addr] = LineOf[n[x][t][y].addr], u # y
               PROVE  FALSE
    BY DEF OneCopy
  <2>1. CASE x = c /\ t = s /\ u = v
    <3>1. n[x][t][y] = block[c][s][y] /\ n[x][t][u] = e
      BY <1>1, <2>1
    <3>2. block[c][s][y] # Invalid /\ LineOf[block[c][s][y].addr] = LineOf[d]
      BY <3>1
    <3> QED
      BY <1>0, <2>1, <3>2 DEF Cached
  <2>2. CASE x = c /\ t = s /\ y = v
    <3>1. n[x][t][u] = block[c][s][u] /\ n[x][t][y] = e
      BY <1>1, <2>2
    <3>2. block[c][s][u] # Invalid /\ LineOf[block[c][s][u].addr] = LineOf[d]
      BY <3>1
    <3> QED
      BY <1>0, <2>2, <3>2 DEF Cached
  <2>3. CASE ~ (x = c /\ t = s /\ u = v) /\ ~ (x = c /\ t = s /\ y = v)
    <3>1. n[x][t][u] = block[x][t][u] /\ n[x][t][y] = block[x][t][y]
      BY <1>1, <2>3
    <3> QED
      BY <3>1 DEF OneCopy
  <2> QED
    BY <2>1, <2>2, <2>3
<1>4. ASSUME NEW x \in Cache, NEW k, Cached(n, x, k)
      PROVE  Cached(block, x, k) \/ (x = c /\ k = LineOf[d])
  <2>1. PICK t \in Sets : \E u \in 1 .. Ways[x] : n[x][t][u] # Invalid /\ LineOf[n[x][t][u].addr] = k
    BY <1>4 DEF Cached
  <2>2. PICK u \in 1 .. Ways[x] : n[x][t][u] # Invalid /\ LineOf[n[x][t][u].addr] = k
    BY <2>1
  <2>3. CASE x = c /\ t = s /\ u = v
    BY <1>1, <2>2, <2>3
  <2>4. CASE ~ (x = c /\ t = s /\ u = v)
    <3>1. n[x][t][u] = block[x][t][u]
      BY <1>1, <2>4
    <3> QED
      BY <2>2, <3>1 DEF Cached
  <2> QED
    BY <2>3, <2>4
<1> QED
  BY <1>2, <1>3, <1>4

\* filllike_miss of a line that the cache does not have.
LEMMA FillPrivate ==
    ASSUME NEW a, WritesApart(a), NEW c \in Cache, NEW p, p.addr \in Addr, NEW w,
           Queues(w, WQ_SIZE, Packet), PrivateWrites(a, w),
           Blocks(block), PrivateBlocks(a, block), OneCopy(block),
           ~ Cached(block, c, LineOf[p.addr]),
           Filled(p).dirty => LineOf[p.addr] \in WrittenLine /\ LineOf[p.addr] \in a[c],
           FilllikeMiss(c, p, w)
    PROVE  /\ PrivateWrites(a, wq') /\ PrivateBlocks(a, block') /\ OneCopy(block')
           /\ \A x \in Cache : \A k :
                 Cached(block', x, k) => Cached(block, x, k) \/ (x = c /\ k = LineOf[p.addr])
           /\ \A x \in Cache : \A k : Back(wq'[x], k)
                 => \/ Back(w[x], k)
                    \/ x = Below[c] /\ k \in WrittenLine /\ k \in a[c] /\ Cached(block, c, k)
<1> DEFINE s == SetFor(c, p.addr)
           e == Filled(p)
<1>1. e \in Block /\ e.addr = p.addr
  BY DEF Filled, Block
<1>2. s \in Sets
  BY SetForType
<1>3. PrivateBlock(a, c, s, e)
  BY <1>1 DEF PrivateBlock
<1>4. \/ \E v \in 1 .. Ways[c] :
            /\ block' = [block EXCEPT ![c][s][v] = e]
            /\ block[c][s][v] \in Block
            /\ \/ block[c][s][v].dirty /\ WriteBelow(c, block[c][s][v].addr, w)
               \/ wq' = w
      \/ block' = block /\ wq' = w
  BY FillCases
<1> HIDE DEF e
<1>5. CASE block' = block /\ wq' = w
  BY <1>5
<1>6. ASSUME NEW v \in 1 .. Ways[c], block' = [block EXCEPT ![c][s][v] = e]
      PROVE  /\ PrivateBlocks(a, block') /\ OneCopy(block')
             /\ \A x \in Cache : \A k :
                   Cached(block', x, k) => Cached(block, x, k) \/ (x = c /\ k = LineOf[p.addr])
  <2>1. s = SetFor(c, p.addr)
    OBVIOUS
  <2> HIDE DEF s
  <2>2. OnlyWay(block', c, s, v, e)
    BY <1>1, <1>2, <1>6, BlockChanged DEF OnlyWay
  <2> QED
    BY <1>1, <1>3, <2>1, <2>2, FilledBlocks
<1>7. ASSUME NEW v \in 1 .. Ways[c], block[c][s][v] \in Block, block[c][s][v].dirty,
             WriteBelow(c, block[c][s][v].addr, w)
      PROVE  /\ PrivateWrites(a, wq')
             /\ \A x \in Cache : \A k : Back(wq'[x], k)
                   => \/ Back(w[x], k)
                      \/ x = Below[c] /\ k \in WrittenLine /\ k \in a[c] /\ Cached(block, c, k)
  <2> DEFINE f == block[c][s][v]
  <2>1. f # Invalid /\ f.addr \in Addr
    BY <1>7, DirtyBlocksAreValid
  <2>2. LineOf[f.addr] \in WrittenLine /\ LineOf[f.addr] \in a[c]
    BY <1>2, <1>7, <2>1 DEF PrivateBlocks, PrivateBlock
  <2>3. Cached(block, c, LineOf[f.addr])
    BY <1>2, <2>1 DEF Cached
  <2> HIDE DEF f
  <2>4. /\ PrivateWrites(a, wq')
        /\ \A x \in Cache : \A k :
              Back(wq'[x], k) => Back(w[x], k) \/ (x = Below[c] /\ k = LineOf[f.addr])
    BY <1>7, <2>1, <2>2, WriteBelowPrivate, SMTT(60) DEF f
  <2> QED
    BY <2>2, <2>3, <2>4
<1> QED
  BY <1>4, <1>5, <1>6, <1>7

\* A line that get_way does not find in its set is not in the cache.
LEMMA Uncached ==
    ASSUME NEW a, Blocks(block), PrivateBlocks(a, block), NEW c \in Cache, NEW d \in Addr,
           ~ Hits(c, d)
    PROVE  ~ Cached(block, c, LineOf[d])
<1> SUFFICES ASSUME Cached(block, c, LineOf[d]) PROVE FALSE
  OBVIOUS
<1>1. PICK s \in Sets : \E v \in 1 .. Ways[c] :
          block[c][s][v] # Invalid /\ LineOf[block[c][s][v].addr] = LineOf[d]
  BY DEF Cached
<1>2. PICK v \in 1 .. Ways[c] : block[c][s][v] # Invalid /\ LineOf[block[c][s][v].addr] = LineOf[d]
  BY <1>1
<1>3. SetFor(c, block[c][s][v].addr) = s
  BY <1>2 DEF PrivateBlocks, PrivateBlock
<1>4. s = SetOf[c][LineOf[d]]
  BY <1>2, <1>3 DEF SetFor
<1> QED
  BY <1>2, <1>4, ZenonT(60) DEF Hits, WaysHolding, SameLine

\* A hit of the WQ keeps every line where it is.
LEMMA DirtiedBlocks ==
    ASSUME NEW a, PrivateBlocks(a, block), OneCopy(block), NEW c \in Cache, NEW s \in Sets,
           NEW v \in 1 .. Ways[c], block[c][s][v] # Invalid, NEW e, e # Invalid,
           e.addr = block[c][s][v].addr,
           LineOf[e.addr] \in WrittenLine /\ LineOf[e.addr] \in a[c],
           NEW n, OnlyWay(n, c, s, v, e)
    PROVE  /\ PrivateBlocks(a, n) /\ OneCopy(n)
           /\ \A x \in Cache : \A k : Cached(n, x, k) => Cached(block, x, k)
<1>1. \A x \in Cache, t \in Sets : \A u \in 1 .. Ways[x] :
          /\ n[x][t][u] # Invalid <=> block[x][t][u] # Invalid
          /\ n[x][t][u] # Invalid => n[x][t][u].addr = block[x][t][u].addr
  <2> SUFFICES ASSUME NEW x \in Cache, NEW t \in Sets, NEW u \in 1 .. Ways[x]
               PROVE  /\ n[x][t][u] # Invalid <=> block[x][t][u] # Invalid
                      /\ n[x][t][u] # Invalid => n[x][t][u].addr = block[x][t][u].addr
    OBVIOUS
  <2>1. CASE x = c /\ t = s /\ u = v
    BY <2>1 DEF OnlyWay
  <2>2. CASE ~ (x = c /\ t = s /\ u = v)
    BY <2>2 DEF OnlyWay
  <2> QED
    BY <2>1, <2>2
<1>2. PrivateBlock(a, c, s, e)
  <2>1. PrivateBlock(a, c, s, block[c][s][v])
    BY DEF PrivateBlocks
  <2> QED
    BY <2>1 DEF PrivateBlock
<1>3. PrivateBlocks(a, n)
  BY <1>2 DEF PrivateBlocks, OnlyWay
<1>4. OneCopy(n)
  BY <1>1 DEF OneCopy
<1>5. \A x \in Cache : \A k : Cached(n, x, k) => Cached(block, x, k)
  BY <1>1 DEF Cached
<1> QED
  BY <1>3, <1>4, <1>5

\* A miss of a line that is neither in the cache nor waiting to be written back to it;
\* w is WQ as the caller leaves it.
LEMMA MissCopies ==
    ASSUME NEW a, WritesApart(a), Queues(wq, WQ_SIZE, Packet), PrivateWrites(a, wq),
           NEW c \in Cache, NEW p \in Packet, NEW r, NEW q,
           Requests(r, q, mshr, memRQ, pending), Paths(a, r, q, mshr),
           MissesAbsent(mshr, block), WritesAlone(wq, r, mshr),
           PrivateRead(a, c, p), ReadlikeMiss(c, p, r, q),
           ~ Cached(block, c, LineOf[p.addr]), ~ Back(wq[c], LineOf[p.addr]),
           NEW w, \A d \in Cache : \A k : Back(w[d], k) => Back(wq[d], k)
    PROVE  Paths(a, rq', pq', mshr') /\ MissesAbsent(mshr', block) /\ WritesAlone(w, rq', mshr')
<1>1. /\ Paths(a, rq', pq', mshr')
      /\ \A d \in Cache : \A k : Has(rq'[d], k) => Has(r[d], k) \/ ~ Back(wq[d], k)
      /\ \A d \in Cache : \A k : Has(mshr'[d], k)
                             => Has(mshr[d], k) \/ (d = c /\ k = LineOf[p.addr])
  BY MissPrivate
<1>2. MissesAbsent(mshr', block)
  BY <1>1 DEF MissesAbsent
<1>3. WritesAlone(w, rq', mshr')
  BY <1>1 DEF WritesAlone
<1> QED
  BY <1>1, <1>2, <1>3

\* Answers and shorter queues bring no line anywhere.
LEMMA FewerCopies ==
    ASSUME NEW m, NEW b, NEW w, NEW r, MissesAbsent(m, b), WritesAlone(w, r, m), NEW n, NEW o,
           \A d \in Cache : \A k : Has(n[d], k) => Has(m[d], k),
           \A d \in Cache : \A k : Has(o[d], k) => Has(r[d], k) \/ ~ Back(w[d], k)
    PROVE  MissesAbsent(n, b) /\ WritesAlone(w, o, n)
BY DEF MissesAbsent, WritesAlone

\* What filllike_miss writes back is in flight nowhere below: w is WQ and n the MSHRs as
\* the caller leaves them.
LEMMA FillCopies ==
    ASSUME NEW a, WritesApart(a), LedgerNow, CopiesNow(a), Blocks(block),
           NEW c \in Cache, NEW p, p.addr \in Addr, NEW w,
           Queues(w, WQ_SIZE, Packet), PrivateWrites(a, w), FilllikeMiss(c, p, w),
           ~ Cached(block, c, LineOf[p.addr]),
           Filled(p).dirty => LineOf[p.addr] \in WrittenLine /\ LineOf[p.addr] \in a[c],
           \A d \in Cache : \A k : Back(w[d], k) => Back(wq[d], k),
           NEW n, \A d \in Cache : \A k : Has(n[d], k) => Has(mshr[d], k),
           ~ Has(n[c], LineOf[p.addr])
    PROVE  /\ PrivateWrites(a, wq') /\ PrivateBlocks(a, block') /\ OneCopy(block')
           /\ MissesAbsent(n, block') /\ WritesAlone(wq', rq, n)
<1>0. /\ Paths(a, rq, pq, mshr) /\ PrivateBlocks(a, block) /\ OneCopy(block)
      /\ MissesAbsent(mshr, block) /\ WritesAlone(wq, rq, mshr)
  BY DEF CopiesNow, Copies
<1>1. /\ PrivateWrites(a, wq') /\ PrivateBlocks(a, block') /\ OneCopy(block')
      /\ \A x \in Cache : \A k :
            Cached(block', x, k) => Cached(block, x, k) \/ (x = c /\ k = LineOf[p.addr])
      /\ \A x \in Cache : \A k : Back(wq'[x], k)
            => \/ Back(w[x], k)
               \/ x = Below[c] /\ k \in WrittenLine /\ k \in a[c] /\ Cached(block, c, k)
  BY <1>0, FillPrivate
<1>2. MissesAbsent(n, block')
  BY <1>0, <1>1 DEF MissesAbsent
<1>3. ASSUME NEW x \in Cache, NEW k, Back(wq'[x], k)
      PROVE  ~ Has(rq[x], k) /\ ~ Has(mshr[x], k)
  <2>1. CASE Back(w[x], k)
    BY <1>0, <2>1 DEF WritesAlone
  <2>2. CASE x = Below[c] /\ k \in WrittenLine /\ k \in a[c] /\ Cached(block, c, k)
    BY <1>0, <2>2, NothingBelow
  <2> QED
    BY <1>1, <1>3, <2>1, <2>2
<1>4. WritesAlone(wq', rq, n)
  BY <1>3 DEF WritesAlone
<1> QED
  BY <1>1, <1>2, <1>4

\* The first packet or entry is taken.
LEMMA ReadTaken ==
    ASSUME NEW a, Queues(rq, RQ_SIZE, Packet), Paths(a, rq, pq, mshr), NEW c \in Cache,
           rq[c] # <<>>, NEW n, OnlyList(rq, n, c, Tail(rq[c]))
    PROVE  /\ Paths(a, n, pq, mshr) /\ PrivateRead(a, c, Head(rq[c]))
           /\ \A d \in Cache : \A k : Has(n[d], k) => Has(rq[d], k)
           /\ Has(rq[c], LineOf[Head(rq[c]).addr])
           /\ Distinct(rq[c]) => ~ Has(n[c], LineOf[Head(rq[c]).addr])
<1> DEFINE l == rq[c]
<1>1. /\ l \in Seq(Packet) /\ l # <<>> /\ \A i \in 1 .. Len(l) : PrivateRead(a, c, l[i])
      /\ n[c] = Tail(l) /\ \A d \in Cache : d # c => n[d] = rq[d]
  BY DEF Queues, Paths, OnlyList
<1> HIDE DEF l
<1>2. /\ \A j \in 1 .. Len(Tail(l)) : j + 1 \in 1 .. Len(l) /\ Tail(l)[j] = l[j + 1]
      /\ 1 \in 1 .. Len(l) /\ Head(l) = l[1]
  BY <1>1, TailMembers
<1>3. /\ \A k : Has(Tail(l), k) => Has(l, k)
      /\ Has(l, LineOf[Head(l).addr])
      /\ Distinct(l) => ~ Has(Tail(l), LineOf[Head(l).addr])
  BY <1>1, TailHas
<1>4. PrivateRead(a, c, Head(l))
  BY <1>1, <1>2
<1>5. \A j \in 1 .. Len(n[c]) : PrivateRead(a, c, n[c][j])
  BY <1>1, <1>2
<1>6. Paths(a, n, pq, mshr)
  BY <1>1, <1>5 DEF Paths
<1>7. \A d \in Cache : \A k : Has(n[d], k) => Has(rq[d], k)
  BY <1>1, <1>3 DEF l
<1> QED
  BY <1>1, <1>3, <1>4, <1>6, <1>7 DEF l

LEMMA PrefetchTaken ==
    ASSUME NEW a, Queues(pq, PQ_SIZE, Packet), Paths(a, rq, pq, mshr), NEW c \in Cache,
           pq[c] # <<>>, NEW n, OnlyList(pq, n, c, Tail(pq[c]))
    PROVE  /\ Paths(a, rq, n, mshr) /\ Unwritten(Head(pq[c]))
           /\ \A d \in Cache : \A k : Has(n[d], k) => Has(pq[d], k)
           /\ Has(pq[c], LineOf[Head(pq[c]).addr])
           /\ Distinct(pq[c]) => ~ Has(n[c], LineOf[Head(pq[c]).addr])
<1> DEFINE l == pq[c]
<1>1. /\ l \in Seq(Packet) /\ l # <<>> /\ \A i \in 1 .. Len(l) : Unwritten(l[i])
      /\ n[c] = Tail(l) /\ \A d \in Cache : d # c => n[d] = pq[d]
  BY DEF Queues, Paths, OnlyList
<1> HIDE DEF l
<1>2. /\ \A j \in 1 .. Len(Tail(l)) : j + 1 \in 1 .. Len(l) /\ Tail(l)[j] = l[j + 1]
      /\ 1 \in 1 .. Len(l) /\ Head(l) = l[1]
  BY <1>1, TailMembers
<1>3. /\ \A k : Has(Tail(l), k) => Has(l, k)
      /\ Has(l, LineOf[Head(l).addr])
      /\ Distinct(l) => ~ Has(Tail(l), LineOf[Head(l).addr])
  BY <1>1, TailHas
<1>4. Unwritten(Head(l))
  BY <1>1, <1>2
<1>5. \A j \in 1 .. Len(n[c]) : Unwritten(n[c][j])
  BY <1>1, <1>2
<1>6. Paths(a, rq, n, mshr)
  BY <1>1, <1>5 DEF Paths
<1>7. \A d \in Cache : \A k : Has(n[d], k) => Has(pq[d], k)
  BY <1>1, <1>3 DEF l
<1> QED
  BY <1>1, <1>3, <1>4, <1>6, <1>7 DEF l

LEMMA EntryTaken ==
    ASSUME NEW a, Queues(mshr, MSHR_SIZE, MshrEntry), Paths(a, rq, pq, mshr), NEW c \in Cache,
           mshr[c] # <<>>, NEW n, OnlyList(mshr, n, c, Tail(mshr[c]))
    PROVE  /\ Paths(a, rq, pq, n) /\ Private(a, c, Head(mshr[c]))
           /\ \A d \in Cache : \A k : Has(n[d], k) => Has(mshr[d], k)
           /\ Has(mshr[c], LineOf[Head(mshr[c]).addr])
           /\ Distinct(mshr[c]) => ~ Has(n[c], LineOf[Head(mshr[c]).addr])
<1> DEFINE l == mshr[c]
<1>1. /\ l \in Seq(MshrEntry) /\ l # <<>> /\ \A i \in 1 .. Len(l) : Private(a, c, l[i])
      /\ n[c] = Tail(l) /\ \A d \in Cache : d # c => n[d] = mshr[d]
  BY DEF Queues, Paths, OnlyList
<1> HIDE DEF l
<1>2. /\ \A j \in 1 .. Len(Tail(l)) : j + 1 \in 1 .. Len(l) /\ Tail(l)[j] = l[j + 1]
      /\ 1 \in 1 .. Len(l) /\ Head(l) = l[1]
  BY <1>1, TailMembers
<1>3. /\ \A k : Has(Tail(l), k) => Has(l, k)
      /\ Has(l, LineOf[Head(l).addr])
      /\ Distinct(l) => ~ Has(Tail(l), LineOf[Head(l).addr])
  BY <1>1, TailHas
<1>4. Private(a, c, Head(l))
  BY <1>1, <1>2
<1>5. \A j \in 1 .. Len(n[c]) : Private(a, c, n[c][j])
  BY <1>1, <1>2
<1>6. Paths(a, rq, pq, n)
  BY <1>1, <1>5 DEF Paths
<1>7. \A d \in Cache : \A k : Has(n[d], k) => Has(mshr[d], k)
  BY <1>1, <1>3 DEF l
<1> QED
  BY <1>1, <1>3, <1>4, <1>6, <1>7 DEF l

LEMMA ReadCopies ==
    ASSUME NEW a, WritesApart(a), TypeInv, CopiesNow(a), NEW c \in Cache, HandleRead(c)
    PROVE  Copies(a, rq', pq', mshr', wq', block')
<1> DEFINE p == Head(rq[c])
           r == [rq EXCEPT ![c] = Tail(@)]
<1>0. /\ Paths(a, rq, pq, mshr) /\ PrivateWrites(a, wq) /\ PrivateBlocks(a, block)
      /\ OneCopy(block) /\ MissesAbsent(mshr, block) /\ WritesAlone(wq, rq, mshr)
  BY DEF CopiesNow, Copies
<1>1. rq[c] # <<>> /\ IF Hits(c, p.addr) THEN ReadlikeHit(p, r, pq) ELSE ReadlikeMiss(c, p, r, pq)
  BY DEF HandleRead
<1>2. wq' = wq /\ block' = block
  BY OthersKeep
<1>3. /\ Requests(rq, pq, mshr, memRQ, pending) /\ Blocks(block)
      /\ Queues(wq, WQ_SIZE, Packet) /\ Queues(rq, RQ_SIZE, Packet)
      /\ Queues(mshr, MSHR_SIZE, MshrEntry)
  BY DEF TypeInv, Requests
<1>4. p \in Packet /\ Requests(r, pq, mshr, memRQ, pending)
  BY <1>1, <1>3, QueueShortened, SizesAreFunctions DEF Requests
<1>5. OnlyList(rq, r, c, Tail(rq[c]))
  BY <1>3 DEF Queues, OnlyList
<1> HIDE DEF r
<1>6. /\ Paths(a, r, pq, mshr) /\ PrivateRead(a, c, p)
      /\ \A d \in Cache : \A k : Has(r[d], k) => Has(rq[d], k)
      /\ Has(rq[c], LineOf[p.addr])
  BY <1>0, <1>1, <1>3, <1>5, ReadTaken
<1> HIDE DEF p
<1>7. p.addr \in Addr
  BY <1>4 DEF Packet
<1>8. CASE Hits(c, p.addr)
  <2>1. rq' = r /\ pq' = pq /\ mshr' = Return(mshr, p)
    BY <1>1, <1>8 DEF ReadlikeHit
  <2>2. /\ Paths(a, r, pq, Return(mshr, p))
        /\ \A d \in Cache : \A k : Has(Return(mshr, p)[d], k) => Has(mshr[d], k)
    BY <1>3, <1>6, ReturnPaths
  <2>3. MissesAbsent(mshr', block) /\ WritesAlone(wq, rq', mshr')
    BY <1>0, <1>6, <2>1, <2>2, FewerCopies
  <2> QED
    BY <1>0, <1>2, <2>1, <2>2, <2>3 DEF Copies
<1>9. CASE ~ Hits(c, p.addr)
  <2>1. ReadlikeMiss(c, p, r, pq)
    BY <1>1, <1>9
  <2>2. ~ Cached(block, c, LineOf[p.addr])
    BY <1>0, <1>3, <1>7, <1>9, Uncached
  <2>3. ~ Back(wq[c], LineOf[p.addr]) /\ WritesAlone(wq, r, mshr)
    BY <1>0, <1>6 DEF WritesAlone
  <2>4. Paths(a, rq', pq', mshr') /\ MissesAbsent(mshr', block) /\ WritesAlone(wq, rq', mshr')
    BY <1>0, <1>3, <1>4, <1>6, <2>1, <2>2, <2>3, MissCopies
  <2> QED
    BY <1>0, <1>2, <2>4 DEF Copies
<1> QED
  BY <1>8, <1>9

LEMMA PrefetchCopies ==
    ASSUME NEW a, WritesApart(a), TypeInv, CopiesNow(a), NEW c \in Cache, HandlePrefetch(c)
    PROVE  Copies(a, rq', pq', mshr', wq', block')
<1> DEFINE p == Head(pq[c])
           q == [pq EXCEPT ![c] = Tail(@)]
<1>0. /\ Paths(a, rq, pq, mshr) /\ PrivateWrites(a, wq) /\ PrivateBlocks(a, block)
      /\ OneCopy(block) /\ MissesAbsent(mshr, block) /\ WritesAlone(wq, rq, mshr)
  BY DEF CopiesNow, Copies
<1>1. pq[c] # <<>> /\ IF Hits(c, p.addr) THEN ReadlikeHit(p, rq, q) ELSE ReadlikeMiss(c, p, rq, q)
  BY DEF HandlePrefetch
<1>2. wq' = wq /\ block' = block
  BY OthersKeep
<1>3. /\ Requests(rq, pq, mshr, memRQ, pending) /\ Blocks(block)
      /\ Queues(wq, WQ_SIZE, Packet) /\ Queues(pq, PQ_SIZE, Packet)
      /\ Queues(mshr, MSHR_SIZE, MshrEntry)
  BY DEF TypeInv, Requests
<1>4. p \in Packet /\ Requests(rq, q, mshr, memRQ, pending)
  BY <1>1, <1>3, QueueShortened, SizesAreFunctions DEF Requests
<1>5. OnlyList(pq, q, c, Tail(pq[c]))
  BY <1>3 DEF Queues, OnlyList
<1> HIDE DEF q
<1>6. Paths(a, rq, q, mshr) /\ Unwritten(p)
  BY <1>0, <1>1, <1>3, <1>5, PrefetchTaken
<1> HIDE DEF p
<1>7. p.addr \in Addr
  BY <1>4 DEF Packet
<1>8. CASE Hits(c, p.addr)
  <2>1. rq' = rq /\ pq' = q /\ mshr' = Return(mshr, p)
    BY <1>1, <1>8 DEF ReadlikeHit
  <2>2. /\ Paths(a, rq, q, Return(mshr, p))
        /\ \A d \in Cache : \A k : Has(Return(mshr, p)[d], k) => Has(mshr[d], k)
    BY <1>3, <1>6, ReturnPaths
  <2>3. MissesAbsent(mshr', block) /\ WritesAlone(wq, rq', mshr')
    BY <1>0, <2>1, <2>2, FewerCopies
  <2> QED
    BY <1>0, <1>2, <2>1, <2>2, <2>3 DEF Copies
<1>9. CASE ~ Hits(c, p.addr)
  <2>1. ReadlikeMiss(c, p, rq, q)
    BY <1>1, <1>9
  <2>2. ~ Cached(block, c, LineOf[p.addr])
    BY <1>0, <1>3, <1>7, <1>9, Uncached
  <2>3. ~ Back(wq[c], LineOf[p.addr])
    BY <1>0, <1>6 DEF Back, PrivateWrites, PrivateWrite, Unwritten
  <2>4. PrivateRead(a, c, p)
    BY <1>6 DEF Unwritten, PrivateRead, Private
  <2>5. Paths(a, rq', pq', mshr') /\ MissesAbsent(mshr', block) /\ WritesAlone(wq, rq', mshr')
    BY <1>0, <1>3, <1>4, <1>6, <2>1, <2>2, <2>3, <2>4, MissCopies
  <2> QED
    BY <1>0, <1>2, <2>5 DEF Copies
<1> QED
  BY <1>8, <1>9

LEMMA FillStepCopies ==
    ASSUME NEW a, WritesApart(a), TypeInv, LedgerNow, CopiesNow(a), NEW c \in Cache, HandleFill(c)
    PROVE  Copies(a, rq', pq', mshr', wq', block')
<1> DEFINE e == Head(mshr[c])
           n == Return(mshr, e)
           t == [mshr EXCEPT ![c] = Tail(@)]
<1>0. /\ Paths(a, rq, pq, mshr) /\ PrivateWrites(a, wq) /\ PrivateBlocks(a, block)
      /\ OneCopy(block) /\ MissesAbsent(mshr, block) /\ WritesAlone(wq, rq, mshr)
  BY DEF CopiesNow, Copies
<1>1. /\ mshr[c] # <<>> /\ FilllikeMiss(c, e, wq) /\ rq' = rq /\ pq' = pq
      /\ mshr' = [n EXCEPT ![c] = Tail(mshr[c])]
  BY DEF HandleFill
<1>2. /\ Blocks(block) /\ Queues(wq, WQ_SIZE, Packet) /\ Queues(mshr, MSHR_SIZE, MshrEntry)
      /\ mshr[c] \in Seq(MshrEntry)
  BY DEF TypeInv, Requests, Queues
<1>3. e \in MshrEntry
  BY <1>1, <1>2, TailFields
<1>4. e.addr \in Addr
  BY <1>3 DEF MshrEntry
<1>5. DOMAIN mshr = Cache /\ DOMAIN n = Cache
  BY <1>2 DEF Queues, Return
<1>6. OnlyList(mshr, t, c, Tail(mshr[c]))
  BY <1>5 DEF OnlyList
<1>7. /\ Paths(a, rq, pq, n)
      /\ \A d \in Cache : \A k : Has(n[d], k) => Has(mshr[d], k)
  BY <1>0, <1>2, ReturnPaths
<1> HIDE DEF n
<1>8. mshr'[c] = t[c] /\ \A d \in Cache : d # c => mshr'[d] = n[d]
  BY <1>1, <1>5
<1> HIDE DEF t
<1>9. Distinct(mshr[c])
  BY DEF LedgerNow, Ledger, Lists, Tidy
<1>10. /\ Paths(a, rq, pq, t) /\ Private(a, c, e)
       /\ \A d \in Cache : \A k : Has(t[d], k) => Has(mshr[d], k)
       /\ Has(mshr[c], LineOf[e.addr]) /\ ~ Has(t[c], LineOf[e.addr])
  BY <1>0, <1>1, <1>2, <1>6, <1>9, EntryTaken
<1> HIDE DEF e
<1>11. Paths(a, rq, pq, mshr')
  <2>1. \A i \in 1 .. Len(mshr'[c]) : Private(a, c, mshr'[c][i])
    BY <1>8, <1>10 DEF Paths
  <2>2. \A d \in Cache : d # c => \A i \in 1 .. Len(mshr'[d]) : Private(a, d, mshr'[d][i])
    BY <1>7, <1>8 DEF Paths
  <2> QED
    BY <1>7, <2>1, <2>2 DEF Paths
<1>12. /\ \A d \in Cache : \A k : Has(mshr'[d], k) => Has(mshr[d], k)
       /\ ~ Has(mshr'[c], LineOf[e.addr])
  BY <1>7, <1>8, <1>10
<1>13. ~ Cached(block, c, LineOf[e.addr])
  BY <1>0, <1>10 DEF MissesAbsent
<1>14. Filled(e).dirty => LineOf[e.addr] \in WrittenLine /\ LineOf[e.addr] \in a[c]
  BY <1>10 DEF Filled, Private
<1>15. \A d \in Cache : \A k : Back(wq[d], k) => Back(wq[d], k)
  OBVIOUS
<1> DEFINE m == mshr'
<1>16. m = mshr'
  OBVIOUS
<1> HIDE DEF m
<1>17. /\ PrivateWrites(a, wq') /\ PrivateBlocks(a, block') /\ OneCopy(block')
       /\ MissesAbsent(m, block') /\ WritesAlone(wq', rq, m)
  <2>1. /\ \A d \in Cache : \A k : Has(m[d], k) => Has(mshr[d], k)
        /\ ~ Has(m[c], LineOf[e.addr])
    BY <1>12, <1>16
  <2> QED
    BY <1>0, <1>1, <1>2, <1>4, <1>13, <1>14, <1>15, <2>1, FillCopies
<1> QED
  BY <1>1, <1>11, <1>16, <1>17 DEF Copies

\* A store of a client and a dirty line from a cache above never are for the same line.
LEMMA StoreAlone ==
    ASSUME NEW a, WritesApart(a), PrivateWrites(a, wq), NEW c \in Cache, NEW p,
           PrivateWrite(a, c, p), WriteFits(a, c, p), p.type = "RFO"
    PROVE  ~ Back(wq[c], LineOf[p.addr]) /\ PrivateRead(a, c, p)
<1> DEFINE k == LineOf[p.addr]
<1>1. k \in WrittenLine /\ k \in a[c]
  BY DEF PrivateWrite
<1>2. PICK u \in Client : Below[u] = c /\ k \in a[u]
  BY DEF WriteFits
<1>3. \A x \in Cache : ~ (Below[x] = c /\ k \in a[x])
  <2> SUFFICES ASSUME NEW x \in Cache, Below[x] = c, k \in a[x] PROVE FALSE
    OBVIOUS
  <2>1. x # u /\ x \in Node /\ u \in Node
    BY TopologyAssumption DEF Node
  <2> QED
    BY <1>1, <1>2, <2>1 DEF WritesApart
<1> HIDE DEF k
<1>4. ~ Back(wq[c], k)
  <2> SUFFICES ASSUME NEW i \in 1 .. Len(wq[c]), wq[c][i].type = "WRITEBACK",
                      LineOf[wq[c][i].addr] = k
               PROVE  FALSE
    BY DEF Back
  <2>1. PrivateWrite(a, c, wq[c][i])
    BY DEF PrivateWrites
  <2> QED
    BY <1>3, <2>1 DEF PrivateWrite
<1>5. Keeps(c, p)
  BY DEF WriteFits, Keeps
<1>6. Private(a, c, p)
  BY <1>1, <1>3 DEF Private, k
<1> QED
  BY <1>4, <1>5, <1>6 DEF PrivateRead, k

LEMMA WritebackCopies ==
    ASSUME NEW a, WritesApart(a), TypeInv, Writes(a, wq), LedgerNow, CopiesNow(a),
           NEW c \in Cache, HandleWriteback(c)
    PROVE  Copies(a, rq', pq', mshr', wq', block')
<1> DEFINE p == Head(wq[c])
           w == [wq EXCEPT ![c] = Tail(@)]
<1>0. /\ Paths(a, rq, pq, mshr) /\ PrivateWrites(a, wq) /\ PrivateBlocks(a, block)
      /\ OneCopy(block) /\ MissesAbsent(mshr, block) /\ WritesAlone(wq, rq, mshr)
  BY SMTT(60) DEF CopiesNow, Copies
<1>1. wq[c] # <<>>
  BY WritebackCases
<1>2. /\ Requests(rq, pq, mshr, memRQ, pending) /\ Blocks(block)
      /\ Queues(wq, WQ_SIZE, Packet)
  BY DEF TypeInv
<1>3. p \in Packet /\ Queues(w, WQ_SIZE, Packet)
  BY <1>1, <1>2, QueueShortened, SizesAreFunctions
<1>4. WriteFits(a, c, p)
  BY <1>1, <1>2, WritesShortened
<1>5. OnlyList(wq, w, c, Tail(wq[c]))
  BY <1>2 DEF Queues, OnlyList
<1>6. /\ PrivateWrites(a, w) /\ PrivateWrite(a, c, p)
      /\ \A d \in Cache : \A k : Back(w[d], k) => Back(wq[d], k)
      /\ p.type = "WRITEBACK" => Back(wq[c], LineOf[p.addr])
  <2> HIDE DEF w
  <2> QED
    BY <1>0, <1>1, <1>2, <1>5, PrivateWritesShortened
<1>7. \/ /\ Hits(c, p.addr)
         /\ block' = [block EXCEPT ![c][SetFor(c, p.addr)]
                                   [FirstWay(WaysHolding(c, p.addr))].dirty = TRUE]
         /\ wq' = w
         /\ rq' = rq /\ pq' = pq /\ mshr' = mshr
      \/ /\ ~ Hits(c, p.addr) /\ p.type = "RFO" /\ ReadlikeMiss(c, p, rq, pq)
         /\ wq' = w /\ block' = block
      \/ /\ ~ Hits(c, p.addr) /\ ~ (p.type = "RFO" /\ p.to_return = {})
         /\ FilllikeMiss(c, p, w)
         /\ rq' = rq /\ pq' = pq /\ mshr' = mshr
  BY Zenon DEF HandleWriteback, SetFor
<1> HIDE DEF p, w
<1>8. p.addr \in Addr
  BY <1>3 DEF Packet
<1>9. WritesAlone(w, rq, mshr)
  BY <1>0, <1>6 DEF WritesAlone
<1>10. CASE /\ Hits(c, p.addr)
            /\ block' = [block EXCEPT ![c][SetFor(c, p.addr)]
                                      [FirstWay(WaysHolding(c, p.addr))].dirty = TRUE]
            /\ wq' = w
            /\ rq' = rq /\ pq' = pq /\ mshr' = mshr
  <2> DEFINE s == SetFor(c, p.addr)
  <2>1. PICK v \in 1 .. Ways[c] :
              /\ block[c][s][v] # Invalid /\ SameLine(block[c][s][v].addr, p.addr)
              /\ block' = [block EXCEPT ![c][s][v] = [addr |-> block[c][s][v].addr, dirty |-> TRUE]]
              /\ [addr |-> block[c][s][v].addr, dirty |-> TRUE] \in Block
    BY <1>2, <1>8, <1>10, WritebackHit
  <2>2. s \in Sets
    BY <1>8, SetForType
  <2> DEFINE e == [addr |-> block[c][s][v].addr, dirty |-> TRUE]
  <2>3. /\ e.addr = block[c][s][v].addr /\ e # Invalid /\ e \in Block
        /\ block' = [block EXCEPT ![c][s][v] = e]
    BY <2>1 DEF Invalid
  <2> HIDE DEF s, e
  <2>4. OnlyWay(block', c, s, v, e)
    BY <1>2, <2>2, <2>3, BlockChanged DEF OnlyWay
  <2>5. LineOf[e.addr] \in WrittenLine /\ LineOf[e.addr] \in a[c]
    BY <1>6, <2>1, <2>3 DEF PrivateWrite, SameLine
  <2> DEFINE n == block'
  <2>6. OnlyWay(n, c, s, v, e)
    BY <2>4
  <2> HIDE DEF n
  <2>7. /\ PrivateBlocks(a, n) /\ OneCopy(n)
        /\ \A x \in Cache : \A k : Cached(n, x, k) => Cached(block, x, k)
    BY <1>0, <2>1, <2>2, <2>3, <2>5, <2>6, DirtiedBlocks
  <2>8. MissesAbsent(mshr, n)
    BY <1>0, <2>7 DEF MissesAbsent
  <2> QED
    BY <1>0, <1>6, <1>9, <1>10, <2>7, <2>8, SMTT(60) DEF Copies, n
<1>11. CASE /\ ~ Hits(c, p.addr) /\ p.type = "RFO" /\ ReadlikeMiss(c, p, rq, pq)
            /\ wq' = w /\ block' = block
  <2>1. ~ Back(wq[c], LineOf[p.addr]) /\ PrivateRead(a, c, p)
    BY <1>0, <1>4, <1>6, <1>11, StoreAlone
  <2>2. ~ Cached(block, c, LineOf[p.addr])
    BY <1>0, <1>2, <1>8, <1>11, Uncached
  <2>3. Paths(a, rq', pq', mshr') /\ MissesAbsent(mshr', block) /\ WritesAlone(w, rq', mshr')
    BY <1>0, <1>2, <1>3, <1>6, <1>11, <2>1, <2>2, MissCopies
  <2> QED
    BY <1>0, <1>6, <1>11, <2>3 DEF Copies
<1>12. CASE /\ ~ Hits(c, p.addr) /\ ~ (p.type = "RFO" /\ p.to_return = {})
            /\ FilllikeMiss(c, p, w)
            /\ rq' = rq /\ pq' = pq /\ mshr' = mshr
  <2>1. p.type = "WRITEBACK" /\ LineOf[p.addr] \in WrittenLine /\ LineOf[p.addr] \in a[c]
    BY <1>4, <1>6, <1>12 DEF PrivateWrite, WriteFits
  <2>2. ~ Cached(block, c, LineOf[p.addr])
    BY <1>0, <1>2, <1>8, <1>12, Uncached
  <2>3. ~ Has(mshr[c], LineOf[p.addr])
    BY <1>0, <1>6, <2>1 DEF WritesAlone
  <2>4. \A d \in Cache : \A k : Has(mshr[d], k) => Has(mshr[d], k)
    OBVIOUS
  <2>5. /\ PrivateWrites(a, wq') /\ PrivateBlocks(a, block') /\ OneCopy(block')
        /\ MissesAbsent(mshr, block') /\ WritesAlone(wq', rq, mshr)
    BY <1>2, <1>3, <1>6, <1>8, <1>12, <2>1, <2>2, <2>3, <2>4, FillCopies
  <2> QED
    BY <1>0, <1>12, <2>5 DEF Copies
<1> QED
  BY <1>7, <1>10, <1>11, <1>12

LEMMA LoadCopies ==
    ASSUME NEW a, WritesApart(a), TypeInv, CopiesNow(a), NEW u \in Client, NEW d \in Addr,
           Load(u, d)
    PROVE  Copies(a, rq', pq', mshr', wq', block')
<1> DEFINE c == Below[u]
           p == LoadPacket(u, d)
           l == rq[c]
           n == JoinRQ(c, l, p)
<1>0. /\ Paths(a, rq, pq, mshr) /\ PrivateWrites(a, wq) /\ PrivateBlocks(a, block)
      /\ OneCopy(block) /\ MissesAbsent(mshr, block) /\ WritesAlone(wq, rq, mshr)
  BY DEF CopiesNow, Copies
<1>1. /\ d \in LoadAddr[u] /\ pq' = pq /\ mshr' = mshr /\ wq' = wq /\ block' = block
      /\ rq' = rq \/ (~ InWQ(c, d) /\ rq' = [rq EXCEPT ![c] = n])
  BY DEF Load, LoadPacket
<1>2. p \in Packet /\ c \in Cache /\ FillLevel[c] \in Nat /\ u \in Node
  BY NewPacketsType, TopologyAssumption DEF Node
<1>3. /\ p.addr = d /\ p.type = "LOAD" /\ p.fill = FillLevel[c] /\ p.to_return = {u}
  BY DEF LoadPacket
<1>4. LineOf[d] \in a[u] /\ LineOf[d] \in a[c]
  BY <1>1, <1>2 DEF WritesApart
<1>5. ASSUME LineOf[d] \in WrittenLine
      PROVE  \A x \in Cache : ~ (Below[x] = c /\ LineOf[d] \in a[x])
  <2> SUFFICES ASSUME NEW x \in Cache, Below[x] = c, LineOf[d] \in a[x] PROVE FALSE
    OBVIOUS
  <2>1. x # u /\ x \in Node
    BY TopologyAssumption DEF Node
  <2> QED
    BY <1>2, <1>4, <1>5, <2>1 DEF WritesApart
<1>6. /\ DOMAIN rq = Cache /\ Queues(wq, WQ_SIZE, Packet)
      /\ l \in Seq(Packet) /\ \A i \in 1 .. Len(l) : PrivateRead(a, c, l[i])
  BY <1>0, <1>2 DEF TypeInv, Requests, Queues, Paths
<1> HIDE DEF c, p, l
<1>7. PrivateRead(a, c, p)
  BY <1>2, <1>3, <1>4, <1>5 DEF PrivateRead, Private, Keeps
<1>8. /\ \A i \in 1 .. Len(n) : PrivateRead(a, c, n[i])
      /\ \A k : Has(n, k) => Has(l, k) \/ k = LineOf[p.addr]
  <2>1. \A i \in 1 .. Len(l) : PrivateRead(a, c, l[i])
    BY <1>6
  <2>2. l \in Seq(Packet)
    BY <1>6
  <2> QED
    BY <1>2, <1>7, <2>1, <2>2, PrivateReadsJoined, ZenonT(60)
<1> HIDE DEF n
<1>9. CASE ~ InWQ(c, d) /\ rq' = [rq EXCEPT ![c] = n]
  <2>1. rq'[c] = n /\ \A b \in Cache : b # c => rq'[b] = rq[b]
    BY <1>2, <1>6, <1>9
  <2>2. Paths(a, rq', pq, mshr)
    BY <1>0, <1>8, <2>1 DEF Paths
  <2>3. ~ Back(wq[c], LineOf[d])
    BY <1>0, <1>2, <1>6, <1>9, NotInWQ
  <2>4. \A b \in Cache : \A k : Has(rq'[b], k) => Has(rq[b], k) \/ ~ Back(wq[b], k)
    BY <1>3, <1>8, <2>1, <2>3 DEF l
  <2>5. WritesAlone(wq, rq', mshr)
    BY <1>0, <2>4 DEF WritesAlone
  <2> QED
    BY <1>0, <1>1, <2>2, <2>5 DEF Copies
<1>10. CASE rq' = rq
  BY <1>0, <1>1, <1>10 DEF Copies
<1> QED
  BY <1>1, <1>9, <1>10

LEMMA StoreCopies ==
    ASSUME NEW a, WritesApart(a), TypeInv, CopiesNow(a), NEW u \in Client, NEW d \in Addr,
           Store(u, d)
    PROVE  Copies(a, rq', pq', mshr', wq', block')
<1> DEFINE c == Below[u]
           p == StorePacket(u, d)
<1>0. /\ Paths(a, rq, pq, mshr) /\ PrivateWrites(a, wq) /\ PrivateBlocks(a, block)
      /\ OneCopy(block) /\ MissesAbsent(mshr, block) /\ WritesAlone(wq, rq, mshr)
  BY DEF CopiesNow, Copies
<1>1. /\ d \in StoreAddr[u] /\ rq' = rq /\ pq' = pq /\ mshr' = mshr /\ block' = block
      /\ wq' = wq \/ wq' = [wq EXCEPT ![c] = Append(@, p)]
  BY DEF Store, StorePacket
<1>2. p \in Packet /\ c \in Cache /\ u \in Node
  BY NewPacketsType, TopologyAssumption DEF Node
<1>3. p.addr = d /\ p.type = "RFO"
  BY DEF StorePacket
<1>4. LineOf[d] \in WrittenLine /\ LineOf[d] \in a[c]
  BY <1>1, <1>2 DEF WrittenLine, WritesApart
<1>5. Queues(wq, WQ_SIZE, Packet)
  BY DEF TypeInv
<1> HIDE DEF c, p
<1>6. PrivateWrite(a, c, p)
  BY <1>3, <1>4 DEF PrivateWrite
<1>7. CASE wq' = [wq EXCEPT ![c] = Append(@, p)]
  <2> DEFINE n == wq'
  <2>1. OnlyList(wq, n, c, Append(wq[c], p))
    BY <1>2, <1>5, <1>7 DEF Queues, OnlyList
  <2> HIDE DEF n
  <2>2. /\ PrivateWrites(a, n)
        /\ \A b \in Cache : \A k : Back(n[b], k)
              => Back(wq[b], k) \/ (b = c /\ p.type = "WRITEBACK" /\ k = LineOf[p.addr])
    BY <1>0, <1>2, <1>5, <1>6, <2>1, PrivateWritesExtended
  <2>3. WritesAlone(n, rq, mshr)
    BY <1>0, <1>3, <2>2 DEF WritesAlone
  <2> QED
    BY <1>0, <1>1, <2>2, <2>3 DEF Copies, n
<1>8. CASE wq' = wq
  BY <1>0, <1>1, <1>8 DEF Copies
<1> QED
  BY <1>1, <1>7, <1>8

LEMMA PrefetchLineCopies ==
    ASSUME NEW a, WritesApart(a), TypeInv, CopiesNow(a), NEW c \in Cache, NEW d \in Addr,
           NEW f \in BOOLEAN, PrefetchLine(c, d, f)
    PROVE  Copies(a, rq', pq', mshr', wq', block')
<1> DEFINE p == PrefetchPacket(c, d, f)
<1>0. /\ Paths(a, rq, pq, mshr) /\ PrivateWrites(a, wq) /\ PrivateBlocks(a, block)
      /\ OneCopy(block) /\ MissesAbsent(mshr, block) /\ WritesAlone(wq, rq, mshr)
  BY DEF CopiesNow, Copies
<1>1. /\ AddPQ(c, p, rq, pq, mshr) /\ (f \/ Below[c] \in Cache) /\ d \in PrefetchAddr[c]
      /\ wq' = wq /\ block' = block
  BY DEF PrefetchLine, PrefetchPacket
<1>2. p \in Packet
  BY <1>1, NewPacketsType
<1>3. p.addr = d /\ p.type = "PREFETCH"
  BY DEF PrefetchPacket
<1> HIDE DEF p
<1>4. Unwritten(p)
  BY <1>1, <1>3 DEF Unwritten, WritesApart
<1>5. Requests(rq, pq, mshr, memRQ, pending)
  BY DEF TypeInv
<1>6. /\ Paths(a, rq', pq', mshr') /\ rq' = rq
      /\ \A b \in Cache : \A k : Has(mshr'[b], k) => Has(mshr[b], k)
  BY <1>0, <1>1, <1>2, <1>4, <1>5, AddPQPrivate
<1>7. MissesAbsent(mshr', block) /\ WritesAlone(wq, rq', mshr')
  BY <1>0, <1>6 DEF MissesAbsent, WritesAlone
<1> QED
  BY <1>0, <1>1, <1>6, <1>7 DEF Copies

LEMMA MemoryReadCopies ==
    ASSUME NEW a, TypeInv, CopiesNow(a), MemoryRead
    PROVE  Copies(a, rq', pq', mshr', wq', block')
<1>0. /\ Paths(a, rq, pq, mshr) /\ PrivateWrites(a, wq) /\ PrivateBlocks(a, block)
      /\ OneCopy(block) /\ MissesAbsent(mshr, block) /\ WritesAlone(wq, rq, mshr)
  BY DEF CopiesNow, Copies
<1>1. PICK p \in memRQ : /\ mshr' = Return(mshr, p)
                         /\ rq' = rq /\ pq' = pq /\ wq' = wq /\ block' = block
  BY DEF MemoryRead
<1>2. /\ Paths(a, rq, pq, Return(mshr, p))
      /\ \A d \in Cache : \A k : Has(Return(mshr, p)[d], k) => Has(mshr[d], k)
  BY <1>0, ReturnPaths DEF TypeInv, Requests
<1>3. MissesAbsent(mshr', block) /\ WritesAlone(wq, rq, mshr')
  BY <1>0, <1>1, <1>2 DEF MissesAbsent, WritesAlone
<1> QED
  BY <1>0, <1>1, <1>2, <1>3 DEF Copies

LEMMA CopiesInit ==
    ASSUME NEW a, Init
    PROVE  CopiesNow(a)
<1>1. /\ \A c \in Cache : rq[c] = <<>> /\ pq[c] = <<>> /\ mshr[c] = <<>> /\ wq[c] = <<>>
      /\ \A c \in Cache, s \in Sets : \A v \in 1 .. Ways[c] : block[c][s][v] = Invalid
  BY DEF Init
<1>2. Paths(a, rq, pq, mshr) /\ PrivateWrites(a, wq)
  BY <1>1 DEF Paths, PrivateWrites
<1>3. PrivateBlocks(a, block) /\ OneCopy(block)
  BY <1>1 DEF PrivateBlocks, PrivateBlock, OneCopy
<1>4. \A k : ~ Has(<<>>, k)
  BY DEF Has
<1>5. MissesAbsent(mshr, block) /\ WritesAlone(wq, rq, mshr)
  BY <1>1, <1>4 DEF MissesAbsent, WritesAlone
<1> QED
  BY <1>2, <1>3, <1>5 DEF CopiesNow, Copies

LEMMA CopiesStep ==
    ASSUME NEW a, WritesApart(a), CopyInv(a), [Next]_vars
    PROVE  Copies(a, rq', pq', mshr', wq', block')
<1> USE DEF CopyInv
<1>1. ASSUME NEW c \in Cache, HandleFill(c) PROVE Copies(a, rq', pq', mshr', wq', block')
  BY <1>1, FillStepCopies
<1>2. ASSUME NEW c \in Cache, HandleWriteback(c) PROVE Copies(a, rq', pq', mshr', wq', block')
  BY <1>2, WritebackCopies
<1>3. ASSUME NEW c \in Cache, HandleRead(c) PROVE Copies(a, rq', pq', mshr', wq', block')
  BY <1>3, ReadCopies
<1>4. ASSUME NEW c \in Cache, HandlePrefetch(c) PROVE Copies(a, rq', pq', mshr', wq', block')
  BY <1>4, PrefetchCopies
<1>5. CASE MemoryRead
  BY <1>5, MemoryReadCopies
<1>6. ASSUME NEW u \in Client, NEW d \in Addr, Load(u, d)
      PROVE  Copies(a, rq', pq', mshr', wq', block')
  BY <1>6, LoadCopies
<1>7. ASSUME NEW u \in Client, NEW d \in Addr, Store(u, d)
      PROVE  Copies(a, rq', pq', mshr', wq', block')
  BY <1>7, StoreCopies
<1>8. ASSUME NEW c \in Cache, NEW d \in Addr, NEW f \in BOOLEAN, PrefetchLine(c, d, f)
      PROVE  Copies(a, rq', pq', mshr', wq', block')
  BY <1>8, PrefetchLineCopies
<1>9. CASE MemoryWrite \/ FinishWarmup \/ UNCHANGED vars
  <2>1. UNCHANGED <<rq, pq, mshr, wq, block>>
    BY <1>9 DEF MemoryWrite, FinishWarmup, vars
  <2> QED
    BY <2>1 DEF CopiesNow
<1> QED
  BY <1>1, <1>2, <1>3, <1>4, <1>5, <1>6, <1>7, <1>8, <1>9 DEF Next, Operate

\* A line is in at most one way of its set, so that a hit finds the only copy.  The
\* hazard is handle_writeback, which allocates a block for a dirty line from above
\* without a look at the MSHRs: a read of the line that is in flight at that level fills
\* it a second time.  It never is in flight where each written line is asked for by one
\* node over each cache and is not prefetched (WritesApart): then every request for it
\* names the cache that the dirty line comes from, which has no MSHR for it.
THEOREM CacheOneCopyPerCache ==
    ASSUME NEW asks, WritesApart(asks)
    PROVE  Spec => []OneCopyPerCache
<1>1. CopyInv(asks) => OneCopyPerCache
  BY DEF CopyInv, CopiesNow, Copies, OneCopy, OneCopyPerCache, SameLine
<1>2. Init => CopyInv(asks)
  BY InitTypeInv, InitLedger, CopiesInit DEF CopyInv
<1>3. CopyInv(asks) /\ [Next]_vars => CopyInv(asks)'
  <2> SUFFICES ASSUME CopyInv(asks), [Next]_vars PROVE CopyInv(asks)'
    OBVIOUS
  <2>1. StoresAsked(asks)
    BY DEF StoresAsked, WritesApart
  <2>2. Writes(asks, wq)'
    BY <2>1, WritesStep DEF CopyInv, Writes, WriteFits
  <2>3. CopiesNow(asks)'
    <3>1. Copies(asks, rq', pq', mshr', wq', block')
      BY CopiesStep
    <3> QED
      BY <3>1 DEF CopiesNow, Copies, Paths, PrivateRead, Private, Unwritten, Keeps, PrivateWrites, PrivateWrite, PrivateBlocks, PrivateBlock, OneCopy, MissesAbsent, WritesAlone, Has, Back, Cached
  <2> QED
    BY <2>2, <2>3, NextTypeInv, LedgerStep DEF CopyInv
<1> QED
  BY <1>1, <1>2, <1>3, PTL DEF Spec
=============================================================================
