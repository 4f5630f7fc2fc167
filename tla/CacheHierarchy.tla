--------------------------- MODULE CacheHierarchy ---------------------------
(***************************************************************************)
(* A tree of CACHE objects (src/cache.cc) over one MEMORY_CONTROLLER       *)
(* channel: the read, write and prefetch queues, the MSHRs and the blocks, *)
(* and the answers that climb back through return_data().                  *)
(*                                                                         *)
(* Each action is one iteration of a handler's loop.  When a queue head is *)
(* ready and how many iterations a cycle allows is left open, so every     *)
(* latency, bandwidth and clock ratio of the simulator is included, and so *)
(* is the victim that a replacement policy picks.                          *)
(***************************************************************************)
EXTENDS Naturals, Sequences, FiniteSets

CONSTANTS
    Cache, Client, Memory,  \* the nodes; a client is a CacheBus or a walker
    Below,                  \* lower_level of every cache and client
    FillLevel,              \* fill_level of every cache, smaller is closer
    Addr, LineOf,           \* addresses, and address >> OFFSET_BITS
    Sets, SetOf,            \* the set of a cache a line belongs to
    Ways,                   \* NUM_WAY
    MSHR_SIZE, RQ_SIZE, WQ_SIZE, PQ_SIZE,
    MEM_RQ_SIZE, MEM_WQ_SIZE,
    MatchOffset,            \* caches with match_offset_bits
    PrefetchAsLoad,         \* caches with prefetch_as_load
    Bypassing,              \* caches whose policy may bypass (LLC_BYPASS)
    LoadAddr, StoreAddr,    \* what every client loads and stores
    PrefetchAddr,           \* what every cache's own prefetcher asks for
    MaxRequests             \* bound: requests the clients and prefetchers make

Line == {LineOf[a] : a \in Addr}
Type == {"LOAD", "RFO", "PREFETCH", "WRITEBACK"}
Node == Cache \cup Client

ASSUME TopologyAssumption ==
    /\ Memory \notin Cache \cup Client /\ Cache \cap Client = {}
    /\ Below \in [Cache \cup Client -> Cache \cup {Memory}]
    /\ \A u \in Client : Below[u] \in Cache
    /\ FillLevel \in [Cache -> Nat]
    /\ \A c \in Cache : Below[c] \in Cache => FillLevel[c] < FillLevel[Below[c]]
    \* Only the caches the clients reach match whole addresses.
    /\ \A c \in Cache : Below[c] \notin MatchOffset

ASSUME SizeAssumption ==
    /\ {Ways, MSHR_SIZE, RQ_SIZE, WQ_SIZE, PQ_SIZE} \subseteq [Cache -> Nat \ {0}]
    /\ {MEM_RQ_SIZE, MEM_WQ_SIZE, MaxRequests} \subseteq Nat \ {0}

ASSUME AddressAssumption ==
    /\ SetOf \in [Cache -> [Line -> Sets]]
    /\ {LoadAddr, StoreAddr} \subseteq [Client -> SUBSET Addr]
    /\ PrefetchAddr \in [Cache -> SUBSET Addr]

\* asks[x] bounds the lines that node x asks for, prefetches[c] those that a cache
\* prefetches or passes a prefetch on for.  Below one cache, no node asks for what
\* another prefetches: a read that meets the prefetch of another node in flight drops
\* that node's answer (*mshr_entry = handle_pkt in CACHE::readlike_miss).
PrefetchesApart(asks, prefetches) ==
    /\ \A u \in Client : \A a \in LoadAddr[u] \cup StoreAddr[u] : LineOf[a] \in asks[u]
    /\ \A c \in Cache : \A a \in PrefetchAddr[c] : LineOf[a] \in prefetches[c]
    /\ \A c \in Cache : prefetches[c] \subseteq asks[c]
    /\ \A x \in Node : Below[x] \in Cache => asks[x] \subseteq asks[Below[x]]
    /\ \A c \in Cache : Below[c] \in Cache => prefetches[c] \subseteq prefetches[Below[c]]
    /\ \A c \in Cache, y \in Node :
          c # y /\ Below[c] = Below[y] /\ Below[c] \in Cache => prefetches[c] \cap asks[y] = {}

WrittenLine == {LineOf[a] : a \in UNION {StoreAddr[u] : u \in Client}}

\* Of the nodes above one cache at most one asks for a line that is written, and no
\* cache prefetches such a line: a request that does not name the cache a dirty line
\* comes from may be in flight when that line is written back (CACHE::handle_writeback).
WritesApart(asks) ==
    /\ \A u \in Client : \A a \in LoadAddr[u] \cup StoreAddr[u] : LineOf[a] \in asks[u]
    /\ \A c \in Cache : \A a \in PrefetchAddr[c] : LineOf[a] \notin WrittenLine
    /\ \A x \in Node : Below[x] \in Cache => asks[x] \subseteq asks[Below[x]]
    /\ \A x, y \in Node :
          x # y /\ Below[x] = Below[y] /\ Below[x] \in Cache
            => asks[x] \cap asks[y] \cap WrittenLine = {}

VARIABLES
    rq, wq, pq,        \* RQ, WQ, PQ of every cache, oldest first
    mshr,              \* MSHR of every cache, `returned` for event_cycle
    block,             \* block[c][s][w]: a valid block or Invalid
    memRQ, memWQ,      \* the memory's queues, served in any order
    fastForward,       \* all_warmup_complete < NUM_CPUS
    pending,           \* the loads every client waits for
    requests           \* how many requests were made

vars == <<rq, wq, pq, mshr, block, memRQ, memWQ, fastForward, pending, requests>>

Invalid == [addr |-> "none", dirty |-> FALSE]

\* A PACKET, as far as the handlers tell packets apart; deps stands for the
\* lists of load queue, store queue and instruction entries that depend on it.
Packet == [addr : Addr, type : Type, fill : Nat,
           to_return : SUBSET Node, deps : SUBSET Addr]

Init ==
    /\ rq = [c \in Cache |-> <<>>]
    /\ wq = [c \in Cache |-> <<>>]
    /\ pq = [c \in Cache |-> <<>>]
    /\ mshr = [c \in Cache |-> <<>>]
    /\ block = [c \in Cache |-> [s \in Sets |-> [w \in 1 .. Ways[c] |-> Invalid]]]
    /\ memRQ = {} /\ memWQ = {}
    /\ fastForward = TRUE
    /\ pending = [u \in Client |-> {}]
    /\ requests = 0

-----------------------------------------------------------------------------
\* eq_addr, and the first entry of a queue it finds (0 when there is none).
SameLine(a, b) == LineOf[a] = LineOf[b]

Find(q, a) ==
    LET found == {i \in DOMAIN q : SameLine(q[i].addr, a)}
    IN  IF found = {} THEN 0 ELSE CHOOSE i \in found : \A j \in found : i <= j

\* Mutant: every cache matches whole addresses.
InWQWholeAddress(c, a) == \E i \in DOMAIN wq[c] : wq[c][i].addr = a

InWQ(c, a) ==
    \E i \in DOMAIN wq[c] : IF c \in MatchOffset THEN wq[c][i].addr = a
                                                ELSE SameLine(wq[c][i].addr, a)

Lower(x, y) == IF x < y THEN x ELSE y

\* Mutants: only one kind of list is merged.
MergeAnswersOnly(e, p)    == [e EXCEPT !.to_return = @ \cup p.to_return]
MergeDependentsOnly(e, p) == [e EXCEPT !.deps = @ \cup p.deps]

\* packet_dep_merge of the lists of answers and of dependents.
Merge(e, p) == [e EXCEPT !.to_return = @ \cup p.to_return, !.deps = @ \cup p.deps]

ReplaceAt(q, i, e) == [j \in DOMAIN q |-> IF j = i THEN e ELSE q[j]]

\* Mutant: the returned entry keeps its place.
MarkReturnedInPlace(q, a) ==
    LET i == Find(q, a)
    IN  IF i = 0 THEN q ELSE ReplaceAt(q, i, [q[i] EXCEPT !.returned = TRUE])

\* CACHE::return_data on one list of MSHRs: the entry becomes returned and takes
\* the place of the first unreturned one.
MarkReturned(q, a) ==
    LET i == Find(q, a)
        unreturned == {j \in DOMAIN q : ~ q[j].returned}
        first == CHOOSE j \in unreturned : \A k \in unreturned : j <= k
        entry == [q[i] EXCEPT !.returned = TRUE]
    IN  IF i = 0 \/ unreturned = {} THEN q   \* assert(0), never reached
        ELSE ReplaceAt(ReplaceAt(q, i, q[first]), first, entry)

\* ret->return_data(packet) for every ret in to_return.
Return(m, p) ==
    [c \in Cache |-> IF c \in p.to_return THEN MarkReturned(m[c], p.addr) ELSE m[c]]
Answer(p) ==
    [u \in Client |-> IF u \in p.to_return THEN pending[u] \ p.deps ELSE pending[u]]

-----------------------------------------------------------------------------
\* The queues a packet is sent to.  r, q and m are the read queues, prefetch
\* queues and MSHRs as the caller leaves them.
JoinRQ(c, q, p) ==
    LET i == Find(q, p.addr)
    IN  IF i # 0 THEN ReplaceAt(q, i, Merge(q[i], p))
        ELSE IF Len(q) < RQ_SIZE[c] THEN Append(q, p)
        ELSE q   \* -2, the packet is refused

JoinPQ(c, q, p) ==
    LET i == Find(q, p.addr)
    IN  IF i # 0 THEN ReplaceAt(q, i, [Merge(q[i], p) EXCEPT !.fill = Lower(@, p.fill)])
        ELSE IF Len(q) < PQ_SIZE[c] THEN Append(q, p)
        ELSE q

Forward(p, r, q, m) ==
    /\ rq' = r /\ pq' = q
    /\ mshr' = Return(m, p)
    /\ pending' = Answer(p)
    /\ UNCHANGED memRQ

AddRQ(c, p, r, q, m) ==
    IF InWQ(c, p.addr) THEN Forward(p, r, q, m)
    ELSE /\ rq' = [r EXCEPT ![c] = JoinRQ(c, @, p)]
         /\ pq' = q /\ mshr' = m
         /\ UNCHANGED <<memRQ, pending>>

AddPQ(c, p, r, q, m) ==
    IF InWQ(c, p.addr) THEN Forward(p, r, q, m)
    ELSE /\ pq' = [q EXCEPT ![c] = JoinPQ(c, @, p)]
         /\ rq' = r /\ mshr' = m
         /\ UNCHANGED <<memRQ, pending>>

\* MEMORY_CONTROLLER::add_rq, which add_pq calls too.
JoinMemRQ(p) ==
    LET same == {e \in memRQ : SameLine(e.addr, p.addr)}
    IN  IF same # {} THEN (memRQ \ same) \cup {Merge(e, p) : e \in same}
        ELSE IF Cardinality(memRQ) < MEM_RQ_SIZE THEN memRQ \cup {p}
        ELSE memRQ

MemoryAdd(p, r, q, m) ==
    IF fastForward \/ LineOf[p.addr] \in memWQ THEN Forward(p, r, q, m)
    ELSE /\ memRQ' = JoinMemRQ(p)
         /\ rq' = r /\ pq' = q /\ mshr' = m
         /\ UNCHANGED pending

\* Mutant: ask below without looking at its occupancy.
FullBelowNever(c, isRead) == FALSE

\* get_occupancy() == get_size() of the queue below.
FullBelow(c, isRead) ==
    LET b == Below[c]
    IN  IF b = Memory THEN Cardinality(memRQ) = MEM_RQ_SIZE
        ELSE IF isRead THEN Len(rq[b]) = RQ_SIZE[b]
        ELSE Len(pq[b]) = PQ_SIZE[b]

\* Mutant: the victim is overwritten even when the queue below is full.
WriteBelowOrDrop(c, a, w) ==
    LET b == Below[c]
        p == [addr |-> a, type |-> "WRITEBACK", fill |-> 0, to_return |-> {}, deps |-> {}]
    IN  IF b = Memory
        THEN /\ memWQ' = IF Cardinality(memWQ) < MEM_WQ_SIZE THEN memWQ \cup {LineOf[a]}
                                                            ELSE memWQ
             /\ wq' = w
        ELSE /\ wq' = IF Len(wq[b]) < WQ_SIZE[b] THEN [w EXCEPT ![b] = Append(@, p)] ELSE w
             /\ UNCHANGED memWQ

\* add_wq of the level below for an evicted line; disabled when it is full.
WriteBelow(c, a, w) ==
    LET b == Below[c]
        p == [addr |-> a, type |-> "WRITEBACK", fill |-> FillLevel[b],
              to_return |-> {}, deps |-> {}]
    IN  IF b = Memory
        THEN /\ fastForward \/ LineOf[a] \in memWQ \/ Cardinality(memWQ) < MEM_WQ_SIZE
             /\ memWQ' = IF fastForward THEN memWQ ELSE memWQ \cup {LineOf[a]}
             /\ wq' = w
        ELSE /\ IF InWQ(b, a) THEN wq' = w
                ELSE Len(wq[b]) < WQ_SIZE[b] /\ wq' = [w EXCEPT ![b] = Append(@, p)]
             /\ UNCHANGED memWQ

-----------------------------------------------------------------------------
\* CACHE::get_way, and whether the line is in its set at all.
WaysHolding(c, a) ==
    {w \in 1 .. Ways[c] : LET b == block[c][SetOf[c][LineOf[a]]][w]
                       IN  b # Invalid /\ SameLine(b.addr, a)}
Hits(c, a) == WaysHolding(c, a) # {}
FirstWay(W) == CHOOSE w \in W : \A v \in W : w <= v

\* Mutant: a demand only changes the type of the prefetch in flight.
CombineTypeOnly(e, p) ==
    IF e.type = "PREFETCH" /\ p.type # "PREFETCH" THEN [e EXCEPT !.type = p.type]
    ELSE [Merge(e, p) EXCEPT !.fill = Lower(@, p.fill)]

\* What a miss adds to the MSHR entry that is already in flight.
Combine(e, p) ==
    IF e.type = "PREFETCH" /\ p.type # "PREFETCH"
    THEN [addr |-> p.addr, type |-> p.type, fill |-> p.fill, to_return |-> p.to_return,
          deps |-> p.deps, returned |-> e.returned]
    ELSE [Merge(e, p) EXCEPT !.fill = Lower(@, p.fill)]

Entry(p) == [addr |-> p.addr, type |-> p.type, fill |-> p.fill,
             to_return |-> p.to_return, deps |-> p.deps, returned |-> FALSE]

\* Mutant: allocate past the last MSHR.
MSHRFullNever(c) == FALSE

MSHRFull(c) == Len(mshr[c]) = MSHR_SIZE[c]

\* readlike_miss: join the entry in flight, or allocate one and ask below.
JoinMSHR(c, p, r, q) ==
    /\ Find(mshr[c], p.addr) # 0
    /\ LET i == Find(mshr[c], p.addr)
       IN  mshr' = [mshr EXCEPT ![c] = ReplaceAt(@, i, Combine(@[i], p))]
    /\ rq' = r /\ pq' = q
    /\ UNCHANGED <<memRQ, pending>>

AskBelow(c, p, r, q) ==
    LET isRead == c \in PrefetchAsLoad \/ p.type # "PREFETCH"
        keeps  == p.fill <= FillLevel[c]
        m      == IF keeps THEN [mshr EXCEPT ![c] = Append(@, Entry(p))] ELSE mshr
        asked  == [p EXCEPT !.to_return = IF keeps THEN {c} ELSE {}, !.deps = {}]
    IN  /\ Find(mshr[c], p.addr) = 0
        /\ ~ MSHRFull(c)
        /\ ~ FullBelow(c, isRead)
        /\ IF Below[c] = Memory THEN MemoryAdd(asked, r, q, m)
           ELSE IF isRead THEN AddRQ(Below[c], asked, r, q, m)
           ELSE AddPQ(Below[c], asked, r, q, m)

ReadlikeMiss(c, p, r, q) == JoinMSHR(c, p, r, q) \/ AskBelow(c, p, r, q)

\* filllike_miss: into the first invalid way, else over a victim whose dirty
\* line must be accepted below, else past the cache where the policy bypasses.
FilllikeMiss(c, p, w) ==
    LET s       == SetOf[c][LineOf[p.addr]]
        invalid == {v \in 1 .. Ways[c] : block[c][s][v] = Invalid}
        filled  == [addr  |-> p.addr,
                    dirty |-> p.type = "WRITEBACK" \/ (p.type = "RFO" /\ p.to_return = {})]
    IN  \/ \E v \in IF invalid # {} THEN {FirstWay(invalid)} ELSE 1 .. Ways[c] :
              /\ block' = [block EXCEPT ![c][s][v] = filled]
              /\ IF block[c][s][v].dirty THEN WriteBelow(c, block[c][s][v].addr, w)
                                         ELSE wq' = w /\ UNCHANGED memWQ
        \/ /\ invalid = {} /\ c \in Bypassing /\ p.type # "WRITEBACK"
           /\ wq' = w
           /\ UNCHANGED <<block, memWQ>>

-----------------------------------------------------------------------------
\* One iteration of CACHE::handle_fill, handle_writeback, handle_read and
\* handle_prefetch.
HandleFill(c) ==
    /\ mshr[c] # <<>>
    /\ LET e == Head(mshr[c])
       IN  /\ e.returned
           /\ FilllikeMiss(c, e, wq)
           /\ mshr' = [Return(mshr, e) EXCEPT ![c] = Tail(mshr[c])]
           /\ pending' = Answer(e)
    /\ UNCHANGED <<rq, pq, memRQ, fastForward, requests>>

HandleWriteback(c) ==
    /\ wq[c] # <<>>
    /\ LET p == Head(wq[c])
           w == [wq EXCEPT ![c] = Tail(@)]
           s == SetOf[c][LineOf[p.addr]]
       IN  \/ /\ Hits(c, p.addr)
              /\ block' = [block EXCEPT ![c][s][FirstWay(WaysHolding(c, p.addr))].dirty = TRUE]
              /\ wq' = w
              /\ UNCHANGED <<rq, pq, mshr, memRQ, memWQ, pending>>
           \/ /\ ~ Hits(c, p.addr) /\ p.type = "RFO" /\ p.to_return = {}
              /\ ReadlikeMiss(c, p, rq, pq)
              /\ wq' = w
              /\ UNCHANGED <<block, memWQ>>
           \/ /\ ~ Hits(c, p.addr) /\ ~ (p.type = "RFO" /\ p.to_return = {})
              /\ FilllikeMiss(c, p, w)
              /\ UNCHANGED <<rq, pq, mshr, memRQ, pending>>
    /\ UNCHANGED <<fastForward, requests>>

ReadlikeHit(p, r, q) ==
    /\ rq' = r /\ pq' = q
    /\ mshr' = Return(mshr, p)
    /\ pending' = Answer(p)
    /\ UNCHANGED memRQ

HandleRead(c) ==
    /\ rq[c] # <<>>
    /\ LET p == Head(rq[c])
           r == [rq EXCEPT ![c] = Tail(@)]
       IN  IF Hits(c, p.addr) THEN ReadlikeHit(p, r, pq) ELSE ReadlikeMiss(c, p, r, pq)
    /\ UNCHANGED <<wq, block, memWQ, fastForward, requests>>

HandlePrefetch(c) ==
    /\ pq[c] # <<>>
    /\ LET p == Head(pq[c])
           q == [pq EXCEPT ![c] = Tail(@)]
       IN  IF Hits(c, p.addr) THEN ReadlikeHit(p, rq, q) ELSE ReadlikeMiss(c, p, rq, q)
    /\ UNCHANGED <<wq, block, memWQ, fastForward, requests>>

-----------------------------------------------------------------------------
\* The surroundings: what is asked of the caches, and the memory below them.
Asked == requests < MaxRequests /\ requests' = requests + 1

\* O3_CPU::execute_load or PageTableWalker: a load; it keeps what it asked when
\* the queue is full and asks again.
Load(u, a) ==
    /\ Asked
    /\ a \in LoadAddr[u] \ pending[u]
    /\ LET c == Below[u]
           p == [addr |-> a, type |-> "LOAD", fill |-> FillLevel[c],
                 to_return |-> {u}, deps |-> {a}]
       IN  \/ /\ InWQ(c, a)
              /\ UNCHANGED <<rq, pending>>
           \/ /\ ~ InWQ(c, a)
              /\ Find(rq[c], a) = 0 => Len(rq[c]) < RQ_SIZE[c]
              /\ rq' = [rq EXCEPT ![c] = JoinRQ(c, @, p)]
              /\ pending' = [pending EXCEPT ![u] = @ \cup {a}]
    /\ UNCHANGED <<wq, pq, mshr, block, memRQ, memWQ, fastForward>>

\* O3_CPU::retire_rob: a store leaves the core as an RFO nobody waits for.
Store(u, a) ==
    /\ Asked
    /\ a \in StoreAddr[u]
    /\ LET c == Below[u]
           p == [addr |-> a, type |-> "RFO", fill |-> FillLevel[c],
                 to_return |-> {}, deps |-> {}]
       IN  IF InWQ(c, a) THEN UNCHANGED wq
           ELSE Len(wq[c]) < WQ_SIZE[c] /\ wq' = [wq EXCEPT ![c] = Append(@, p)]
    /\ UNCHANGED <<rq, pq, mshr, block, memRQ, memWQ, fastForward, pending>>

\* CACHE::prefetch_line for a cache without virtual_prefetch.
PrefetchLine(c, a, fillThisLevel) ==
    /\ Asked
    /\ a \in PrefetchAddr[c]
    /\ fillThisLevel \/ Below[c] \in Cache   \* else a read nobody waits for
    /\ LET p == [addr |-> a, type |-> "PREFETCH",
                 fill |-> IF fillThisLevel THEN FillLevel[c] ELSE FillLevel[Below[c]],
                 to_return |-> {}, deps |-> {}]
       IN  AddPQ(c, p, rq, pq, mshr)
    /\ UNCHANGED <<wq, block, memWQ, fastForward>>

\* MEMORY_CONTROLLER::operate finishes a read or a write.
MemoryRead ==
    \E p \in memRQ :
        /\ memRQ' = memRQ \ {p}
        /\ mshr' = Return(mshr, p)
        /\ UNCHANGED <<rq, wq, pq, block, memWQ, fastForward, pending, requests>>

MemoryWrite ==
    \E l \in memWQ :
        /\ memWQ' = memWQ \ {l}
        /\ UNCHANGED <<rq, wq, pq, mshr, block, memRQ, fastForward, pending, requests>>

\* all_warmup_complete reaches NUM_CPUS.
FinishWarmup ==
    /\ fastForward
    /\ fastForward' = FALSE
    /\ UNCHANGED <<rq, wq, pq, mshr, block, memRQ, memWQ, pending, requests>>

\* What the simulated cycles do by themselves.
Operate ==
    \/ \E c \in Cache : \/ HandleFill(c)
                        \/ HandleWriteback(c)
                        \/ HandleRead(c)
                        \/ HandlePrefetch(c)
    \/ MemoryRead
    \/ MemoryWrite

Next ==
    \/ Operate
    \/ \E u \in Client, a \in Addr : Load(u, a) \/ Store(u, a)
    \/ \E c \in Cache, a \in Addr, f \in BOOLEAN : PrefetchLine(c, a, f)
    \/ FinishWarmup

Spec == Init /\ [][Next]_vars

\* The main loop of the simulator operates every cache and the memory in every
\* cycle: while some handler can move, one does.  Nothing makes a client ask.
Fairness == WF_vars(Operate)

FairSpec == Spec /\ Fairness

-----------------------------------------------------------------------------
TypeOK ==
    /\ rq \in [Cache -> Seq(Packet)]
    /\ wq \in [Cache -> Seq(Packet)]
    /\ pq \in [Cache -> Seq(Packet)]
    /\ mshr \in [Cache -> Seq([addr : Addr, type : Type, fill : Nat, returned : BOOLEAN,
                               to_return : SUBSET Node, deps : SUBSET Addr])]
    /\ \A c \in Cache, s \in Sets :
          block[c][s] \in [1 .. Ways[c] -> [addr : Addr, dirty : BOOLEAN] \cup {Invalid}]
    /\ memRQ \subseteq Packet /\ memWQ \subseteq Line
    /\ fastForward \in BOOLEAN
    /\ pending \in [Client -> SUBSET Addr]
    /\ requests \in 0 .. MaxRequests
    /\ \A c \in Cache : /\ Len(rq[c]) <= RQ_SIZE[c]
                        /\ Len(wq[c]) <= WQ_SIZE[c]
                        /\ Len(pq[c]) <= PQ_SIZE[c]
                        /\ Len(mshr[c]) <= MSHR_SIZE[c]
    /\ Cardinality(memRQ) <= MEM_RQ_SIZE /\ Cardinality(memWQ) <= MEM_WQ_SIZE

\* handle_fill looks at the first MSHR only, so a returned entry must never
\* stand behind one that still waits (the iter_swap in return_data).
ReturnedFirst ==
    \A c \in Cache : \A i, j \in DOMAIN mshr[c] :
        i < j /\ mshr[c][j].returned => mshr[c][i].returned

\* The packets on their way that will answer node x about line l, and those
\* among them that a client's load of address a depends on.
Carriers(x, l) ==
    LET names(p) == x \in p.to_return /\ LineOf[p.addr] = l
        b == Below[x]
    IN  IF b = Memory THEN {<<"mem", p>> : p \in {p \in memRQ : names(p)}}
        ELSE {<<"rq", i>>   : i \in {i \in DOMAIN rq[b]   : names(rq[b][i])}} \cup
             {<<"pq", i>>   : i \in {i \in DOMAIN pq[b]   : names(pq[b][i])}} \cup
             {<<"mshr", i>> : i \in {i \in DOMAIN mshr[b] : names(mshr[b][i])}}

DependentOn(u, a) ==
    LET b == Below[u]
        names(p) == u \in p.to_return /\ a \in p.deps
    IN  {<<"rq", i>>   : i \in {i \in DOMAIN rq[b]   : names(rq[b][i])}} \cup
        {<<"mshr", i>> : i \in {i \in DOMAIN mshr[b] : names(mshr[b][i])}}

\* Every MSHR that waits is answered exactly once: one packet below carries the
\* cache's name for each unreturned entry, none for a returned or absent one.
\* (An absent entry is the assert(0) of return_data, a lost name a miss that
\* never ends.)
MissCarriedOnce ==
    \A c \in Cache, l \in Line :
        Cardinality(Carriers(c, l)) =
            Cardinality({i \in DOMAIN mshr[c] :
                            LineOf[mshr[c][i].addr] = l /\ ~ mshr[c][i].returned})

\* The same for a client's loads, through every merge of dependents.
LoadCarriedOnce ==
    \A u \in Client, a \in Addr :
        Cardinality(DependentOn(u, a)) = IF a \in pending[u] THEN 1 ELSE 0

\* A line is in at most one way of its set: a hit finds the only copy.
OneCopyPerCache ==
    \A c \in Cache, s \in Sets : \A v, w \in 1 .. Ways[c] :
        /\ v # w
        /\ block[c][s][v] # Invalid /\ block[c][s][w] # Invalid
        => ~ SameLine(block[c][s][v].addr, block[c][s][w].addr)

\* A dirty line, in a cache or on its way down.
DirtyCopy(l) ==
    \/ \E c \in Cache, s \in Sets : \E w \in 1 .. Ways[c] :
          LET b == block[c][s][w] IN b # Invalid /\ b.dirty /\ LineOf[b.addr] = l
    \/ \E c \in Cache : \E i \in DOMAIN wq[c] :
          wq[c][i].type = "WRITEBACK" /\ LineOf[wq[c][i].addr] = l

\* A store that was accepted and has not reached its block yet.
StoreInFlight(l) ==
    \/ \E c \in Cache : \E i \in DOMAIN wq[c] :
          wq[c][i].type = "RFO" /\ LineOf[wq[c][i].addr] = l
    \/ \E c \in Cache : \E i \in DOMAIN mshr[c] :
          /\ mshr[c][i].type = "RFO" /\ mshr[c][i].to_return = {}
          /\ LineOf[mshr[c][i].addr] = l

MemoryTakes(l) == fastForward \/ l \in memWQ'

\* No step loses the last dirty copy of a line unless the memory takes it.
DirtyNotDropped ==
    [][ \A l \in Line : DirtyCopy(l) => DirtyCopy(l)' \/ MemoryTakes(l) ]_vars

\* An accepted store ends in a dirty block: no step forgets it on the way.
StoreNotForgotten ==
    [][ \A l \in Line : DirtyCopy(l) \/ StoreInFlight(l)
            => DirtyCopy(l)' \/ StoreInFlight(l)' \/ MemoryTakes(l) ]_vars

\* Every load a client made is answered.
LoadsAnswered ==
    \A u \in Client, a \in Addr : (a \in pending[u]) ~> (a \notin pending[u])
=============================================================================
