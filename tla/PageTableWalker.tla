--------------------------- MODULE PageTableWalker ---------------------------
(***************************************************************************)
(* PageTableWalker (src/ptw.cc) between the second-level TLB that asks it  *)
(* for translations and the first-level cache it reads page tables from.   *)
(*                                                                         *)
(* event_cycle is kept as far as it decides something: an entry waits for  *)
(* an answer, waits out a fault's penalty, or is due; the list is sorted   *)
(* by it.  When the head of the RQ is ready, when a penalty ends and when  *)
(* the cache answers or refuses is left open.                              *)
(***************************************************************************)
EXTENDS VirtualMemory, FiniteSets, Bags

CONSTANTS
    MSHR_SIZE, RQ_SIZE,
    PSCLSets, PSCLWays, \* NUM_SET and NUM_WAY of PSCL2, 3, 4 and 5, whose levels are 1 to 4
    BLOCK_SIZE,
    DataWrites,     \* stores to data pages may wait in the WQ of the cache below
    MaxRequests     \* bound: translations asked for

PSCLLevel == 1 .. 4

ASSUME WalkerAssumption ==
    /\ {MSHR_SIZE, RQ_SIZE, BLOCK_SIZE, MaxRequests} \subseteq Nat \ {0}
    /\ {PSCLSets, PSCLWays} \subseteq [PSCLLevel -> Nat \ {0}]
    /\ DataWrites \in BOOLEAN
    \* The first tables take their pages in the constructor.
    /\ \A f \in FreeLists : Len(f) >= 2

VARIABLES
    RQ,        \* the virtual pages to translate, oldest first
    MSHR,      \* the walks, sorted by event_cycle
    pscl,      \* pscl[l][s][w]: the block_t of the paging structure cache of level l
    CR3_addr,
    asked,     \* the cache below: the bag of blocks it owes an answer for
    warm,      \* warmup_complete
    pending,   \* the virtual pages the TLB above waits for
    requests

vars == <<vmVars, RQ, MSHR, pscl, CR3_addr, asked, warm, pending, requests>>

\* event_cycle of a walk: the maximum, in the future, or not later than now.
State == {"asked", "penalty", "due"}

InitialLru == 2147483647
Unused == [valid |-> FALSE, v |-> 0, data |-> 0, lru |-> InitialLru]

Init ==
    /\ \E f \in FreeLists :
          LET next == Head(f) + page_size
              pop  == next % PAGE_SIZE # 0
          IN  /\ CR3_addr = Head(f)   \* get_pte_pa(cpu, 0, pt_levels) of the constructor
              /\ page_table = Insert(<<>>, TableKey(0, pt_levels), Head(f))
              /\ next_pte_page = IF pop THEN f[2] ELSE next
              /\ ppage_free_list = IF pop THEN Tail(Tail(f)) ELSE Tail(f)
    /\ vpage_to_ppage_map = <<>>
    /\ RQ = <<>> /\ MSHR = <<>>
    /\ pscl = [l \in PSCLLevel |->
                  [s \in 0 .. PSCLSets[l] - 1 |-> [w \in 1 .. PSCLWays[l] |-> Unused]]]
    /\ asked = EmptyBag
    /\ warm = FALSE
    /\ pending = {}
    /\ requests = 0

-----------------------------------------------------------------------------
\* PagingStructureCache: check_hit and fill_cache.
SetIdx(l, v) == Above(v, l + 1) % PSCLSets[l]

HitWays(l, v) ==
    {w \in 1 .. PSCLWays[l] : LET b == pscl[l][SetIdx(l, v)][w]
                              IN  b.valid /\ Above(b.v, l + 1) = Above(v, l + 1)}

First(S) == CHOOSE x \in S : \A y \in S : x <= y
Last(S)  == CHOOSE x \in S : \A y \in S : x >= y

\* splice_bits(table, offset, LOG2_PAGE_SIZE)
InPage(table, offset) == (table \div PAGE_SIZE) * PAGE_SIZE + (offset % PAGE_SIZE)

\* std::max_element with lru_comparator: the last unused entry, else the first of
\* the greatest lru; then lru_updater on the whole set.
FillCache(p, l, addr, v) ==
    LET s      == SetIdx(l, v)
        ways   == 1 .. PSCLWays[l]
        unused == {w \in ways : ~ p[l][s][w].valid}
        oldest == {w \in ways : \A x \in ways : p[l][s][x].lru <= p[l][s][w].lru}
        fill   == IF unused # {} THEN Last(unused) ELSE First(oldest)
        val    == p[l][s][fill].lru
        block  == [p[l][s] EXCEPT ![fill] = [valid |-> TRUE, v |-> v, data |-> addr, lru |-> val]]
    IN  [p EXCEPT ![l][s] =
            [w \in ways |-> [block[w] EXCEPT !.lru = IF @ = val THEN 0 ELSE @ + 1]]]

\* Mutant: a cache is filled with the entry that was just read.
FillCachesLate(level, addr, v) ==
    IF level \in {0, 2, 3} THEN FillCache(pscl, level + 1, addr, v) ELSE pscl

\* What handle_fill puts in the paging structure caches at a level; that of
\* level 2 is filled together with that of level 1.
FillCaches(level, addr, v) ==
    IF level = 1 THEN FillCache(FillCache(pscl, 2, addr, v), 1, addr, v)
    ELSE IF level \in {3, 4} THEN FillCache(pscl, level, addr, v)
    ELSE pscl

\* Where a walk starts: below the lowest table that is known, or at CR3.
Start(v) ==
    LET hits == {l \in PSCLLevel : HitWays(l, v) # {}}
        l    == First(hits)
        read(table, k) == InPage(table, get_offset(v, k) * PTE_BYTES)
    IN  IF hits = {}
        THEN [addr |-> read(CR3_addr, pt_levels - 1), level |-> pt_levels - 1]
        ELSE [addr |-> read(pscl[l][SetIdx(l, v)][First(HitWays(l, v))].data, l), level |-> l - 1]

-----------------------------------------------------------------------------
\* The walks of m at the places in I, in their order.
Those(m, I) ==
    LET upTo[i \in 0 .. Len(m)] ==
            IF i = 0 THEN <<>> ELSE IF i \in I THEN Append(upTo[i - 1], m[i]) ELSE upTo[i - 1]
    IN  upTo[Len(m)]

\* return_data: every walk that waits in the block becomes due, and the list is
\* sorted.
BlockOf(a) == a \div BLOCK_SIZE

\* Mutant: the list keeps its order.
WakeInPlace(m, b) ==
    [i \in DOMAIN m |-> IF BlockOf(m[i].addr) = b THEN [m[i] EXCEPT !.state = "due"] ELSE m[i]]

\* Mutant: only the first walk of the block becomes due.
WakeOne(m, b) ==
    LET woken == {i \in DOMAIN m : BlockOf(m[i].addr) = b}
        i == First(woken)
    IN  IF woken = {} THEN m
        ELSE <<[m[i] EXCEPT !.state = "due"]>> \o Those(m, DOMAIN m \ {i})

Wake(m, b) ==
    LET woken == {i \in DOMAIN m : BlockOf(m[i].addr) = b}
        rest(state) == Those(m, {i \in DOMAIN m \ woken : m[i].state = state})
        due == Those(m, woken)
    IN  rest("due") \o [i \in DOMAIN due |-> [due[i] EXCEPT !.state = "due"]]
            \o rest("penalty") \o rest("asked")

\* lower_level->add_rq(addr): a store of the same address that waits in the WQ
\* answers at once; else the read joins one of the same block or is one more.
Forwards(addr) ==
    DataWrites /\ \E v \in DOMAIN vpage_to_ppage_map : Frame(vpage_to_ppage_map[v]) = Frame(addr)

\* Mutant: a refused read is taken for an accepted one.
AskInVain(addr) ==
    \/ BagIn(BlockOf(addr), asked) /\ UNCHANGED asked
    \/ asked' = asked (+) SetToBag({BlockOf(addr)}) \/ UNCHANGED asked

Ask(addr) ==
    \/ /\ BagIn(BlockOf(addr), asked) => asked[BlockOf(addr)] <= 1
       /\ asked' = asked (+) SetToBag({BlockOf(addr)})
    \/ BagIn(BlockOf(addr), asked) /\ UNCHANGED asked

\* Mutant: there is always room for a walk.
MSHRFullNever == FALSE

MSHRFull == Len(MSHR) = MSHR_SIZE

\* One iteration of handle_read; refused below, it changes nothing.
HandleRead ==
    /\ RQ # <<>> /\ ~ MSHRFull
    /\ LET v == Head(RQ)
           addr == Start(v).addr
           walk(f) == [v |-> v, addr |-> addr, level |-> Start(v).level, state |-> "asked",
                       forwarded |-> f]
       IN  \/ /\ Ask(addr)
              /\ MSHR' = Append(MSHR, walk(FALSE))
           \/ /\ Forwards(addr)
              /\ MSHR' = Append(Wake(MSHR, BlockOf(addr)), walk(TRUE))
              /\ UNCHANGED asked
    /\ RQ' = Tail(RQ)
    /\ UNCHANGED <<vmVars, pscl, CR3_addr, warm, pending, requests>>

\* A page fault sends the walk to wait behind all that are due or wait longer.
Penalised(m) ==
    LET e == [Head(m) EXCEPT !.state = "penalty"]
        others == Tail(m)
        rest(S) == Those(others, {i \in DOMAIN others : others[i].state \in S})
    IN  rest({"due", "penalty"}) \o <<e>> \o rest({"asked"})

\* handle_fill on a walk that read its last entry.
Translate ==
    /\ MSHR # <<>>
    /\ LET e == Head(MSHR)
       IN  /\ e.state = "due" /\ e.level = 0
           /\ va_to_pa(e.v)
           /\ IF warm /\ DataFault(e.v)
              THEN MSHR' = Penalised(MSHR) /\ UNCHANGED pending
              ELSE MSHR' = Tail(MSHR) /\ pending' = pending \ {e.v}
    /\ UNCHANGED <<RQ, pscl, CR3_addr, asked, warm, requests>>

\* handle_fill on a walk with tables left: the page of the next table is made if
\* need be, the caches are filled, and its entry is asked for.
NextTable(refused) ==
    /\ MSHR # <<>>
    /\ LET e      == Head(MSHR)
           addr   == PtePa(e.v, e.level)
           others == Tail(MSHR)
           walk(f) == [e EXCEPT !.addr = addr, !.level = @ - 1, !.state = "asked",
                                !.forwarded = f]
       IN  /\ e.state = "due" /\ e.level > 0
           /\ get_pte_pa(e.v, e.level)
           /\ \/ /\ warm /\ TableFault(e.v, e.level) /\ ~ refused
                 /\ MSHR' = Penalised(MSHR)
                 /\ UNCHANGED <<pscl, asked>>
              \/ /\ ~ (warm /\ TableFault(e.v, e.level))
                 /\ pscl' = FillCaches(e.level, addr, e.v)
                 /\ \/ refused /\ UNCHANGED <<MSHR, asked>>
                    \/ /\ ~ refused /\ Ask(addr)
                       /\ MSHR' = Append(others, walk(FALSE))
                    \/ /\ ~ refused /\ Forwards(addr)
                       /\ MSHR' = Append(Wake(others, BlockOf(addr)), walk(TRUE))
                       /\ UNCHANGED asked
    /\ UNCHANGED <<RQ, CR3_addr, warm, pending, requests>>

\* A penalty ends.
PenaltyOver ==
    /\ \E i \in DOMAIN MSHR :
          /\ MSHR[i].state = "penalty"
          /\ \A j \in 1 .. i - 1 : MSHR[j].state = "due"
          /\ MSHR' = [MSHR EXCEPT ![i].state = "due"]
    /\ UNCHANGED <<vmVars, RQ, pscl, CR3_addr, asked, warm, pending, requests>>

\* The cache below answers.
Answer ==
    /\ \E b \in BagToSet(asked) :
          /\ asked' = asked (-) SetToBag({b})
          /\ MSHR' = Wake(MSHR, b)
    /\ UNCHANGED <<vmVars, RQ, pscl, CR3_addr, warm, pending, requests>>

\* add_rq, from a TLB that has one miss for a page at a time (the assert).
AddRq(v) ==
    /\ requests < MaxRequests /\ requests' = requests + 1
    /\ v \notin pending
    /\ Len(RQ) < RQ_SIZE
    /\ RQ' = Append(RQ, v)
    /\ pending' = pending \cup {v}
    /\ UNCHANGED <<vmVars, MSHR, pscl, CR3_addr, asked, warm>>

FinishWarmup ==
    /\ ~ warm /\ warm' = TRUE
    /\ UNCHANGED <<vmVars, RQ, MSHR, pscl, CR3_addr, asked, pending, requests>>

Operate == Answer \/ PenaltyOver \/ HandleRead \/ Translate \/ NextTable(FALSE)

Next ==
    \/ Operate
    \/ NextTable(TRUE)
    \/ \E v \in VPage : AddRq(v)
    \/ FinishWarmup

Spec == Init /\ [][Next]_vars

\* Walker and cache are operated in every cycle, and the cache, which answers
\* what it accepted, does not refuse for ever.
FairSpec == Spec /\ WF_vars(Operate)
-----------------------------------------------------------------------------
\* forwarded, which the code does not have, tells of a walk whose last read was answered
\* by add_rq itself.
Walk ==
    [v : VPage, addr : Nat, level : 0 .. pt_levels - 1, state : State, forwarded : BOOLEAN]

TypeOK ==
    /\ RQ \in Seq(VPage) /\ Len(RQ) <= RQ_SIZE
    /\ MSHR \in Seq(Walk) /\ Len(MSHR) <= MSHR_SIZE
    /\ \A l \in PSCLLevel : \A s \in DOMAIN pscl[l] :
          pscl[l][s] \in [1 .. PSCLWays[l] ->
                             [valid : BOOLEAN, v : VPage \cup {0}, data : Nat, lru : Nat]]
    /\ CR3_addr \in Nat
    /\ IsABag(asked) /\ BagToSet(asked) \subseteq Nat
    /\ warm \in BOOLEAN
    /\ pending \subseteq VPage
    /\ requests \in 0 .. MaxRequests

\* handle_fill looks at the first walk only: one that is due must never stand
\* behind one that is not, whatever order answers and penalties come in.
DueFirst ==
    \A i, j \in DOMAIN MSHR : i < j /\ MSHR[j].state = "due" => MSHR[i].state = "due"

\* The walks that wait for an answer which the cache below does not owe.
Unowed ==
    {MSHR[i] : i \in {i \in DOMAIN MSHR : /\ MSHR[i].state = "asked"
                                         /\ ~ BagIn(BlockOf(MSHR[i].addr), asked)}}

\* "-1 : packet value forwarded, returned" (inc/memory_class.h:51): a read that add_rq
\* has answered is not waited for.  handle_read and handle_fill know only -2, and the
\* answer of a store in the WQ comes before the walk is in the list, or has the address
\* it asks for (src/ptw.cc:72, :156).
WaitersAreOwed == Unowed = {}

\* A walk loses its answer in no other way: no answer that comes from the cache below
\* or from a forwarded read, no merged and no refused read leaves a walk of its block
\* waiting for nothing.
OnlyForwardsAreLost == \A w \in Unowed : w.forwarded

\* What a paging structure cache holds for a page is the entry of the page table
\* of its level ("Translation from L5->L1" and so on).
HoldsTheTable(l) ==
    \A s \in DOMAIN pscl[l] : \A w \in DOMAIN pscl[l][s] :
        LET b == pscl[l][s][w]
        IN  b.valid => ~ TableFault(b.v, l) /\ b.data = EntryIn(page_table[TableKey(b.v, l)], b.v, l)

\* The caches of levels 1, 3 and 4 do; that of level 2 is given, at src/ptw.cc:135, the
\* entry of level 1 instead.
PagingCachesHoldTheTable == \A l \in PSCLLevel \ {2} : HoldsTheTable(l)

\* No page waits for ever, in spite of faults, merged reads, refusals and walks lost to
\* a forwarded read, unless its own walk is lost for ever or such walks fill the MSHR.
Lost == {w.v : w \in {w \in Unowed : w.forwarded}}

WalksEnd ==
    \A v \in VPage : \/ []<>(v \notin pending)
                     \/ <>[](v \in Lost)
                     \/ <>[](Cardinality(Lost) = MSHR_SIZE)
=============================================================================
