# A TLA+ model of CacheEstimator's simulator

CacheEstimator measures programs with a modified ChampSim (`src/ChampSim`), a
cycle-driven simulator of a core, its caches, page walker and memory, and
predicts cache misses from the reuse distances the simulator records. This
directory models the simulator's own logic: what could make it lose a request, a
store or a line, answer twice, stop, or replace the wrong block - and so falsify
the numbers every later step of the project is built on. Paths below are
relative to `src/ChampSim/` unless they start with `src/`.

## The system

The main loop (`src/main.cc:413`) operates every component once per cycle of its
own clock, in an order that changes as clocks drift, until every core has retired
its instructions. Everything runs in one thread: concurrency is the interleaving
of components, and a call such as `add_rq` or `return_data` runs to its end,
calls to other components included.

| component | state | operations | what makes it hard |
|---|---|---|---|
| ring buffer (`inc/circular_buffer.hpp`) | slots, head, tail | push, pop, iterator arithmetic | wrap-around, distance signs |
| delay queue (`inc/delay_queue.hpp`) | members, countdowns, `_end_ready` | push_back, push_back_ready, pop_front, operate | two rings in lockstep, a stale ready mark |
| cache (`src/cache.cc`) | RQ, WQ, PQ, VAPQ, MSHR list, blocks | handle_fill / writeback / read / prefetch, add_rq / wq / pq, return_data | merges, forwards, full queues, refused evictions, answers in any order |
| replacement (`replacement/*`) | the `lru` field of each block, predictor tables | find_victim, update_replacement_state | ties, saturation, sampling |
| memory controller (`src/dram_controller.cc`) | per channel RQ, WQ, banks, bus, write mode | add_rq / wq / pq, operate | mode switches undo scheduled work |
| page walker (`src/ptw.cc`), virtual memory (`src/vmem.cc`) | RQ, MSHR, paging structure caches; page maps, free list | handle_read, handle_fill, return_data; va_to_pa, get_pte_pa | an answer before its MSHR, faults and retries, page aliasing |
| core (`src/ooo_cpu.cc`) | fetch / decode / dispatch buffers, ROB, LQ, SQ, DIB, ready queues, cache buses | fetch to retire, memory return | dependences, iterators into reused slots, deadlock detection |
| main loop (`src/main.cc`) | warm-up and completion flags | operate all, finish_warmup | warm-up changes every latency |
| reuse distance profiler (`replacement/rdlru`) | sampled lines, histograms | update | sampling and bucket edges |
| StatCache (`src/StatCache`) | histogram, cumulative histogram | LRU and random solvers | bisection ends, last bucket |
| branch target buffer and predictor (`btb/basic_btb`, `branch/bimodal`) | target table, indirect table, return-address stack, call sizes, counters | predict, update | the stack goes around, calls that are never returned from |
| prefetchers, other predictors, trace reader, tracers, configuration generator, notebooks | - | - | heuristics and I/O |

Interaction is by direct calls. A producer (a `CacheBus` of the core, the walker,
a cache) calls `add_rq`, `add_wq` or `add_pq` of its `lower_level` with a
`PACKET` whose `to_return` names who wants the answer; the lower level calls
`return_data` of each of them, at once (forwarded from a write queue, or memory
during warm-up) or cycles later. Warm-up (`warmup_complete`,
`all_warmup_complete`) is global state that every component reads.

What makes each component correct: a queue releases members in order and only
after their delay; every miss and every load is answered exactly once; a dirty
line and an accepted store are never forgotten; a set holds one copy of a line;
a policy replaces the line it says it replaces; the memory serves what it
accepted; a walk ends in the right frame, and no frame has two uses; an
instruction retires once, after what it depends on; a histogram counts each
reuse once.

## Modules

| module | models |
|---|---|
| `CircularBuffer` | index and iterator arithmetic of `circular_buffer`, constant-level |
| `DelayedFifo` | abstract: a bounded FIFO whose members leave after a delay |
| `DelayQueue` | `delay_queue` over two rings; `Spec` with the pushes of a cache, `DecodeSpec` with those of `O3_CPU::promote_to_decode` |
| `CacheHierarchy` | a tree of `CACHE`s over one memory channel, with the clients that load, store and prefetch |
| `MemoryService` | abstract: a memory that merges, serves and answers what it accepted, in any order |
| `DramController` | `MEMORY_CONTROLLER` cycle by cycle: queues, banks, rows, bus, write mode |
| `VirtualMemory` | which physical page each virtual page and each page table gets |
| `PageTableWalker` | walks over `VirtualMemory`, the paging structure caches, the MSHR list, and the cache it reads from |
| `InstructionFetch` | the front end of `O3_CPU`: trace, ITLB, L1I, decoded instruction buffer, decode |
| `SequentialMachine` | abstract: instructions leave one by one, each having read what those before it stored |
| `OutOfOrderCore` | `O3_CPU` from dispatch to retirement on top of `InstructionFetch` |
| `LruPolicy` | abstract: which way was used after which |
| `LruReplacement` | the age counters of `lru` / `rdlru` (`LruSpec`) and of the decoded instruction buffer (`DibSpec`) |
| `RripReplacement` | `srrip`, `drrip` and `ship` on one set |
| `Mockingjay` | `mockingjay` on one sampled set |
| `ReuseDistanceProfiler` | `RDProf` and `Sampler` of `rdlru`, and the logarithmic buckets of `common.h` |
| `StatCacheSolver` | the LRU solver of `second_solver.cpp` |
| `BranchTargetBuffer` | `basic_btb` and `bimodal` |
| `DelayQueueProofs`, `CacheHierarchyProofs`, `DramControllerProofs`, `PageTableWalkerProofs`, `OutOfOrderCoreProofs`, `LruReplacementProofs` | proofs about the module of that name |
| `OutOfOrderCoreRefinement` | the proof that `OutOfOrderCore` implements `SequentialMachine` |
| `TableProofs` | proofs about `Mockingjay`, `RripReplacement`, `ReuseDistanceProfiler`, `StatCacheSolver` and `BranchTargetBuffer` |
| `Sums` | the sum of the first values of a function, for the profiler and the solver |
| `MC*` | instances for TLC; `MCTables` puts the LRU ages and the five prediction tables in one run |

`PageTableWalker` extends `VirtualMemory`, `OutOfOrderCore` extends
`InstructionFetch`; the other detailed modules stand alone. They meet at their
interfaces: what `CacheHierarchy` takes the memory for is `MemoryService`, which
`DramController` implements; what the walker and the core take the caches for -
they may refuse, answer at once, or answer later in any order - is what
`CacheHierarchy` shows them to do.

Operators whose comment begins with *Mutant* are plausible mistakes kept beside
the definition they would replace. Nothing refers to them; substituting one must
break the property that `PROJECT.json` pairs it with.

### DelayQueue

`entry/head/tail` are `_buf`, `delay/dhead/dtail` are `_delays`, `endReady` is the
slot of `_end_ready`. A ring of `Size` has `Size + 1` slots, as in the code, and
iterators are slot numbers compared through the code's own distance
(`Distance`). `Operate` is the whole of `operate()`: all countdowns, then
`std::partition_point`. When the countdowns are not partitioned the standard
leaves the result open, so `IsPartitionPoint` admits any place where the
predicate turns; on partitioned ranges it is unique. `PopFront` is guarded by
`has_ready()`, as every client does. A countdown goes down without limit in the
code; `DelayFloor` stops following it below a bound (the code only compares it
with 0).

### CacheHierarchy

One action is one iteration of a handler's loop: `HandleFill`,
`HandleWriteback`, `HandleRead`, `HandlePrefetch`. Each contains every call it
makes: a miss allocates its MSHR and enters the queue below, or is forwarded and
returned, in the same step; an eviction enters the write queue below or the whole
step is disabled. An early return that changes nothing (queue below full, MSHRs
full, write refused) is a disabled action.

* Time is left open. A queue head may be handled at any moment and bandwidth is
  not counted, so every hit and fill latency, clock ratio and order of components
  is included; `DelayQueue` covers the delay of a queue itself.
* An MSHR entry's `event_cycle` is the flag `returned`. `MarkReturned` keeps the
  `iter_swap` of `return_data`.
* `deps` stands for the dependent LQ, SQ and instruction lists. The code leaves
  them on the packet it sends below, where nobody reads them; the model clears
  them.
* The victim of a full set is any way, which includes every policy. Caches in
  `Bypassing` may also decline a fill (`LLC_BYPASS`).
* `TRANSLATION` packets are handled as loads are. TLBs are caches with their own
  offset bits. Data values, statistics and the prefetch bit of blocks are left out.
* The memory is one channel that serves its queues in any order, with
  fast-forward during warm-up (`fastForward`).
* A prefetcher may ask for any of its lines at any time. `prefetch_line` of a
  cache without virtual prefetching is modelled.

### DramController

`Operate` is one cycle of `operate()` on every channel, its steps in the code's
order: finish the transfer on the bus, switch modes, give the bus to the bank
that has been due longest, schedule the oldest unscheduled packet, go on to the
next cycle. Cycles are counted from `current_cycle`, so `event` and `dbus` are
differences. `std::min_element` takes the first of equals, hence slots and bank
numbers decide ties. A packet of the write queue has no `names`. With a write queue
of one entry both watermarks are 0 and the code would switch modes for ever; the
assumption excludes it. `lastTransfer` is a history variable.

### PageTableWalker and VirtualMemory

`std::map`s are functions on what was asked for, and the shuffled free list is one
of `FreeLists`. Addresses are numbers, so that page offsets, `splice_bits` and
blocks are the code's arithmetic. A walk's `event_cycle` is kept as far as it
decides something: waiting for an answer, waiting out a fault's penalty, or due;
`Wake` and `Penalised` are the sorts by it. `HandleRead` is an iteration of
`handle_read`, `Translate` and `NextTable` are `handle_fill` on a walk that has
read its last or another entry; `NextTable(TRUE)` is the attempt that the cache
below refuses, which has already filled the paging structure caches and made the
table. The cache below merges, answers at once when a store of the same address is
in its write queue (`Forwards`, where `add_rq` calls `return_data` before the MSHR
entry exists), or answers later (`Answer`). A store of any mapped page may be
waiting there. The field `forwarded` of a walk is history: it tells that `add_rq`
answered the walk's last read itself.

### InstructionFetch and OutOfOrderCore

Buffers hold intervals of the trace, because every stage works in program order
up to the ROB: `read`, `decoding`, `decoded`, `dispatched` and `retired` are the
boundaries. An iteration of a stage is an action that may happen whenever its
conditions hold, so every order of stages, width and latency is included. The
caches' answers are actions too, in any order, and each `add_rq` or `add_wq` may be
refused.

* `LQ` and `SQ` are slots; `RTL0`, `RTL1`, `RTS0`, `RTS1` and `ready_to_execute` are
  the queues of the code; `dtlb` and `l1d` hold the entries whose answer is awaited,
  so an iterator into a reused slot would show.
* `Fetch` reads an instruction with all of `init_instruction`: branch type,
  predictions (right or wrong, as the trace's `warm` allows), the store array
  `STA`.
* `fetch_resume_cycle` is the flag `resume`; 0 means not set.
* `data` is a history of what each load returned, named after the store it came
  from.
* Registers are those of `trace_instr`; stack pointer folding decides which a
  later instruction waits for (`Folded`).
* Left out: heartbeats and statistics.

### LruReplacement

`lru` is the field of that name in each block of a set; `LruAged` is
`update_replacement_state`, `Victims` is `find_victim`. The refinement mapping
reads "v was used after w" as "v's age is smaller". `DibSpec` replaces only the
aging (`lru_updater`) and which invalid entry `std::max_element` finds.

### RripReplacement, Mockingjay

`RripReplacement` has one set of lines. `policy` is the policy it is compiled with;
`position` is where the set stands among the sampled sets, which decides its part
of `drrip`'s set duelling and the window of `ship`'s sampler it uses. Other sets'
traffic is an action on what they share: the selector (`PSEL`), the sampler's
neighbouring windows. Searches that loop until a block reaches `maxRRPV` are
their result.

`Mockingjay` has one sampled set, the sampled cache's sets it uses, and the
predictor. `rdp` is a function on the signatures seen; the code's table indexes a
hash of them, so collisions are abstracted. `Sample` is the sampled-cache half of
`update_replacement_state` - search, scan, detrain, insert - and `Update` adds the
aging and the estimate. Timestamps go around at `TimestampRange`.

### ReuseDistanceProfiler, StatCacheSolver, BranchTargetBuffer

`ReuseDistanceProfiler` is what `RDProf` does at an access, with the choice of the
sampled sets and the period as constants; history variables remember the true
reuse distance. `GET_BUCKET_INTERNAL` and `GET_DISTANCE` are the bit arithmetic,
evaluated by an `ASSUME` of `MCTables` for all distances to 3000 with the code's
five exact bits and with one. `StatCacheSolver` reads a histogram, bisects and sums
as the code does, on integers. `BranchTargetBuffer` updates target table, indirect
table, return-address stack, call sizes and bimodal counters with one branch
per step.

## Checks

`tlc -config X.cfg M` runs them; `PROJECT.json` lists the properties of each.

| run | instance | result |
|---|---|---|
| `delay_queue` | 3 members in 4 slots, latency 2, two items, 10294 states | type, ready is a prefix, ready have waited, refines `DelayedFifo` |
| `decode_delay` | the same with the pushes of the decode buffer | **violated**: a waiting member is offered |
| `cache_chain` | L1D (1 way) - L2C (2 ways) - memory, 3 lines, 4 addresses, 2 MSHRs, queues of 1, 5 requests | type, returned first, misses and loads carried once, one copy, no dirty line dropped, loads answered |
| `cache_shared` | L1I and L1D over a bypassing L2C, prefetchers, 4 requests | misses and loads carried once, no dirty line dropped, loads answered |
| `store_dirty` | the chain with 1 MSHR and 3 requests | **violated**: an accepted store is forgotten |
| `dib_lru` | the set of `tables`, 3 ways and 4 lines, with `lru_updater` | **violated**: not the least recently used entry |
| `dram` | 2 banks of 2 rows, read queue 2, write queue 3, 5 requests, 306430 states | a bank and its packet agree, the bus turns in time, refines `MemoryService`, reads answered unless writes come for ever |
| `page_walk` | 4 levels, tables of 4 entries and a whole page, 2 MSHRs, 3 pages, 4 walks, 300600 states | due walks first, walks lost by forwards only, caches hold the table, one use per page, walks end |
| `walk_forwarded` | the same instance | **violated**: a walk waits for an answer nobody owes |
| `core` | ROB 3, LQ 2, SQ 2, scheduler 2, 7 trace variants, 112901 states | queue entries held once, counters agree, registers ready, nothing read past a mispredict, refines `SequentialMachine`, every instruction retires |
| `core_pairing` | the core on a trace of two stores and a load pair | **violated**: a store meets a load that waits for another |
| `tables` | one table per behaviour, 204437 states | LRU ages bounded and distinct and refining `LruPolicy`, reused blocks outlive unused ones, lines sampled once, samples are reuses, the solver finds the cut, returns are predicted |

**Bounds.** Caches: queues of one entry and two MSHRs are the smallest where a
queue is full while another request is in flight, where two MSHRs return out of
order and where a third miss is refused. Two lines in one way force an eviction
at every fill, and two addresses of one line tell the whole-address match of a
first-level write queue from the line match below. `MaxRequests` bounds what
clients and prefetchers ask: five requests hold a load, a store, an eviction and a
return of the same line with one to spare; every violation found needs at most
three. The ring wraps after every fourth push and the state graph is explored
completely, so runs of any length are covered there and for the LRU ages of `tables`.
Memory: with a write queue of three the high and the low mark are both 2, so two
writes take over the bus and one that leaves gives it back. Of five requests one
read and four writes take the bank of that read away three times; two rows tell
an open row from a closed one, and both banks can be busy at once. What the bound
leaves out is writes that never stop, see the next section.
Walker: the geometry is the shipped one, page tables as large as pages. Pages 16
and 24 share every table and page 0 the upper ones, so walks merge, wake together
and start in the paging structure caches. The first page that is mapped gets the
page that page 0's lowest table is given, the second that of the lowest table of
16 and 24, so that reads of both are forwarded; four walks fill both MSHRs with
walks that are lost for ever and leave a third waiting.
Core: each trace is the shortest with its effect - forwarding through two stores,
a refused half of a two-store instruction, a branch resolved by a load, a loop that
hits in the decoded instruction buffer - and each buffer is smaller than the
trace. `warm` 1 and 3 place the end of warm-up before and inside it.
Tables: three ways and four lines for the ages, two ways and one line more than
fits for the other policies, counters that saturate after one to three steps,
mockingjay timestamps of five values, which go around before the last of six
accesses (`MjSampledOnce` is proved for any number of accesses), histograms of up
to two accesses in each of five buckets.

**Deadlock** checking is off in the cache runs and the two of the walker, which end when
`MaxRequests` are answered, in the core runs, which end with the trace, and in
`tables`, which ends with its bound; liveness properties cover a real deadlock of the
caches, the walker and the core.

**Fairness.** The main loop operates every component in every round
(`src/main.cc:420`), and each `operate()` runs all its handlers.
`CacheHierarchy` and `PageTableWalker` assume only `WF_vars(Operate)`: while some
handler, the memory or the cache below can move, one eventually does; of
clients, prefetchers and the end of warm-up nothing is assumed.
`OutOfOrderCore` assumes `WF_vars(Next)`; every action is a stage or an
answer of a cache, and a refusal is never a step that repeats. In `DramController`
`Operate` is always possible, so its weak fairness is written out: the memory is
idle again and again, or operates again and again. Nothing keeps the caches from
sending write after write, so `ReadsAnswered` says what the controller owes in
every case: a read is answered, or writes are accepted for ever. `WalksEnd` likewise
excepts, and names, what the code cannot do: end a walk whose answer is lost, or
one that finds every MSHR held by such walks. The instance reaches both.

**Assumed of the environment.** In `cache_shared` the line that is prefetched is
used by one first-level cache only. When a demand meets a prefetch in flight,
`*mshr_entry = handle_pkt` (`src/cache.cc:252`) keeps the answers of the demand
alone; if another upper cache had joined that entry with a prefetch of its own,
its answer would be lost. `OneCopyPerCache` is checked on one path without
prefetchers, where each written line is asked for by one node over each cache (`WritesApart`); below a
prefetch of a written line it fails, see the next section. The core's
traces never have as many waiting loads as the load queue has entries.

## Disagreements found

Shown by a run:

* `decode_delay`: `promote_to_decode` (`src/ooo_cpu.cc:411`) pushes ready
  instructions behind waiting ones, which the search of `operate()` does not
  expect. It needs a decode latency of 2 or more; the shipped configuration has 1.
* `store_dirty`: a store that misses while its line is in flight for a load loses
  its type in the merge (`src/cache.cc:238-257`) and the block is filled clean
  (`src/cache.cc:349`). Reachable in the shipped configuration; it makes
  writebacks disappear from the statistics.
* `dib_lru`: `lru_updater` (`inc/util.h:126`) ties the ages of a set on its first
  use. It also ages the paging structure caches of the walker. The data caches do
  not use it.
* `core_pairing`: `add_load_queue` registers an instruction once per load with its
  producer, and `execute_store` asserts (`src/ooo_cpu.cc:872`) that each load of
  the same address waits for it; a load pair fed by two stores breaks the
  assertion.
* `walk_forwarded`: with `page_size` equal to `PAGE_SIZE`, as `config.sh` writes it,
  page tables take page after page without a look at the free list
  (`src/vmem.cc:69`), and data may be given the same page. A store to data then
  waits in the write queue below, and `add_rq` there answers the walk's read on the
  spot, while its MSHR entry does not exist (`src/ptw.cc:72`) or has the address of
  the table before (`src/ptw.cc:154-156`). `return_data` finds nobody to wake, and the walk
  waits until another read of that block is answered, if ever. Reachable in
  the shipped configuration. `OnlyForwardsAreLost` says that nothing else loses a walk.

Met while modelling, and contained in the models:

* `PSCL3` is the cache of level 2 ("Translation from L5->L2", `src/ptw.cc:31`), but
  it is filled together with `PSCL2`, when the walk is at level 1
  (`src/ptw.cc:134-135`), with the entry of that level;
  `PagingCachesHoldTheTable` is stated for the other three.
* `PagesHaveOneUse` promises that tables and data lie apart only for tables smaller
  than pages. `page_walk` has the shipped size, so that clause, and the
  branch that takes a table from the free list (`src/vmem.cc:94-95`), are only proved about.
* `handle_writeback` allocates a block for a dirty line without a look at the MSHRs
  (`src/cache.cc:109`). If a prefetch of the line is in flight at that level, the fill that ends it
  makes a second, clean copy; which of the two a hit finds depends on the ways. Prefetches look for the
  line at their own level, so this takes a prefetcher at L2C that asks for a
  line the L1D has dirty and L2C has evicted: TLC finds it with four requests when
  L2C of `cache_chain` prefetches. `WritesApart` excludes it.
* A refused attempt of `handle_fill` fills the paging structure caches again at
  the next attempt; an answer for a block ends the fault penalty of every walk in
  it (`src/ptw.cc:215`).
* Loads that wait for a store keep their load queue entries (`src/ooo_cpu.cc:613`).
  If they hold all of them, an older load the store depends on gets none and the
  core stops. It takes as many waiting loads as the queue has entries, 128 as
  shipped.
* The memory keeps writing while the write queue holds the low watermark
  (`src/dram_controller.cc:52-53`), and nothing keeps the caches from refilling it:
  a read waits as long as writes come. `ReadsAnswered` says so; TLC
  finds that a read starves when the writes of `dram` are not bounded.
* `dram_controller.cc:58` says "Leave rows charged" of a switch, and closes the rows
  whose requests are within tCAS of their end.
* `drrip` gives blocks of sampled sets after the first two no interval
  (`replacement/drrip/drrip.cc:75`): a reused block may leave before one never
  used. `ReusedOutlivesUnused` excepts those sets. The windows of `ship`'s sampler
  overlap (`replacement/ship/ship.cc:86`).
* `second_solver.cpp` reads `buckets[i+1]` behind the last bucket, answers
  `total_accesses` for a cache that the first bucket or all of them fill exactly
  (a larger cache then misses more), and divides by zero for an empty histogram,
  which the model leaves out. `SolverFindsTheCut` excepts those capacities.
* `basic_btb` stores target 0 for a conditional branch that is not taken
  (`btb/basic_btb/basic_btb.cc:233`).
* A mockingjay timestamp that is not looked at for a whole turn of its 8 bits looks
  young again; the prefetch penalty is applied after the comparison with `INF_RD`,
  so a trained distance may exceed it.

## Proofs

`tlapm` checks them in the modules `*Proofs` and `OutOfOrderCoreRefinement`, for every
value of the constants that satisfies the named assumptions. A theorem with a hypothesis names it after `if`.

| theorem | states |
|---|---|
| `DelayQueueTypeOK`, `DelayQueueReadyIsPrefix`, `DelayQueueReadyHaveWaited` | the invariants of `delay_queue` |
| `DelayQueueImplementsDelayedFifo` | the refinement of `DelayedFifo` |
| `LruTypeOK`, `LruAgesAreDistinct`, `LruImplementsPolicy` | the invariants of the ages in `tables` and the refinement of `LruPolicy` |
| `CacheTypeOK`, `CacheReturnedFirst` | invariants of every tree of caches |
| `CacheNeverAnsweredTwice` | at most one answer is on its way to an MSHR entry, in every tree |
| `CacheDirtyNotDropped` | no dirty line dropped, if `StoresEnterAtTheTop` |
| `CacheMissCarriedOnce` | misses carried once, if `PrefetchesApart` |
| `CacheLoadCarriedOnce` | loads carried once, if `PrefetchesApart` and no two clients share a cache |
| `CacheOneCopyPerCache` | one copy of a line in a cache, if `WritesApart` |
| `DramTypeOK`, `DramBankHasItsPacket`, `DramBusTurnsAround` | the safety properties of `dram` |
| `DramImplementsMemoryService` | the refinement of `MemoryService` |
| `PtwTypeOK`, `PtwPagesHaveOneUse`, `PtwDueFirst`, `PtwPagingCachesHoldTheTable` | invariants of `page_walk` |
| `PtwOnlyForwardsAreLost` | a waiting walk is owed an answer, unless `add_rq` answered its last read |
| `CoreRegistersReady`, `CoreNothingReadPastMispredict`, `CoreEntriesHeldOnce` | invariants of `core` |
| `CoreImplementsSequentialMachine` | the refinement of `SequentialMachine` |
| `CoreCountersAgree` | the counts that complete instructions, if no instruction loads from an address twice |
| `MjSampledOnce`, `ProfilerSamplesAreReuses` | lines sampled once, samples are reuses |
| `RripReusedOutlivesUnused` | the action property of the interval policies, if `maxRRPV` is above 1 |
| `LruSolverFindsTheCut`, `BtbReturnsArePredicted` | the action properties of the solver and the return stack |

* **DelayQueue**, from `Size` positive, `Latency` natural and
  `DelayFloor` not positive. What the ready mark promises is not inductive: it
  says nothing about members behind it that `operate()` will reach. The invariant
  `IInv` adds that both rings agree (*Aligned*), that countdowns never decrease
  from the oldest member to the youngest (*Ordered*) - which the warm-up flag
  keeps true, because it is set once - and that all of the marked prefix is due
  (*Due*). *Ordered* is what the decode buffer breaks. For the refinement the ring
  is read as a list by the distance from its head (`MemberList`), and the mark as
  how many of it may leave (`ReadyCount`): a push appends, a pop drops the first,
  and `operate()` leaves the mark behind exactly the members that are due.
* **LruReplacement**, from `NUM_WAY` positive, `InitLru` natural and `NoTag` not a
  line. `Filled(n)` is the invariant: the ways are filled in order, the n in use
  have different ages below n, the others have all aged n times. With it a hit
  cannot push an age past n, an invalid way is older than any valid one, and a
  victim is unique; aging is then shown to keep the order of all pairs but those of
  the way used (`AgingOrders`), so every step maps to a step of `LruPolicy` or a
  stutter.
* **CacheHierarchy**, from any acyclic tree (`TopologyAssumption`), positive sizes
  and any mapping of lines to sets. `TypeInv` is inductive alone; with it, and
  stores entering at the top, a dirty line is followed from block to write queue to
  block. The rest hangs on `Ledger`, three statements about all queues and MSHR
  lists: each is tidy and sorted (*Lists*), a node's line is not in the queue and
  the MSHR of one cache at once (*Apart*), and whoever is named in a packet still
  waits for it (*Claims*). They make a second answer impossible
  whatever is merged, forwarded or exchanged by `iter_swap`. That every waiting entry
  *is* carried (`DueNow`) is the other half; it is false when a demand overtakes
  another cache's prefetch of its line in flight, because `*mshr_entry = handle_pkt`
  (`src/cache.cc:252`) forgets whom the prefetch was for. `PrefetchesApart` excludes that:
  a line that a node prefetches is asked for by no other node over the same cache.
  `Fits` says that the packets in flight respect it. An
  `ASSUME` of `MCCacheShared` shows that the instance TLC checks satisfies it, with
  prefetchers; in a chain it always holds.
  *One copy*: a hit keeps a second copy out, a fill needs that what is in flight is not
  cached (`MissesAbsent`). Only `handle_writeback` endangers it, so `CopyInv` says that a dirty line
  written back is in flight nowhere where it goes (`WritesAlone`): every request for a written line names
  the cache above that asks for it (`Paths`), and the ledger says that this cache waits for it, so it has
  no block of it to write back. `WritesApart` makes `Paths` true; it holds in a chain
  without prefetches of written lines and where each core's data is its own. The
  `ASSUME` of `MCCacheChain` shows that the instance satisfies it.
* **DramController**, from positive sizes, a write queue of at least two, positive
  times. `Good` is the channel's invariant: packets scheduled and banks busy
  correspond one to one, a bank's request names the slot of its packet, all are of
  the channel's mode but the one on the bus. A mode switch removes requests and marks
  together, all but the active one, so `Good` survives it; what was removed is scheduled again
  from the row it finds. `lastTransfer` is tied to the bus (`BusRemembered`) for
  the turn-around time. In the refinement, a cycle serves and writes whatever its
  channels release, and a request merges, forwards or enters as it does in
  `MemoryService`; `Located` (packets are on the channel of their address) keeps the
  channels apart.
* **PageTableWalker**, from positive sizes, page sizes of which one divides the other, and
  free lists of at least two different aligned pages. That mapped pages differ is
  not inductive without what is still free: `IInv` adds that nothing given out is
  on the free list, and one of two cases: where tables do not fill whole pages, the
  page kept in `next_pte_page` and those of the tables came off the list
  (`TablesFromTheList`); where they do, tables lie below `next_pte_page`.
  `WalkInv` adds to it the list of walks (`ListInv`: due walks first, waiting walks
  last, kept by every sort and removal because they are subsequences), the contents of
  the paging structure caches (`CacheInv`) and what the cache below owes
  (`OwedInv`: a walk that waits is owed an answer or its last read was forwarded).
  `PtwOnlyForwardsAreLost` holds for every table size, the shipped one included.
  The corollary `PtwApartNothingIsLost` adds that where no page holds both a table and
  data, or nothing is stored, no walk is lost at all.
* **OutOfOrderCore**, from finite traces of bounded length and natural
  queue sizes; ROB, scheduler and front end buffers may have any size.
  *Registers*: the producers that `do_scheduling` records are later found by
  `do_complete_execution`. `num_reg_dependent` counts who still has to complete
  (`CountsAwaited`), only later instructions are recorded (`DependentsLater`), and
  of each register the last writer is among them unless it has completed
  (`WritersAwaited`); an instruction that has begun has count 0 (`BegunFree`).
  *Queues*: that every entry is in one place is not inductive, because a retiring
  instruction must leave no load behind. So `LsqInv` follows `num_mem_ops`: it
  is the number of sources without an entry, of entries, and of stores
  not executed (`Counted`), hence 0 only when nothing is left; a store that
  waits for the L1D has an entry of its own (`StorePlaced`), a load's entry is known to its
  instruction (`LoadEntry`), and a load that waits for a store is on its list
  and the store is still to execute (`Pending`), so the walk of
  `do_sq_forward_to_lq` finds every one of them.
  *Refinement*: with `Registers` and `LsqInv`, `ValueInv` follows what loads return.
  Stores reach the memory in order (`InOrderWrites`): of the instruction at the head of the ROB a first
  part is written, because `retire_rob` stops at the first store the L1D refuses, and of the
  others none is, so the memory has for each address the last store of what has
  retired or been written. The producer that `add_load_queue` finds is the
  last store before the load to its address, and a load without one has nothing to its address unwritten
  before it (`Sourced`); it may go to the L1D at once, and what comes back is
  right however late it comes, since only younger instructions, which
  retire after it, can write meanwhile. What has returned
  is then right (`Correct`) and nothing that has entered the queue is lost (`Answered`). A
  step of `retire_rob` is a step of the abstract machine, all others are stutters.
  *Counts*: `Tally` adds that the two inflight counters are the sizes of the sets of
  instructions that can complete (`InFlight`) and that a load is in the queue or
  has returned, not both (`AnsweredOnce`). The difference between an
  instruction's loads and its answers is then what `Counted` counts. `DistinctLoads` is
  what the tracers guarantee (`WriteToSet`, one address in `cvp2champsim`);
  without it two loads of one address return one member of `data`.
* **Mockingjay**, from positive sizes. At most one entry holds the line of an access;
  it was reused in time and goes, or it is too old and the scan removes it because
  a scan that finds anything too old removes all of that (`ScanForgetsTheLine`);
  the new entry is then the only one, wherever it is put.
* **ReuseDistanceProfiler**, from positive sizes and period. `ProfInv` adds to the property that
  a sampled line's stamp is the time of its last use and that the histogram's sum is
  the number of samples that ended. A sample is counted only if its bucket
  exists, which is shown from the bit arithmetic (`Bit(n)` doubles).

* **RripReplacement**, from positive sizes and `maxRRPV < RripInitLru < LruRange`. The
  property is not inductive: it is about a victim. `Intervals` says why the victim is never the reused
  block: counters of filled ways are at most `maxRRPV`, so a search adds the same to all of them and
  takes none around (`SearchedSet`); a block sent back is within one of distant; and
  one used again is strictly nearer than any sent back before it. With `maxRRPV` 1 a
  new block would start as near as a used one; the code has 3.
* **BranchTargetBuffer**, from positive sizes. `Stacked` reads the ring from the top: the k-th slot below
  `ras_index`, around the end, has the k-th latest open call. A push into a full
  ring overwrites the call that the history forgets, and a pop of an empty stack
  moves the index only. The hash of the indirect table plays no part, so exclusive or is a constant operator,
  which `MCTables` gives its meaning.
* **StatCacheSolver**, from increasing buckets and positive cache sizes. `SolverInv` is that the
  histogram is its own cumulation, from which the expected number of lines does
  not fall from bucket to bucket (`UniqueAscends`). The loop ends at neighbours of
  which the first fits and the second does not (`BisectionFinds`), hence all
  up to the first fit and none behind; `SumCuts` turns that into the misses and into the emptied histogram.

Induction over a length or a count is by the well-foundedness of < on the naturals
(`LeastNatural`, `SetInduction`): a set of naturals that has 0 and successors is
all of them. That the recursive functions `SumTo`, `Bit` and the loop of `Bisect` exist is
shown the same way, by extending a function on a shorter range (`SumIsRun`,
`BitDoubles`, `BisectionRuns`).

**Only model-checked** are the liveness properties `LoadsAnswered`, `ReadsAnswered`,
`WalksEnd` and `EveryInstructionRetires`: they need fairness and ENABLED, about which
TLAPS does not reason. So are absence of deadlock and the five violations. Every invariant,
action property and refinement of a passing run is stated by a theorem above, under the hypotheses
the table names.

## Not modelled, and why

Virtual prefetching (`VAPQ`) and `invalidate_entry` (never called); statistics
and output; latencies and bandwidth as numbers outside the memory controller;
prefetchers and the other branch predictors, which only choose inputs that the
models leave open; trace reading, which is file and pipe input (it returns the
first instruction of a trace twice, `src/tracereader.cc:107`); the
random-replacement StatCache solvers (floating-point iterations); several threads
in the profiler (`MAX_THREADS` is 1); `rdlru/old` (not compiled); notebooks.
`PROJECT.json` lists every component with its status and the hazards no property
covers, each with the reason.

