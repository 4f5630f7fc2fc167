----------------------------- MODULE DelayQueue -----------------------------
(***************************************************************************)
(* champsim::delay_queue (inc/delay_queue.hpp): two circular buffers moved *)
(* in lockstep, one of members and one of countdowns, and an iterator to   *)
(* the first member that is not ready.  The clients are the queues of      *)
(* CACHE and PageTableWalker and the decode and dispatch buffers of O3_CPU.*)
(***************************************************************************)
EXTENDS CircularBuffer, Sequences

CONSTANTS Latency,     \* _latency
          DelayFloor,  \* bound: a countdown is not followed below this
          Item, NoItem \* the members, and the content of a slot never written

ASSUME LatencyAssumption == Latency \in Nat
ASSUME DelayFloorAssumption == DelayFloor \in Int /\ DelayFloor <= 0

VARIABLES
    entry, head, tail,      \* _buf
    delay, dhead, dtail,    \* _delays
    endReady,               \* _end_ready
    warmup_complete         \* the flag the clients choose push_back* by

buf    == <<entry, head, tail>>
delays == <<delay, dhead, dtail>>
vars   == <<buf, delays, endReady, warmup_complete>>

Occ == Occupancy(head, tail)

HasReady == ~ SameIter(head, head, endReady)

\* The i-th oldest member, from 0, is in this slot.
SlotOf(i) == CircInc(head, i)

Init ==
    /\ entry = [s \in Slot |-> NoItem] /\ head = 0 /\ tail = 0
    /\ delay = [s \in Slot |-> 0] /\ dhead = 0 /\ dtail = 0
    /\ endReady = 0
    /\ warmup_complete = FALSE

Push(x, d) ==
    /\ ~ IsFull(head, tail)
    /\ entry' = [entry EXCEPT ![tail] = x]
    /\ tail'  = CircInc(tail, 1)
    /\ delay' = [delay EXCEPT ![dtail] = d]
    /\ dtail' = CircInc(dtail, 1)
    /\ UNCHANGED <<head, dhead, endReady, warmup_complete>>

PushBack(x)      == Push(x, Latency)
PushBackReady(x) == Push(x, 0)

\* Mutant: pop without has_ready().
PopUnguarded ==
    /\ ~ IsEmpty(head, tail)
    /\ head'  = CircInc(head, 1)
    /\ dhead' = CircInc(dhead, 1)
    /\ UNCHANGED <<entry, tail, delay, dtail, endReady, warmup_complete>>

\* Clients guard every pop with has_ready().
PopFront ==
    /\ HasReady
    /\ head'  = CircInc(head, 1)
    /\ dhead' = CircInc(dhead, 1)
    /\ UNCHANGED <<entry, tail, delay, dtail, endReady, warmup_complete>>

\* Mutant: the countdown stops one cycle early.
CountDownToOne(d) == IF d > 1 THEN d - 1 ELSE d

CountDown(d) == IF d > DelayFloor THEN d - 1 ELSE d

\* Mutant: the predicate is x < _latency, any member that waited a cycle is due.
IsPartitionPointOfStarted(n) ==
    /\ n > 0 => delay'[CircInc(dhead, n - 1)] < Latency
    /\ n < Occupancy(dhead, dtail) => delay'[CircInc(dhead, n)] >= Latency

\* What std::partition_point may return for x <= 0 over the countdowns: a place
\* where the predicate turns from true to false.  There is one such place when
\* the range is partitioned, and any of them may be found when it is not.
IsPartitionPoint(n) ==
    /\ n > 0 => delay'[CircInc(dhead, n - 1)] <= 0
    /\ n < Occupancy(dhead, dtail) => delay'[CircInc(dhead, n)] > 0

Operate ==
    /\ delay' = [s \in Slot |->
                    IF s \in VisitedUntil(dhead, dtail) THEN CountDown(delay[s])
                                                        ELSE delay[s]]
    /\ \E n \in 0 .. Occupancy(dhead, dtail) :
          /\ IsPartitionPoint(n)
          /\ endReady' = CircInc(head, n)
    /\ UNCHANGED <<buf, dhead, dtail, warmup_complete>>

-----------------------------------------------------------------------------
\* The clients.  CACHE::add_rq, add_wq and add_pq choose by the warmup flag.
CachePush(x) == IF warmup_complete THEN PushBack(x) ELSE PushBackReady(x)

WarmupComplete ==
    /\ ~ warmup_complete
    /\ warmup_complete' = TRUE
    /\ UNCHANGED <<buf, delays, endReady>>

Next ==
    \/ \E x \in Item : CachePush(x)
    \/ PopFront
    \/ Operate
    \/ WarmupComplete

Spec == Init /\ [][Next]_vars

\* O3_CPU::promote_to_decode also pushes an instruction that was found in the
\* decoded instruction buffer as ready, behind instructions that still wait.
PromoteToDecode(x, decoded) ==
    IF ~ warmup_complete \/ decoded THEN PushBackReady(x) ELSE PushBack(x)

DecodeNext ==
    \/ \E x \in Item, decoded \in BOOLEAN : PromoteToDecode(x, decoded)
    \/ PopFront
    \/ Operate
    \/ WarmupComplete

DecodeSpec == Init /\ [][DecodeNext]_vars

-----------------------------------------------------------------------------
TypeOK ==
    /\ entry \in [Slot -> Item \cup {NoItem}]
    /\ delay \in [Slot -> Int]
    /\ head \in Slot /\ tail \in Slot
    /\ dhead \in Slot /\ dtail \in Slot
    /\ endReady \in Slot
    /\ warmup_complete \in BOOLEAN

\* The slots of the members in the queue and of those the queue calls ready.
Live  == VisitedUntil(head, tail)
Ready == VisitedUntil(head, endReady)

\* The ready members are a prefix of the members: has_ready() never offers a
\* slot past the tail, after any number of wraps, pushes and pops.
ReadyIsPrefix == Ready \subseteq Live

\* No member is offered before its latency has passed ("a fixed-size queue that
\* releases its members only after a delay").
ReadyHaveWaited == \A s \in Ready : delay[s] <= 0

\* The queue the clients see: members oldest first and how many may leave.
Fifo == INSTANCE DelayedFifo WITH
    Capacity  <- Size,
    WaitFloor <- DelayFloor,
    Member    <- Item,
    queue     <- [i \in 1 .. Occ |-> [item |-> entry[SlotOf(i - 1)],
                                      wait |-> delay[CircInc(dhead, i - 1)]]],
    ready     <- Distance(head, endReady, head)

\* The ring buffers implement the bounded delaying FIFO: no member is lost,
\* duplicated, reordered or released early, and none is held once it is due.
ImplementsDelayedFifo == Fifo!Spec
=============================================================================
