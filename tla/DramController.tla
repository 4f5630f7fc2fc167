--------------------------- MODULE DramController ---------------------------
(***************************************************************************)
(* MEMORY_CONTROLLER (src/dram_controller.cc): for each channel a read and *)
(* a write queue, the banks, the data bus and the write mode.              *)
(*                                                                         *)
(* Cycles are counted relative to current_cycle: `event` and `dbus` are    *)
(* event_cycle - current_cycle, so every cycle takes one off them.  Only   *)
(* the differences matter in the code.                                     *)
(***************************************************************************)
EXTENDS Integers, FiniteSets

CONSTANTS
    DRAM_CHANNELS, DRAM_RANKS, DRAM_BANKS, DRAM_COLUMNS, DRAM_ROWS,
    DRAM_RQ_SIZE, DRAM_WQ_SIZE,
    tRP, tRCD, tCAS, DRAM_DBUS_TURN_AROUND_TIME, DRAM_DBUS_RETURN_TIME,
    Name,           \* those who ask, a cache's MSHR entry each
    Block,          \* addresses >> LOG2_BLOCK_SIZE
    MaxRequests     \* bound: requests made

ASSUME GeometryAssumption ==
    /\ {DRAM_CHANNELS, DRAM_RANKS, DRAM_BANKS, DRAM_COLUMNS, DRAM_ROWS} \subseteq Nat \ {0}
    /\ DRAM_RQ_SIZE \in Nat \ {0}
    \* With a single entry both watermarks are 0 and the mode flips for ever.
    /\ DRAM_WQ_SIZE \in Nat \ {0, 1}
    /\ Block \subseteq Nat

ASSUME TimingAssumption ==
    {tRP, tRCD, tCAS, DRAM_DBUS_TURN_AROUND_TIME, DRAM_DBUS_RETURN_TIME} \subseteq Nat \ {0}

ASSUME BoundAssumption == MaxRequests \in Nat

VARIABLES
    channel,       \* the DRAM_CHANNELs
    fastForward,   \* all_warmup_complete < NUM_CPUS
    pending,       \* the names that wait for an answer
    requests,      \* how many requests were made
    lastTransfer   \* history: per channel, what the bus carried last, and since when

vars == <<channel, fastForward, pending, requests, lastTransfer>>

DRAM_WRITE_HIGH_WM == (DRAM_WQ_SIZE * 7) \div 8
DRAM_WRITE_LOW_WM  == (DRAM_WQ_SIZE * 6) \div 8

\* | row | rank | column | bank | channel | block offset |
Channel(b) == b % DRAM_CHANNELS
BankIn(b)  == (b \div DRAM_CHANNELS) % DRAM_BANKS
Rank(b)    == (b \div (DRAM_CHANNELS * DRAM_BANKS * DRAM_COLUMNS)) % DRAM_RANKS
Row(b)     == (b \div (DRAM_CHANNELS * DRAM_BANKS * DRAM_COLUMNS * DRAM_RANKS)) % DRAM_ROWS
OpIdx(b)   == Rank(b) * DRAM_BANKS + BankIn(b)

Channels == 0 .. DRAM_CHANNELS - 1
Bank     == 0 .. DRAM_RANKS * DRAM_BANKS - 1
NoRow    == DRAM_ROWS              \* UINT32_MAX
NoBank   == DRAM_RANKS * DRAM_BANKS   \* std::end(bank_request)

\* channel[c].RQ and .WQ hold the valid packets with their slots, .busy the valid
\* BANK_REQUESTs; .row is open_row of every bank, .active the bank on the bus.
NewChannel == [RQ |-> {}, WQ |-> {}, busy |-> {}, row |-> [b \in Bank |-> NoRow],
               active |-> NoBank, dbus |-> 0, write |-> FALSE]

Init ==
    /\ channel = [c \in Channels |-> NewChannel]
    /\ fastForward = TRUE
    /\ pending = {}
    /\ requests = 0
    /\ lastTransfer = [c \in Channels |-> [write |-> FALSE, since |-> DRAM_DBUS_TURN_AROUND_TIME]]

-----------------------------------------------------------------------------
\* std::min_element by event_cycle: the first of the least.
Soonest(S, place) ==
    {x \in S : \A y \in S : x.event < y.event \/ (x.event = y.event /\ place[x] <= place[y])}

OnBus(ch) == {r \in ch.busy : r.bank = ch.active}

\* The bank request whose transfer is over, and the packet it points to.
Finishing(ch) == {r \in OnBus(ch) : r.event <= 0}

\* Mutant: which queue the pointer goes into is forgotten.
PointsToSlot(r, p, write) == r.slot = p.slot

\* Whether the pkt of bank request r is packet p of the given queue.
PointsTo(r, p, write) == r.write = write /\ r.slot = p.slot
Released(ch, S, write) == {p \in S : \E r \in Finishing(ch) : PointsTo(r, p, write)}

Answered(ch) == UNION {p.names : p \in Released(ch, ch.RQ, FALSE)}

\* The active request leaves the bus: its slot, its bank and the bus are free.
Finish(ch) ==
    [ch EXCEPT !.RQ = @ \ Released(ch, @, FALSE),
               !.WQ = @ \ Released(ch, @, TRUE),
               !.busy = @ \ Finishing(ch),
               !.active = IF Finishing(ch) = {} THEN @ ELSE NoBank]

\* Mutant: reads pull the bus back while many writes wait.
UnbalancedByReads(ch) ==
    LET wq_occu == Cardinality(ch.WQ)
        rq_occu == Cardinality(ch.RQ)
    IN  IF ch.write THEN wq_occu = 0 \/ rq_occu > 0
        ELSE wq_occu >= DRAM_WRITE_HIGH_WM \/ (rq_occu = 0 /\ wq_occu > 0)

\* Change modes if the queues are unbalanced.
Unbalanced(ch) ==
    LET wq_occu == Cardinality(ch.WQ)
        rq_occu == Cardinality(ch.RQ)
    IN  IF ch.write THEN wq_occu = 0 \/ (rq_occu > 0 /\ wq_occu < DRAM_WRITE_LOW_WM)
        ELSE wq_occu >= DRAM_WRITE_HIGH_WM \/ (rq_occu = 0 /\ wq_occu > 0)

\* Mutant: what waits for the bus already is left to finish.
UndoneUnlessDue(ch) == {r \in ch.busy \ OnBus(ch) : r.event > 0}

\* What a switch of modes undoes: everything but the request on the bus.
Undone(ch) == ch.busy \ OnBus(ch)

\* Mutant: the bus turns around from now, whatever is on it.
TurnedFromNow(ch) == DRAM_DBUS_TURN_AROUND_TIME

\* When the bus can carry data the other way.
Turned(ch) ==
    DRAM_DBUS_TURN_AROUND_TIME
        + IF OnBus(ch) = {} THEN 0 ELSE (CHOOSE r \in OnBus(ch) : TRUE).event

Unscheduled(ch, S, write) ==
    {IF \E r \in Undone(ch) : PointsTo(r, p, write)
     THEN [p EXCEPT !.scheduled = FALSE, !.event = 0] ELSE p : p \in S}

SwitchMode(ch) ==
    IF ~ Unbalanced(ch) THEN ch
    ELSE [ch EXCEPT
            !.RQ = Unscheduled(ch, @, FALSE),
            !.WQ = Unscheduled(ch, @, TRUE),
            !.busy = @ \ Undone(ch),
            !.row = [b \in Bank |-> IF \E r \in Undone(ch) : r.bank = b /\ r.event < tCAS
                                    THEN NoRow ELSE @[b]],
            !.dbus = Turned(ch),
            !.write = ~ @]

\* The bank that has been due longest takes the bus when it is free.
BusTakers(ch) ==
    {r \in Soonest(ch.busy, [r \in ch.busy |-> r.bank]) :
        r.event <= 0 /\ ch.active = NoBank /\ ch.dbus <= 0}

UseBus(ch) ==
    IF BusTakers(ch) = {} THEN ch
    ELSE LET r == CHOOSE r \in BusTakers(ch) : TRUE
         IN  [ch EXCEPT !.busy = (@ \ {r}) \cup {[r EXCEPT !.event = DRAM_DBUS_RETURN_TIME]},
                        !.active = r.bank]

\* The oldest unscheduled packet of the mode; nothing behind it is tried when its
\* bank is busy.
NextSchedule(ch) ==
    LET unscheduled == {p \in IF ch.write THEN ch.WQ ELSE ch.RQ : ~ p.scheduled}
    IN  Soonest(unscheduled, [p \in unscheduled |-> p.slot])

BankFree(ch, b) == \A r \in ch.busy : r.bank # b

\* A scheduled packet's event_cycle is the maximum, here 0 beside the flag.
Schedule(ch) ==
    IF \A p \in NextSchedule(ch) : ~ BankFree(ch, OpIdx(p.block)) THEN ch
    ELSE LET p == CHOOSE p \in NextSchedule(ch) : TRUE
             b == OpIdx(p.block)
             now(S) == (S \ {p}) \cup {[p EXCEPT !.scheduled = TRUE, !.event = 0]}
             delay == tCAS + IF ch.row[b] = Row(p.block) THEN 0 ELSE tRP + tRCD
         IN  [ch EXCEPT
                !.RQ = IF ch.write THEN @ ELSE now(@),
                !.WQ = IF ch.write THEN now(@) ELSE @,
                !.row[b] = Row(p.block),
                !.busy = @ \cup {[bank |-> b, write |-> ch.write, slot |-> p.slot, event |-> delay]}]

\* current_cycle goes up by one.
Aged(S) == {IF p.scheduled THEN p ELSE [p EXCEPT !.event = @ - 1] : p \in S}
Tick(ch) ==
    [ch EXCEPT !.RQ = Aged(@), !.WQ = Aged(@),
               !.busy = {[r EXCEPT !.event = @ - 1] : r \in @},
               !.dbus = IF @ > 0 THEN @ - 1 ELSE 0]

\* The steps of operate() on one channel, in order.
Switched(ch) == SwitchMode(Finish(ch))
Operated(ch) == Tick(Schedule(UseBus(Switched(ch))))

Recorded(h, ch) ==
    IF BusTakers(ch) # {} THEN [write |-> ch.write, since |-> 1 - DRAM_DBUS_RETURN_TIME]
    ELSE [h EXCEPT !.since = IF @ < DRAM_DBUS_TURN_AROUND_TIME THEN @ + 1 ELSE @]

\* MEMORY_CONTROLLER::operate.
Operate ==
    /\ channel' = [c \in Channels |-> Operated(channel[c])]
    /\ pending' = pending \ UNION {Answered(channel[c]) : c \in Channels}
    /\ lastTransfer' = [c \in Channels |-> Recorded(lastTransfer[c], Switched(channel[c]))]
    /\ UNCHANGED <<fastForward, requests>>

-----------------------------------------------------------------------------
Asked == requests < MaxRequests /\ requests' = requests + 1

Of(S, b) == {p \in S : p.block = b}

\* The empty slots of a queue of n.
FreeSlots(S, n) == {i \in 1 .. n : \A p \in S : p.slot # i}

\* Mutant: a new packet goes behind all others.
QueuedBehind(S, n, b, who) ==
    S \cup {[slot |-> i, block |-> b, names |-> who, scheduled |-> FALSE, event |-> 0] :
                i \in {i \in 1 .. n + 1 : \A j \in 1 .. n + 1 : j >= i <=> \A p \in S : p.slot < j}}

\* The first empty slot of a queue of n takes a new packet.
Queued(S, n, b, who) ==
    S \cup {[slot |-> i, block |-> b, names |-> who, scheduled |-> FALSE, event |-> 0] :
                i \in {i \in FreeSlots(S, n) : \A j \in FreeSlots(S, n) : i <= j}}

\* add_rq, which add_pq calls: answered at once while warming up or when a write
\* of the block is queued, joined to a read of the block, or put in a free slot,
\* which the caller has made sure of by get_occupancy.
AddRq(n, b) ==
    LET c == Channel(b)
        same == Of(channel[c].RQ, b)
    IN  /\ Asked
        /\ n \notin pending
        /\ IF fastForward \/ Of(channel[c].WQ, b) # {} THEN UNCHANGED <<channel, pending>>
           ELSE /\ pending' = pending \cup {n}
                /\ IF same # {}
                   THEN channel' = [channel EXCEPT ![c].RQ = (@ \ same) \cup
                            {[p EXCEPT !.names = @ \cup {n}] : p \in same}]
                   ELSE /\ FreeSlots(channel[c].RQ, DRAM_RQ_SIZE) # {}
                        /\ channel' = [channel EXCEPT ![c].RQ = Queued(@, DRAM_RQ_SIZE, b, {n})]
        /\ UNCHANGED <<fastForward, lastTransfer>>

\* add_wq; a full queue refuses the write.
AddWq(b) ==
    LET c == Channel(b)
    IN  /\ Asked
        /\ IF fastForward \/ Of(channel[c].WQ, b) # {} THEN UNCHANGED channel
           ELSE /\ FreeSlots(channel[c].WQ, DRAM_WQ_SIZE) # {}
                /\ channel' = [channel EXCEPT ![c].WQ = Queued(@, DRAM_WQ_SIZE, b, {})]
        /\ UNCHANGED <<fastForward, pending, lastTransfer>>

FinishWarmup ==
    /\ fastForward
    /\ fastForward' = FALSE
    /\ UNCHANGED <<channel, pending, requests, lastTransfer>>

Next ==
    \/ Operate
    \/ \E n \in Name, b \in Block : AddRq(n, b)
    \/ \E b \in Block : AddWq(b)
    \/ FinishWarmup

Spec == Init /\ [][Next]_vars

\* The main loop operates the memory in every cycle of its clock: WF_vars(Operate),
\* with ENABLED spelled out as "the cycle would change something".
Idle == \A c \in Channels : /\ Operated(channel[c]) = channel[c]
                           /\ lastTransfer[c].since = DRAM_DBUS_TURN_AROUND_TIME

FairSpec == Spec /\ ([]<>Idle \/ []<><<Operate>>_vars)

-----------------------------------------------------------------------------
Packet(n) == [slot : 1 .. n, block : Block, names : SUBSET Name,
              scheduled : BOOLEAN, event : Int]
BankRequest == [bank : Bank, write : BOOLEAN, slot : Nat, event : Int]

TypeOK ==
    /\ \A c \in Channels :
          LET ch == channel[c]
          IN  /\ ch.RQ \subseteq Packet(DRAM_RQ_SIZE)
              /\ ch.WQ \subseteq Packet(DRAM_WQ_SIZE)
              /\ ch.busy \subseteq BankRequest
              /\ ch.row \in [Bank -> 0 .. NoRow]
              /\ ch.active \in Bank \cup {NoBank}
              /\ ch.dbus \in Nat /\ ch.write \in BOOLEAN
    /\ fastForward \in BOOLEAN
    /\ pending \subseteq Name
    /\ requests \in 0 .. MaxRequests
    /\ lastTransfer \in
          [Channels -> [write : BOOLEAN,
                        since : 1 - DRAM_DBUS_RETURN_TIME .. DRAM_DBUS_TURN_AROUND_TIME]]

\* A busy bank works on one packet, which is queued, scheduled, and lives in that
\* bank and its open row; every scheduled packet has a bank.  Neither a switch of
\* modes nor the clearing of a finished packet leaves a dangling pkt or a packet
\* that nobody will schedule again.  Only the request on the bus may belong to
\* the other mode.
BankHasItsPacket ==
    \A c \in Channels :
        LET ch == channel[c]
            queue(write) == IF write THEN ch.WQ ELSE ch.RQ
        IN  /\ \A r \in ch.busy :
                 /\ r.bank # ch.active => r.write = ch.write
                 /\ \A x \in ch.busy : x.bank = r.bank => x = r
                 /\ \E p \in queue(r.write) :
                        /\ p.slot = r.slot /\ p.scheduled
                        /\ OpIdx(p.block) = r.bank /\ Row(p.block) = ch.row[r.bank]
            /\ \A write \in BOOLEAN : \A p \in queue(write) :
                 p.scheduled => \E r \in ch.busy : PointsTo(r, p, write)
            /\ ch.active # NoBank => OnBus(ch) # {}

\* Data goes the other way on the bus no earlier than the turn-around time after
\* the last transfer ended, also when the mode is switched during a transfer.
BusTurnsAround ==
    [][ \A c \in Channels : lastTransfer'[c].write # lastTransfer[c].write
            => lastTransfer[c].since >= DRAM_DBUS_TURN_AROUND_TIME ]_vars

\* The banks, the bus and the modes together are the memory that the caches
\* rely on (MemoryService).
Abstract == INSTANCE MemoryService WITH
    Channels <- DRAM_CHANNELS,
    reads  <- [b \in Block |-> UNION {p.names : p \in Of(channel[Channel(b)].RQ, b)}],
    waiting <- pending,
    writes <- {b \in Block : Of(channel[Channel(b)].WQ, b) # {}}

ImplementsMemoryService == Abstract!Spec

\* Unless writes keep coming for ever, every accepted read is answered, however often
\* switches to writes have taken its bank away from it before.  (Write mode is kept
\* while the write queue stays at its low mark: a read waits as long as writes come
\* as fast as they are served.)
ReadsAnswered ==
    \/ []<><<\E b \in Block : AddWq(b)>>_vars
    \/ \A n \in Name : (n \in pending) ~> (n \notin pending)
=============================================================================
