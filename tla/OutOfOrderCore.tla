--------------------------- MODULE OutOfOrderCore ---------------------------
(***************************************************************************)
(* O3_CPU (src/ooo_cpu.cc): the front end of InstructionFetch and, from    *)
(* the ROB on, scheduling, execution, the load and store queues and        *)
(* retirement.  ROB holds the instructions retired + 1 .. dispatched.      *)
(*                                                                         *)
(* operate() runs the stages once per cycle, each as often as its width    *)
(* allows.  Here a stage's iteration is an action and may happen whenever  *)
(* its conditions hold: every order of stages and every latency is among   *)
(* the behaviours.                                                         *)
(***************************************************************************)
EXTENDS InstructionFetch, Functions

CONSTANTS
    Address,                 \* what loads and stores name
    ROB_SIZE, LQ_SIZE, SQ_SIZE, SCHEDULER_SIZE

\* What the simulator keeps of a trace_instr; 0 in its arrays is no operand.
Instruction == [src : SUBSET Nat, dst : SUBSET Nat, load : Seq(Address), store : Seq(Address),
                page : Nat, line : Nat, window : Nat]

ASSUME TraceAssumption ==
    \A t \in Traces : t.code \in Seq(Instruction) /\ Len(t.code) <= MaxLength
ASSUME SizeAssumption == {MaxLength, LQ_SIZE, SQ_SIZE} \subseteq Nat

VARIABLES
    core,       \* the back end, see NewCore
    dtlb, l1d,  \* the queue entries whose translation, whose line is awaited
    retired,    \* num_retired
    memory      \* history: the instruction that wrote last to each address

backVars == <<core, dtlb, l1d, retired, memory>>
vars == <<fetchVars, dispatched, backVars>>

ROB == retired + 1 .. dispatched
LoadSlots  == 1 .. LQ_SIZE
StoreSlots == 1 .. SQ_SIZE
NoEntry == [instr |-> 0]

\* An ooo_model_instr outside the ROB.
NoInstr == [scheduled |-> None, executed |-> None, num_reg_dependent |-> 0, num_mem_ops |-> 0,
            source_added |-> {}, destination_added |-> {}, destination_memory |-> {},
            registers_instrs_depend_on_me |-> {}, memory_instrs_depend_on_me |-> <<>>,
            lq_index |-> <<>>, sq_index |-> <<>>]

\* STA names an instruction once for each of its stores; data is a history, what
\* the loads of each instruction have returned: <<address, who stored it>>.
NewCore == [rob |-> [n \in Ids |-> NoInstr],
            LQ |-> [s \in LoadSlots |-> NoEntry], SQ |-> [s \in StoreSlots |-> NoEntry],
            RTL0 |-> <<>>, RTL1 |-> <<>>, RTS0 |-> <<>>, RTS1 |-> <<>>, STA |-> <<>>,
            ready_to_execute |-> <<>>, inflight_reg |-> 0, inflight_mem |-> 0,
            data |-> [n \in Ids |-> {}]]

Init ==
    /\ FetchInit
    /\ dispatched = 0
    /\ core = NewCore
    /\ dtlb = {} /\ l1d = {}
    /\ retired = 0
    /\ memory = [a \in Address |-> 0]

Loads(n)  == DOMAIN program[n].load
StoresOf(n) == DOMAIN program[n].store
AllValid(queue) == \A s \in DOMAIN queue : queue[s] # NoEntry
FreeSlot(queue) == First({s \in DOMAIN queue : queue[s] = NoEntry})

-----------------------------------------------------------------------------
Operations(n) == Len(program[n].load) + Len(program[n].store)

\* dispatch_instruction: init_instruction counted the memory operations.
Dispatch ==
    LET n == dispatched + 1
    IN  /\ n <= decoded
        /\ Cardinality(ROB) < ROB_SIZE
        /\ dispatched' = n
        /\ core' = [core EXCEPT !.rob[n] =
                      [NoInstr EXCEPT !.num_mem_ops = Operations(n),
                                      !.destination_memory = StoresOf(n),
                                      !.lq_index = [j \in Loads(n) |-> 0],
                                      !.sq_index = [k \in StoresOf(n) |-> 0]]]
        /\ UNCHANGED <<fetchVars, dtlb, l1d, retired, memory>>

\* init_instruction's part of the store array.
PushSTA ==
    core' = [core EXCEPT !.STA = @ \o [k \in StoresOf(read') |-> read']]

Fetch ==
    /\ FetchNext
    /\ IF read' # read THEN PushSTA ELSE UNCHANGED core
    /\ UNCHANGED <<dispatched, dtlb, l1d, retired, memory>>

\* The schedulers look at as many instructions as have not been executed.
InScheduler(n) == Cardinality({m \in ROB : m < n /\ core.rob[m].executed = None}) < SCHEDULER_SIZE

\* Mutant: an instruction that has begun to execute counts as a producer no longer.
WillProduceUntilIssued(m, reg) == core.rob[m].executed = None /\ reg \in DestinationRegisters(m)

WillProduce(m, reg) == core.rob[m].executed # COMPLETED /\ reg \in DestinationRegisters(m)

\* The closest earlier instruction that will produce each register n reads.
RegisterProducers(n) ==
    {m \in ROB : \E reg \in SourceRegisters(n) :
        m < n /\ WillProduce(m, reg) /\ \A l \in m + 1 .. n - 1 : ~WillProduce(l, reg)}

\* schedule_instruction
Schedule ==
    LET waiting == {n \in ROB : core.rob[n].scheduled = None}
        n == First(waiting)
        producers == RegisterProducers(n)
    IN  /\ waiting # {}
        /\ InScheduler(n)
        /\ core' = [core EXCEPT
              !.rob = [m \in Ids |->
                  CASE m \in producers -> [core.rob[m] EXCEPT !.registers_instrs_depend_on_me = @ \cup {n}]
                    [] m = n -> [core.rob[m] EXCEPT !.num_reg_dependent = Cardinality(producers),
                                             !.scheduled = IF IsMemory(n) THEN INFLIGHT ELSE COMPLETED]
                    [] OTHER -> core.rob[m]],
              !.ready_to_execute = IF producers = {} /\ ~IsMemory(n) THEN Append(@, n) ELSE @]
        /\ UNCHANGED <<fetchVars, dispatched, dtlb, l1d, retired, memory>>

\* execute_instruction
Execute ==
    /\ core.ready_to_execute # <<>>
    /\ core' = [core EXCEPT !.rob[Head(core.ready_to_execute)].executed = INFLIGHT,
                            !.ready_to_execute = Tail(@),
                            !.inflight_reg = @ + 1]
    /\ UNCHANGED <<fetchVars, dispatched, dtlb, l1d, retired, memory>>

-----------------------------------------------------------------------------
\* Mutant: an instruction counts only once all its operations are in the queues.
PerformedIfScheduled(c, ops) ==
    LET Over(m) == Cardinality({op \in ops : op.instr = m})
        last == {m \in Ids : /\ Over(m) > 0 /\ c.rob[m].num_mem_ops = Over(m)
                             /\ c.rob[m].scheduled = COMPLETED}
    IN  [c EXCEPT !.rob = [m \in Ids |-> [c.rob[m] EXCEPT !.num_mem_ops = @ - Over(m)]],
                  !.inflight_mem = @ + Cardinality(last)]

\* One memory operation is over for each member of ops.  An instruction whose last
\* one it is counts as an execution in flight.
Performed(c, ops) ==
    LET Over(m) == Cardinality({op \in ops : op.instr = m})
        last == {m \in Ids : Over(m) > 0 /\ c.rob[m].num_mem_ops = Over(m)}
    IN  [c EXCEPT !.rob = [m \in Ids |-> [c.rob[m] EXCEPT !.num_mem_ops = @ - Over(m)]],
                  !.inflight_mem = @ + Cardinality(last)]

\* The loads in these slots have their data, which value names, and leave the queue.
Loaded(c, slots, value) ==
    LET ops == {[instr |-> c.LQ[s].instr, slot |-> s] : s \in slots}
        got(n) == {<<c.LQ[s].address, value[c.LQ[s].address]>> : s \in {s \in slots : c.LQ[s].instr = n}}
    IN  [Performed(c, ops) EXCEPT !.LQ = [s \in LoadSlots |-> IF s \in slots THEN NoEntry ELSE @[s]],
                                  !.data = [n \in Ids |-> @[n] \cup got(n)]]

\* do_sq_forward_to_lq
Forwarded(c, slots, store) == Loaded(c, slots, [a \in Address |-> store])

\* Mutant: only stores that are in the store queue are seen.
StoreProducersInSQ(c, n, a) ==
    {m \in ROB : m < n /\ \E k \in c.rob[m].destination_memory \cap c.rob[m].destination_added :
                     program[m].store[k] = a}

\* The earlier instructions in the ROB with a store to a still to be written.
StoreProducers(c, n, a) ==
    {m \in ROB : m < n /\ \E k \in c.rob[m].destination_memory : program[m].store[k] = a}

\* Mutant: nobody looks for a store that has executed already.
WillForwardLater(c, producer, a) == FALSE

WillForward(c, producer, a) ==
    \E s \in StoreSlots : /\ c.SQ[s] # NoEntry
                          /\ c.SQ[s].instr = producer /\ c.SQ[s].address = a /\ c.SQ[s].fetched

\* add_load_queue, for source j of n if there is a free entry.
AddLoad(c, n, j) ==
    IF j \in c.rob[n].source_added \/ AllValid(c.LQ) THEN c
    ELSE LET a == program[n].load[j]
             slot == FreeSlot(c.LQ)
             producers == StoreProducers(c, n, a)
             producer == IF producers = {} THEN 0 ELSE CHOOSE m \in producers : \A l \in producers : l <= m
             added == [c EXCEPT !.LQ[slot] = [instr |-> n, address |-> a, producer |-> producer],
                                !.rob[n].source_added = @ \cup {j},
                                !.rob[n].lq_index[j] = slot]
             waiting == [added EXCEPT !.rob[producer].memory_instrs_depend_on_me = Append(@, n)]
         IN  IF producer = 0 THEN [added EXCEPT !.RTL0 = Append(@, slot)]
             ELSE IF WillForward(c, producer, a) THEN Forwarded(waiting, {slot}, producer)
             ELSE waiting

\* Mutant: stores enter the queue in any order.
HasTurnAlways(c, n) == TRUE

HasTurn(c, n) == Head(c.STA) = n

\* add_store_queue, for destination k of n if it is n's turn in the store array.
AddStore(c, n, k) ==
    IF k \in c.rob[n].destination_added \/ AllValid(c.SQ) \/ ~HasTurn(c, n) THEN c
    ELSE LET slot == FreeSlot(c.SQ)
         IN  [c EXCEPT !.SQ[slot] = [instr |-> n, address |-> program[n].store[k], fetched |-> FALSE],
                       !.rob[n].destination_added = @ \cup {k},
                       !.rob[n].sq_index[k] = slot,
                       !.STA = Tail(@),
                       !.RTS0 = Append(@, slot)]

\* The two loops of do_memory_scheduling, over the loads and over the stores.
LoadsAdded(c, n) ==
    LET upTo[j \in 0 .. Len(program[n].load)] == IF j = 0 THEN c ELSE AddLoad(upTo[j - 1], n, j)
    IN  upTo[Len(program[n].load)]

StoresAdded(c, n) ==
    LET upTo[k \in 0 .. Len(program[n].store)] == IF k = 0 THEN c ELSE AddStore(upTo[k - 1], n, k)
    IN  upTo[Len(program[n].store)]

\* do_memory_scheduling
MemoryScheduled(c, n) ==
    LET stores == StoresAdded(LoadsAdded(c, n), n)
        i == stores.rob[n]
    IN  IF i.source_added = Loads(n) /\ i.destination_added = StoresOf(n)
        THEN [stores EXCEPT !.rob[n].scheduled = COMPLETED,
                         !.rob[n].executed = IF @ = None THEN INFLIGHT ELSE @]
        ELSE stores

\* schedule_memory_instruction
ScheduleMemory ==
    \E n \in ROB :
        /\ IsMemory(n)
        /\ core.rob[n].num_reg_dependent = 0
        /\ core.rob[n].scheduled = INFLIGHT
        /\ InScheduler(n)
        /\ core' = MemoryScheduled(core, n)
        /\ UNCHANGED <<fetchVars, dispatched, dtlb, l1d, retired, memory>>

-----------------------------------------------------------------------------
\* operate_lsq: an entry goes to the DTLB; when it refuses, nothing changes.
TranslateStore ==
    /\ core.RTS0 # <<>>
    /\ dtlb' = dtlb \cup {[queue |-> "SQ", slot |-> Head(core.RTS0)]}
    /\ core' = [core EXCEPT !.RTS0 = Tail(@)]
    /\ UNCHANGED <<fetchVars, dispatched, l1d, retired, memory>>

TranslateLoad ==
    /\ core.RTL0 # <<>>
    /\ dtlb' = dtlb \cup {[queue |-> "LQ", slot |-> Head(core.RTL0)]}
    /\ core' = [core EXCEPT !.RTL0 = Tail(@)]
    /\ UNCHANGED <<fetchVars, dispatched, l1d, retired, memory>>

\* handle_memory_return, the DTLB's part, for one entry of an answer.
DataTranslated ==
    \E e \in dtlb :
        /\ dtlb' = dtlb \ {e}
        /\ core' = IF e.queue = "SQ" THEN [core EXCEPT !.RTS1 = Append(@, e.slot)]
                   ELSE [core EXCEPT !.RTL1 = Append(@, e.slot)]
        /\ UNCHANGED <<fetchVars, dispatched, l1d, retired, memory>>

\* The loads that the store of n to a resolves: visits of memory_instrs_depend_on_me.
Visits(n, a) ==
    LET dependents == core.rob[n].memory_instrs_depend_on_me
    IN  UNION {{[at |-> i, slot |-> core.rob[dependents[i]].lq_index[j]] :
                    j \in {j \in core.rob[dependents[i]].source_added : program[dependents[i]].load[j] = a}} :
               i \in DOMAIN dependents}

\* execute_store asserts that each load it visits waits for it, so it visits none twice.
Asserted(n, visits) ==
    \A v \in visits : /\ core.LQ[v.slot] # NoEntry /\ core.LQ[v.slot].producer = n
                      /\ \A w \in visits : w.slot = v.slot => w = v

\* What execute_store asserts of the loads it wakes, src/ooo_cpu.cc:872, holds of the
\* store that executes next.
StoreWakesItsLoads ==
    core.RTS1 # <<>> =>
        LET store == core.SQ[Head(core.RTS1)]
        IN  Asserted(store.instr, Visits(store.instr, store.address))

\* execute_store; a failed assertion ends the simulation.
ExecuteStore ==
    LET slot == Head(core.RTS1)
        n == core.SQ[slot].instr
        visits == Visits(n, core.SQ[slot].address)
    IN  /\ core.RTS1 # <<>>
        /\ Asserted(n, visits)
        /\ core' = Forwarded(Performed([core EXCEPT !.RTS1 = Tail(@), !.SQ[slot].fetched = TRUE],
                                       {[instr |-> n, slot |-> slot]}),
                             {v.slot : v \in visits}, n)
        /\ UNCHANGED <<fetchVars, dispatched, dtlb, l1d, retired, memory>>

\* execute_load, accepted by the L1D.
ExecuteLoad ==
    /\ core.RTL1 # <<>>
    /\ l1d' = l1d \cup {Head(core.RTL1)}
    /\ core' = [core EXCEPT !.RTL1 = Tail(@)]
    /\ UNCHANGED <<fetchVars, dispatched, dtlb, retired, memory>>

\* handle_memory_return, the L1D's part, for one entry of an answer.
DataReturned ==
    \E slot \in l1d :
        /\ l1d' = l1d \ {slot}
        /\ core' = Loaded(core, {slot}, memory)
        /\ UNCHANGED <<fetchVars, dispatched, dtlb, retired, memory>>

-----------------------------------------------------------------------------
\* The instructions that n's completion leaves waiting for no register.
Freed(n) == {m \in core.rob[n].registers_instrs_depend_on_me : core.rob[m].num_reg_dependent = 1}

InOrder(S) ==
    CHOOSE q \in [1 .. Cardinality(S) -> S] : \A i, j \in DOMAIN q : i < j => q[i] < q[j]

\* complete_inflight_instruction
Complete ==
    \E n \in ROB :
        /\ core.inflight_reg > 0 \/ core.inflight_mem > 0
        /\ core.rob[n].executed = INFLIGHT
        /\ core.rob[n].num_mem_ops = 0
        /\ core' = [core EXCEPT
              !.rob = [m \in Ids |->
                  IF m = n THEN [core.rob[m] EXCEPT !.executed = COMPLETED]
                  ELSE IF m \in core.rob[n].registers_instrs_depend_on_me
                  THEN [core.rob[m] EXCEPT !.num_reg_dependent = @ - 1,
                                    !.scheduled = IF m \notin Freed(n) THEN @
                                                  ELSE IF IsMemory(m) THEN INFLIGHT ELSE COMPLETED]
                  ELSE core.rob[m]],
              !.ready_to_execute = @ \o InOrder({m \in Freed(n) : ~IsMemory(m)}),
              !.inflight_reg = IF IsMemory(n) THEN @ ELSE @ - 1,
              !.inflight_mem = IF IsMemory(n) THEN @ - 1 ELSE @]
        /\ resume' = (resume \/ n \in mispredicted)
        /\ UNCHANGED <<program, warmAt, read, decoding, decoded, ifetch, itlb, l1i, DIB,
                       mispredicted, fetch_stall, dispatched, dtlb, l1d, retired, memory>>

\* retire_rob: the L1D accepts some of the stores left, and the instruction leaves
\* when it has accepted them all.
Retire ==
    LET n == retired + 1
        left == core.rob[n].destination_memory
    IN  /\ ROB # {}
        /\ core.rob[n].executed = COMPLETED
        /\ \E refused \in SUBSET left :
              LET accepted == left \ refused
                  gone == {core.rob[n].sq_index[k] : k \in accepted}
              IN  /\ \A k \in accepted, l \in refused : k < l
                  /\ memory' = [a \in Address |-> IF \E k \in accepted : program[n].store[k] = a THEN n ELSE memory[a]]
                  /\ retired' = IF refused = {} THEN n ELSE retired
                  /\ mispredicted' = IF refused = {} THEN mispredicted \ {n} ELSE mispredicted
                  /\ core' = [core EXCEPT
                        !.rob[n] = IF refused = {} THEN NoInstr ELSE [@ EXCEPT !.destination_memory = refused],
                        !.SQ = [s \in StoreSlots |-> IF s \in gone THEN NoEntry ELSE @[s]]]
        /\ UNCHANGED <<program, warmAt, read, decoding, decoded, ifetch, itlb, l1i, DIB,
                       fetch_stall, resume, dispatched, dtlb, l1d>>

Next ==
    \/ Fetch \/ Dispatch \/ Schedule \/ Execute \/ ScheduleMemory
    \/ TranslateStore \/ TranslateLoad \/ DataTranslated \/ ExecuteStore \/ ExecuteLoad \/ DataReturned
    \/ Complete \/ Retire

Spec == Init /\ [][Next]_vars

\* operate() runs in every cycle, and the caches answer: the core never stops while
\* a stage can do something.
FairSpec == Spec /\ WF_vars(Next)

-----------------------------------------------------------------------------
Times(s, queue) == Cardinality({i \in DOMAIN queue : queue[i] = s})
HeldLoad(s) == Times(s, core.RTL0) + Times(s, core.RTL1) + Cardinality({s} \cap l1d)
                 + Cardinality({e \in dtlb : e.queue = "LQ" /\ e.slot = s})
HeldStore(s) == Times(s, core.RTS0) + Times(s, core.RTS1)
                 + Cardinality({e \in dtlb : e.queue = "SQ" /\ e.slot = s})

\* Each entry of the load queue is in exactly one place that will move it on: a
\* ready queue, the DTLB or the L1D, or else the list of an earlier instruction
\* whose store to its address is still to execute.  An entry that is free is in
\* none, so no late answer reaches the load that takes it next.  The same holds of
\* the store queue until the store executes (operate_lsq, add_load_queue,
\* handle_memory_return).
EntriesHeldOnce ==
    /\ \A s \in LoadSlots :
          LET e == core.LQ[s]
          IN  HeldLoad(s) = IF e # NoEntry /\ e.producer = 0 THEN 1 ELSE 0
    /\ \A s \in LoadSlots :
          LET e == core.LQ[s]
          IN  e # NoEntry /\ e.producer # 0 =>
                /\ e.instr \in Range(core.rob[e.producer].memory_instrs_depend_on_me)
                /\ \E k \in StoresOf(e.producer) :
                      /\ program[e.producer].store[k] = e.address
                      /\ k \in core.rob[e.producer].destination_added =>
                            ~core.SQ[core.rob[e.producer].sq_index[k]].fetched
    /\ \A s \in StoreSlots :
          LET e == core.SQ[s]
          IN  HeldStore(s) = IF e # NoEntry /\ ~e.fetched THEN 1 ELSE 0

StoreExecuted(n, k) ==
    k \in core.rob[n].destination_added /\ core.SQ[core.rob[n].sq_index[k]].fetched

\* The counts that decide when an instruction completes are those of the operations
\* themselves: num_mem_ops of the loads without data and the stores not executed,
\* the two inflight counters of the instructions complete_inflight_instruction will
\* find (do_sq_forward_to_lq, execute_store, handle_memory_return, do_execution).
CountersAgree ==
    /\ \A n \in {n \in ROB : core.rob[n].executed # COMPLETED} :
          core.rob[n].num_mem_ops =
            (Len(program[n].load) - Cardinality(core.data[n])) + Cardinality({k \in StoresOf(n) : ~StoreExecuted(n, k)})
    /\ core.inflight_reg = Cardinality({n \in ROB : ~IsMemory(n) /\ core.rob[n].executed = INFLIGHT})
    /\ core.inflight_mem =
         Cardinality({n \in ROB : IsMemory(n) /\ core.rob[n].num_mem_ops = 0 /\ core.rob[n].executed # COMPLETED})

Begun(n) == \/ n \in Range(core.ready_to_execute)
            \/ core.rob[n].executed # None
            \/ core.rob[n].source_added # {} \/ core.rob[n].destination_added # {}

\* What an instruction reads has been produced before it begins: for each of its
\* source registers the last instruction before it in the trace that writes the
\* register has completed (do_scheduling, do_complete_execution).
RegistersReady ==
    \A n \in ROB : Begun(n) =>
        \A reg \in SourceRegisters(n) :
            LET writers == {m \in 1 .. n - 1 : reg \in DestinationRegisters(m)}
            IN  \A m \in writers : (\A l \in writers : l <= m) =>
                    m <= retired \/ core.rob[m].executed = COMPLETED

\* While a mispredicted branch is in the machine unresolved, it is the last
\* instruction read from the trace (init_instruction, fetch_resume_cycle).
NothingReadPastMispredict ==
    \A n \in mispredicted :
        (n > dispatched \/ core.rob[n].executed # COMPLETED) => read = n /\ fetch_stall

Sequential ==
    INSTANCE SequentialMachine
        WITH wrote   <- IF ROB = {} THEN 0
                        ELSE Len(program[retired + 1].store) - Cardinality(core.rob[retired + 1].destination_memory),
             results <- [n \in 1 .. retired |-> core.data[n]]

\* Every load returns what the last store before it in the trace wrote, wherever it
\* got it from, and the stores reach the L1D once and in the order of the trace,
\* whatever it refuses (add_load_queue, execute_store, retire_rob).
ImplementsSequentialMachine == Sequential!Spec

\* Every instruction of the trace retires, whatever waits for a register, a store, a
\* queue entry, a cache or a branch (STA, memory_instrs_depend_on_me, fetch_stall).
EveryInstructionRetires == <>(retired = Len(program))

=============================================================================
