------------------------ MODULE BranchTargetBuffer ------------------------
(***************************************************************************)
(* What O3_CPU::init_instruction asks and tells the basic_btb target       *)
(* buffer (btb/basic_btb) and the bimodal predictor (branch/bimodal) for   *)
(* each branch of the trace, in program order: the two predictions, and at *)
(* once, as the trace knows the outcome, the two updates.                  *)
(***************************************************************************)
EXTENDS Integers, Sequences

CONSTANTS
    BTB_SETS, BTB_WAYS, INDIRECT_SIZE, RAS_SIZE, CALL_SIZE_TRACKERS,
    BIMODAL_PRIME, COUNTER_BITS,
    ExclusiveOr(_, _), \* exclusive or of naturals
    Branches,      \* the branches of the program: ip, type, target and size in bytes
    MaxBranches    \* bound: branches executed

BtbType == {"CONDITIONAL", "OTHER", "DIRECT_JUMP", "DIRECT_CALL", "INDIRECT", "INDIRECT_CALL", "RETURN"}

ASSUME BtbAssumption ==
    /\ {BTB_SETS, BTB_WAYS, INDIRECT_SIZE, RAS_SIZE, CALL_SIZE_TRACKERS, BIMODAL_PRIME,
        COUNTER_BITS, MaxBranches} \subseteq Nat \ {0}
    /\ \A b \in Branches : b.type \in BtbType /\ {b.ip, b.target, b.size} \subseteq Nat \ {0}

VARIABLES
    btb,            \* btb[set][way]
    lru_counter,
    indirect, conditional_history,
    ras, ras_index,
    call_instr_sizes,
    bimodal_table,
    executed,
    outcome,        \* the last branch: where it was predicted to go and where it went
    calls           \* history: the latest calls that have not returned

btbVars == <<btb, lru_counter, indirect, conditional_history, ras, ras_index,
             call_instr_sizes, bimodal_table, executed, outcome, calls>>

BtbWay == 0 .. BTB_WAYS - 1

BtbInit ==
    /\ btb = [s \in 0 .. BTB_SETS - 1 |->
                 [w \in BtbWay |-> [ip_tag |-> 0, target |-> 0, always_taken |-> FALSE, lru |-> 0]]]
    /\ lru_counter = 0
    /\ indirect = [h \in 0 .. INDIRECT_SIZE - 1 |-> 0]
    /\ conditional_history = 0
    /\ ras = [i \in 0 .. RAS_SIZE - 1 |-> 0]
    /\ ras_index = 0
    /\ call_instr_sizes = [h \in 0 .. CALL_SIZE_TRACKERS - 1 |-> 4]
    /\ bimodal_table = [h \in 0 .. BIMODAL_PRIME - 1 |-> 0]
    /\ executed = 0
    /\ outcome = [type |-> "RETURN", predicted |-> 0, target |-> 0]
    /\ calls = <<>>

IsCall(b) == b.type \in {"DIRECT_CALL", "INDIRECT_CALL"}
IsIndirect(b) == b.type \in {"INDIRECT", "INDIRECT_CALL"}
UsesBtb(b) == b.type # "RETURN" /\ ~ IsIndirect(b)

-----------------------------------------------------------------------------
SetIndex(ip) == (ip \div 4) % BTB_SETS
Entries(ip) == {w \in BtbWay : btb[SetIndex(ip)][w].ip_tag = ip}
FirstWayOf(S) == CHOOSE w \in S : \A v \in S : w <= v
LruEntry(ip) ==
    LET set == btb[SetIndex(ip)]
    IN  FirstWayOf({w \in BtbWay : \A v \in BtbWay : set[w].lru <= set[v].lru})

\* The hash takes as many of the latest conditional branches as it has bits.
IndirectHash(ip) == ExclusiveOr(ip \div 4, conditional_history) % INDIRECT_SIZE

SizeTracker(ip) == ip % CALL_SIZE_TRACKERS

Push(i) == IF i + 1 = RAS_SIZE THEN 0 ELSE i + 1

\* Mutant: below the first entry the stack stays where it is.
PopStays(i) == IF i = 0 THEN 0 ELSE i - 1

Pop(i) == IF i = 0 THEN RAS_SIZE - 1 ELSE i - 1

\* btb_prediction: the target, 0 if there is none.
Target(b) ==
    IF b.type = "RETURN" THEN ras[ras_index] + call_instr_sizes[SizeTracker(ras[ras_index])]
    ELSE IF IsIndirect(b) THEN indirect[IndirectHash(b.ip)]
    ELSE IF Entries(b.ip) = {} THEN 0
    ELSE btb[SetIndex(b.ip)][FirstWayOf(Entries(b.ip))].target

\* A branch without an entry, and any other than a conditional one, is taken.
AlwaysTaken(b) ==
    IF UsesBtb(b) /\ Entries(b.ip) # {}
    THEN btb[SetIndex(b.ip)][FirstWayOf(Entries(b.ip))].always_taken ELSE TRUE

PredictedTaken(ip) == bimodal_table[ip % BIMODAL_PRIME] >= 2 ^ (COUNTER_BITS - 1)

Predicted(b) == IF PredictedTaken(b.ip) \/ AlwaysTaken(b) THEN Target(b) ELSE 0

-----------------------------------------------------------------------------
\* A prediction from an entry makes it the latest; so does its allocation, for a
\* branch that is taken.  A branch that is not clears the target it had.
UpdateBtb(b, target, taken) ==
    LET set == SetIndex(b.ip)
        known == Entries(b.ip) # {}
        w == IF known THEN FirstWayOf(Entries(b.ip)) ELSE LruEntry(b.ip)
    IN  IF UsesBtb(b) /\ (known \/ taken)
        THEN /\ btb' = [btb EXCEPT ![set][w] =
                    [ip_tag |-> b.ip, target |-> target, lru |-> lru_counter,
                     always_taken |-> taken /\ (known => @.always_taken)]]
             /\ lru_counter' = lru_counter + 1
        ELSE UNCHANGED <<btb, lru_counter>>

UpdateHistory(b, target, taken) ==
    /\ indirect' = IF IsIndirect(b) THEN [indirect EXCEPT ![IndirectHash(b.ip)] = target]
                   ELSE indirect
    /\ conditional_history' =
           IF b.type # "CONDITIONAL" THEN conditional_history
           ELSE (2 * conditional_history + IF taken THEN 1 ELSE 0) % INDIRECT_SIZE

\* A call is pushed when it is predicted, a return popped when it is updated; a
\* return near the call corrects what is known of the call's size.
Distance(a, b) == IF a > b THEN a - b ELSE b - a

UpdateRas(b, target) ==
    /\ ras' = IF IsCall(b) THEN [ras EXCEPT ![Push(ras_index)] = b.ip]
              ELSE IF b.type = "RETURN" THEN [ras EXCEPT ![ras_index] = 0]
              ELSE ras
    /\ ras_index' = IF IsCall(b) THEN Push(ras_index)
                    ELSE IF b.type = "RETURN" THEN Pop(ras_index)
                    ELSE ras_index
    /\ call_instr_sizes' =
           IF b.type = "RETURN" /\ Distance(ras[ras_index], target) <= 10
           THEN [call_instr_sizes EXCEPT ![SizeTracker(ras[ras_index])] =
                     Distance(ras[ras_index], target)]
           ELSE call_instr_sizes

UpdateBimodal(ip, taken) ==
    bimodal_table' = [bimodal_table EXCEPT ![ip % BIMODAL_PRIME] =
        IF taken THEN (IF @ < 2 ^ COUNTER_BITS - 1 THEN @ + 1 ELSE @)
        ELSE IF @ > 0 THEN @ - 1 ELSE @]

Latest(s) == IF Len(s) > RAS_SIZE THEN Tail(s) ELSE s

Execute(b, target, taken) ==
    /\ executed < MaxBranches /\ executed' = executed + 1
    /\ outcome' = [type |-> b.type, predicted |-> Predicted(b), target |-> target]
    /\ UpdateBtb(b, target, taken)
    /\ UpdateHistory(b, target, taken)
    /\ UpdateRas(b, target)
    /\ UpdateBimodal(b.ip, taken)
    /\ calls' = IF IsCall(b) THEN Latest(Append(calls, b))
                ELSE IF b.type = "RETURN" /\ calls # <<>> THEN SubSeq(calls, 1, Len(calls) - 1)
                ELSE calls

\* A return goes behind the call that is open, or, as at the start of a trace and
\* out of a signal handler, to another place.
Outcomes(b) ==
    IF b.type = "RETURN" /\ calls # <<>>
    THEN {b.target, calls[Len(calls)].ip + calls[Len(calls)].size} ELSE {b.target}

BtbNext ==
    \E b \in Branches :
        \/ \E target \in Outcomes(b) : Execute(b, target, TRUE)
        \/ b.type \in {"CONDITIONAL", "OTHER"} /\ Execute(b, 0, FALSE)

BtbSpec == BtbInit /\ [][BtbNext]_btbVars

-----------------------------------------------------------------------------
\* A return to its call is predicted once the size of the call is known, however
\* deep the calls were nested before and however many returns had no call, as long
\* as not more than RAS_SIZE calls were open since.
ReturnsArePredicted ==
    [][ LET c == calls[Len(calls)]
        IN  /\ executed' # executed /\ outcome'.type = "RETURN" /\ calls # <<>>
            /\ outcome'.target = c.ip + c.size
            /\ call_instr_sizes[SizeTracker(c.ip)] = c.size
            => outcome'.predicted = outcome'.target
      ]_btbVars
=============================================================================
