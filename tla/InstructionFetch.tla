-------------------------- MODULE InstructionFetch --------------------------
(***************************************************************************)
(* The front end of O3_CPU (src/ooo_cpu.cc): the trace is read into the    *)
(* IFETCH_BUFFER, translated by the ITLB, fetched from the L1I or found in *)
(* the DIB, decoded and handed to the DISPATCH_BUFFER.                     *)
(*                                                                         *)
(* Instructions pass through every buffer in the order of the trace, so a  *)
(* buffer holds an interval of instr_ids: IFETCH_BUFFER those in           *)
(* decoding + 1 .. read, DECODE_BUFFER those in decoded + 1 .. decoding,   *)
(* DISPATCH_BUFFER those in dispatched + 1 .. decoded.  When the delay     *)
(* queues release what they hold is DelayQueue's subject; here time is     *)
(* left open, and a stage takes its instructions one by one.               *)
(***************************************************************************)
EXTENDS Integers, Sequences, FiniteSets

CONSTANTS
    Traces,                  \* [code, warm]: sequences of instructions, and which of them is
                             \* the first to be read with warmup_complete set
    MaxLength,               \* bound: their length
    IFETCH_SIZE, FETCH_WIDTH, DECODE_SIZE, DISPATCH_SIZE,
    DIB_SIZE,                \* windows the decoded instruction buffer holds
    ITLB_SIZE, L1I_SIZE      \* requests the ITLB and the L1I hold before they refuse

VARIABLES
    program,        \* the trace
    warmAt,         \* the first instr_id read after the warm-up, which other cores may prolong
    read,           \* instr_unique_id
    decoding, decoded, dispatched,
    ifetch,         \* the state of each instruction in IFETCH_BUFFER
    itlb, l1i,      \* the groups whose translation, whose line is awaited
    DIB,            \* the windows in the decoded instruction buffer
    mispredicted,   \* the instructions with branch_mispredicted set
    fetch_stall,
    resume          \* fetch_resume_cycle # 0

fetchVars == <<program, warmAt, read, decoding, decoded, ifetch, itlb, l1i, DIB,
               mispredicted, fetch_stall, resume>>

Ids == 1 .. MaxLength

None == 0   INFLIGHT == 1   COMPLETED == 2

REG_STACK_POINTER == 6   REG_FLAGS == 25   REG_INSTRUCTION_POINTER == 26

-----------------------------------------------------------------------------
\* The kind of branch an instruction is, from the registers it reads and writes.
BranchType(i) ==
    LET reads_sp    == REG_STACK_POINTER \in i.src
        writes_sp   == REG_STACK_POINTER \in i.dst
        reads_flags == REG_FLAGS \in i.src
        reads_ip    == REG_INSTRUCTION_POINTER \in i.src
        writes_ip   == REG_INSTRUCTION_POINTER \in i.dst
        reads_other == i.src \ {REG_STACK_POINTER, REG_FLAGS, REG_INSTRUCTION_POINTER} # {}
        call == reads_sp /\ reads_ip /\ writes_sp /\ ~reads_flags
    IN  CASE ~writes_ip -> "NOT_BRANCH"
          [] writes_ip /\ ~reads_sp /\ ~reads_flags -> IF reads_other THEN "INDIRECT" ELSE "DIRECT_JUMP"
          [] writes_ip /\ ~reads_sp /\ reads_flags ->
                IF reads_ip /\ ~writes_sp /\ ~reads_other THEN "CONDITIONAL" ELSE "OTHER"
          [] writes_ip /\ reads_sp ->
                IF call THEN IF reads_other THEN "INDIRECT_CALL" ELSE "DIRECT_CALL"
                ELSE IF ~reads_ip /\ writes_sp THEN "RETURN" ELSE "OTHER"

IsBranch(n)       == BranchType(program[n]) # "NOT_BRANCH"
DetectedAtDecode(n) == BranchType(program[n]) \in {"DIRECT_JUMP", "DIRECT_CALL"}

\* Instructions read during the warm-up have no register dependences.
Cold(n) == n < warmAt

IsMemory(n) == program[n].load # <<>> \/ program[n].store # <<>>

\* Stack pointer folding: the pointer is a result only when it moves by an amount
\* the execution computes.
Folded(i, mem) ==
    LET reads_other == i.src \ {REG_STACK_POINTER, REG_FLAGS, REG_INSTRUCTION_POINTER} # {}
    IN  IF BranchType(i) # "NOT_BRANCH" \/ mem \/ ~reads_other THEN i.dst \ {REG_STACK_POINTER} ELSE i.dst

SourceRegisters(n)      == IF Cold(n) THEN {} ELSE program[n].src
DestinationRegisters(n) == IF Cold(n) THEN {} ELSE Folded(program[n], IsMemory(n))

-----------------------------------------------------------------------------
Blank == [translated |-> None, fetched |-> None, decoded |-> FALSE, pa |-> 0]

FetchInit ==
    /\ \E t \in Traces : program = t.code /\ warmAt = t.warm
    /\ read = 0 /\ decoding = 0 /\ decoded = 0
    /\ ifetch = [n \in Ids |-> Blank]
    /\ itlb = {} /\ l1i = {}
    /\ DIB = {}
    /\ mispredicted = {}
    /\ fetch_stall = FALSE /\ resume = FALSE

Buffered == decoding + 1 .. read

\* A push_back takes the slot after the last one: what an iterator kept from
\* instruction n points to now.
PointedTo(n) == {m \in Buffered : m % (IFETCH_SIZE + 1) = n % (IFETCH_SIZE + 1)}

\* init_instruction: a mispredicted branch stalls fetch once the warm-up is over.
InitInstruction ==
    LET n == read + 1
    IN  /\ ~fetch_stall
        /\ n <= Len(program)
        /\ Cardinality(Buffered) < IFETCH_SIZE
        /\ read' = n
        /\ \/ UNCHANGED <<fetch_stall, mispredicted>>
           \/ /\ IsBranch(n) /\ ~Cold(n)
              /\ fetch_stall' = TRUE
              /\ mispredicted' = mispredicted \cup {n}
        /\ UNCHANGED <<program, warmAt, decoding, decoded, ifetch, itlb, l1i, DIB, resume>>

\* check_dib: the head of the buffer skips translation, fetch and decode on a hit.
DibHits == {n \in Buffered : n <= decoding + FETCH_WIDTH /\ program[n].window \in DIB}

CheckDib ==
    /\ DibHits # {}
    /\ ifetch' = [n \in Ids |-> IF n \notin DibHits THEN ifetch[n]
                                ELSE [ifetch[n] EXCEPT !.translated = COMPLETED, !.fetched = COMPLETED,
                                                       !.decoded = TRUE]]
    /\ UNCHANGED <<program, warmAt, read, decoding, decoded, itlb, l1i, DIB,
                   mispredicted, fetch_stall, resume>>

-----------------------------------------------------------------------------
\* The instructions from the first one of S on, as long as the key stays the same.
First(S) == CHOOSE n \in S : \A m \in S : n <= m
Run(n, key) == {m \in Buffered : m >= n /\ \A l \in n .. m : key[l] = key[n]}

\* A group is sent when its end is in the buffer, or when it has come to the head.
Sent(n, group) == read \notin group \/ n = decoding + 1

Page(n) == program[n].page
Line(n) == program[n].line

\* translate_fetch, accepted by the ITLB; a refusal changes nothing.
TranslateFetch ==
    LET waiting == {n \in Buffered : ifetch[n].translated = None}
        n == First(waiting)
        group == Run(n, [m \in Buffered |-> Page(m)])
    IN  /\ waiting # {}
        /\ Sent(n, group)
        /\ Cardinality(itlb) < ITLB_SIZE
        /\ itlb' = itlb \cup {[page |-> Page(n), deps |-> group]}
        /\ ifetch' = [m \in Ids |-> IF m \in group THEN [ifetch[m] EXCEPT !.translated = INFLIGHT] ELSE ifetch[m]]
        /\ UNCHANGED <<program, warmAt, read, decoding, decoded, l1i, DIB,
                       mispredicted, fetch_stall, resume>>

\* A packet without the instruction just served; it leaves with its last one.
Served(packets, p, n) ==
    (packets \ {p}) \cup (IF p.deps = {n} THEN {} ELSE {[p EXCEPT !.deps = @ \ {n}]})

\* handle_memory_return, the ITLB's part, for one instruction of an answer.
Translated ==
    \E p \in itlb :
        LET n == First(p.deps)
            hit == {m \in PointedTo(n) : Page(m) = p.page /\ ifetch[m].translated # None}
        IN  /\ itlb' = Served(itlb, p, n)
            /\ ifetch' = [m \in Ids |-> IF m \in hit THEN [ifetch[m] EXCEPT !.translated = COMPLETED, !.pa = Line(m)]
                                        ELSE ifetch[m]]
            /\ UNCHANGED <<program, warmAt, read, decoding, decoded, l1i, DIB,
                           mispredicted, fetch_stall, resume>>

\* fetch_instruction, accepted by the L1I: a run of instructions with one physical line.
FetchInstruction ==
    LET waiting == {n \in Buffered : ifetch[n].translated = COMPLETED /\ ifetch[n].fetched = None}
        n == First(waiting)
        PA(m) == ifetch[m].pa
        group == Run(n, [m \in Buffered |-> PA(m)])
    IN  /\ waiting # {}
        /\ Sent(n, group)
        /\ Cardinality(l1i) < L1I_SIZE
        /\ l1i' = l1i \cup {[line |-> PA(n), deps |-> group]}
        /\ ifetch' = [m \in Ids |-> IF m \in group THEN [ifetch[m] EXCEPT !.fetched = INFLIGHT] ELSE ifetch[m]]
        /\ UNCHANGED <<program, warmAt, read, decoding, decoded, itlb, DIB,
                       mispredicted, fetch_stall, resume>>

\* handle_memory_return, the L1I's part, for one instruction of an answer.
Fetched ==
    \E p \in l1i :
        LET n == First(p.deps)
            hit == {m \in PointedTo(n) : /\ ifetch[m].pa = p.line
                                         /\ ifetch[m].fetched # None
                                         /\ ifetch[m].translated = COMPLETED}
        IN  /\ l1i' = Served(l1i, p, n)
            /\ ifetch' = [m \in Ids |-> IF m \in hit THEN [ifetch[m] EXCEPT !.fetched = COMPLETED] ELSE ifetch[m]]
            /\ UNCHANGED <<program, warmAt, read, decoding, decoded, itlb, DIB,
                           mispredicted, fetch_stall, resume>>

-----------------------------------------------------------------------------
\* promote_to_decode: what is decoded already waits no time in the DECODE_BUFFER.
PromoteToDecode ==
    LET n == decoding + 1
    IN  /\ Buffered # {}
        /\ decoding - decoded < DECODE_SIZE
        /\ ifetch[n].translated = COMPLETED
        /\ ifetch[n].fetched = COMPLETED
        /\ decoding' = n
        /\ ifetch' = [ifetch EXCEPT ![n] = Blank]
        /\ UNCHANGED <<program, warmAt, read, decoded, itlb, l1i, DIB,
                       mispredicted, fetch_stall, resume>>

\* do_dib_update: a window that is not in the DIB takes the place of another.
DibUpdated(w) ==
    IF w \in DIB THEN {DIB}
    ELSE IF Cardinality(DIB) < DIB_SIZE THEN {DIB \cup {w}}
    ELSE {(DIB \ {victim}) \cup {w} : victim \in DIB}

\* decode_instruction: direct jumps and calls learn here that they were mispredicted.
DecodeInstruction ==
    LET n == decoded + 1
    IN  /\ n <= decoding
        /\ decoded - dispatched < DISPATCH_SIZE
        /\ decoded' = n
        /\ DIB' \in DibUpdated(program[n].window)
        /\ IF n \in mispredicted /\ DetectedAtDecode(n)
           THEN mispredicted' = mispredicted \ {n} /\ resume' = TRUE
           ELSE UNCHANGED <<mispredicted, resume>>
        /\ UNCHANGED <<program, warmAt, read, decoding, ifetch, itlb, l1i, fetch_stall>>

\* Mutant: fetch_resume_cycle is left as it was.
ResumeFetchKept ==
    /\ fetch_stall /\ resume
    /\ fetch_stall' = FALSE
    /\ UNCHANGED <<program, warmAt, read, decoding, decoded, ifetch, itlb, l1i, DIB, mispredicted, resume>>

\* fetch_instruction: fetch goes on when the penalty is over.
ResumeFetch ==
    /\ fetch_stall /\ resume
    /\ fetch_stall' = FALSE
    /\ resume' = FALSE
    /\ UNCHANGED <<program, warmAt, read, decoding, decoded, ifetch, itlb, l1i, DIB, mispredicted>>

FetchNext ==
    \/ InitInstruction \/ CheckDib
    \/ TranslateFetch \/ Translated \/ FetchInstruction \/ Fetched
    \/ PromoteToDecode \/ DecodeInstruction \/ ResumeFetch

=============================================================================
