---------------------------- MODULE MemoryService ----------------------------
(***************************************************************************)
(* What the caches are promised by the memory, and what CacheHierarchy     *)
(* takes for granted: reads of one block are joined, a read of a block     *)
(* that is about to be written is answered at once, and everything         *)
(* accepted is served at some time, in any order, exactly once.            *)
(***************************************************************************)
EXTENDS Naturals, FiniteSets

CONSTANTS Name, Block,
    Channels    \* how many requests one cycle can serve

VARIABLES
    reads,    \* reads[b]: who waits for block b
    writes,   \* the blocks waiting to be written
    waiting   \* the names that have not been answered

vars == <<reads, writes, waiting>>

Init ==
    /\ reads = [b \in Block |-> {}]
    /\ writes = {}
    /\ waiting = {}

\* A new name waits for a block that no accepted write covers.
AcceptRead(n, b) ==
    /\ n \notin waiting
    /\ b \notin writes
    /\ reads' = [reads EXCEPT ![b] = @ \cup {n}]
    /\ waiting' = waiting \cup {n}
    /\ UNCHANGED writes

AcceptWrite(b) ==
    /\ writes' = writes \cup {b}
    /\ UNCHANGED <<reads, waiting>>

\* In one cycle every channel answers all who wait for one block, or takes one
\* write to the memory, or does neither.
Serve ==
    \E R \in SUBSET Block, W \in SUBSET writes :
        /\ Cardinality(R) + Cardinality(W) <= Channels
        /\ reads' = [b \in Block |-> IF b \in R THEN {} ELSE reads[b]]
        /\ writes' = writes \ W
        /\ waiting' = waiting \ UNION {reads[b] : b \in R}

Next ==
    \/ \E n \in Name, b \in Block : AcceptRead(n, b)
    \/ \E b \in Block : AcceptWrite(b)
    \/ Serve

Spec == Init /\ [][Next]_vars
=============================================================================
