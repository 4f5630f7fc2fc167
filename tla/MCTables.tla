------------------------------ MODULE MCTables ------------------------------
(***************************************************************************)
(* The tables that predict something: replacement policies, the reuse      *)
(* distance profile and what is computed from it, and branch targets.      *)
(* They do not touch each other, so a behaviour exercises one of them.     *)
(***************************************************************************)
EXTENDS LruReplacement, RripReplacement, Mockingjay, ReuseDistanceProfiler, StatCacheSolver,
        BranchTargetBuffer, Bitwise

CONSTANT Parts

VARIABLE part

tables == <<part, lruVars, rripVars, mjVars, profVars, solverVars, btbVars>>

\* A part that is not exercised starts in one of its initial states.
Init ==
    /\ part \in Parts
    /\ LruInit
    /\ RripInit /\ (part # "rrip" => policy = "ship" /\ position = 1)
    /\ policy = "ship" => position \in {1, Samplers}   \* with neighbours on both sides, or none
    /\ MjInit
    /\ ProfInit
    /\ SolverInit /\ (part # "solver" => \A i \in BucketIndex : counts[i] = MaxCount)
    /\ BtbInit

Next ==
    \/ part = "lru" /\ LruNext /\ UNCHANGED <<part, rripVars, mjVars, profVars, solverVars, btbVars>>
    \/ part = "rrip" /\ RripNext /\ UNCHANGED <<part, lruVars, mjVars, profVars, solverVars, btbVars>>
    \/ part = "mockingjay" /\ MjNext /\ UNCHANGED <<part, lruVars, rripVars, profVars, solverVars, btbVars>>
    \/ part = "profiler" /\ ProfNext /\ UNCHANGED <<part, lruVars, rripVars, mjVars, solverVars, btbVars>>
    \/ part = "solver" /\ SolverNext /\ UNCHANGED <<part, lruVars, rripVars, mjVars, profVars, btbVars>>
    \/ part = "btb" /\ BtbNext /\ UNCHANGED <<part, lruVars, rripVars, mjVars, profVars, solverVars>>

Spec == Init /\ [][Next]_tables

MCHalf(n) == n \div 2
MCParity(n) == n % 2
MCXor(m, n) == m ^^ n
MCBuckets == [i \in 0 .. 4 |-> <<0, 1, 2, 4, 6>>[i + 1]]

MCBranches ==
    {[ip |-> 12, type |-> "CONDITIONAL", target |-> 40, size |-> 2],
     [ip |-> 16, type |-> "DIRECT_CALL", target |-> 80, size |-> 4],
     [ip |-> 28, type |-> "INDIRECT_CALL", target |-> 80, size |-> 2],
     [ip |-> 84, type |-> "RETURN", target |-> 200, size |-> 1]}

\* GET_BUCKET and GET_DISTANCE agree, with the code's 5 exact bits and with fewer:
\* a bucket begins at or before the distances in it and ends behind them.
ASSUME BucketsHoldTheirDistances ==
    \A k \in {1, 5}, d \in 0 .. 3000 :
        LET b == GET_BUCKET_INTERNAL(k, d)
        IN  GET_DISTANCE(k, b) <= d /\ d < GET_DISTANCE(k, b + 1)
=============================================================================
