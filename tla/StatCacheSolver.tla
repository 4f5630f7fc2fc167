-------------------------- MODULE StatCacheSolver --------------------------
(***************************************************************************)
(* The LRU solver of src/StatCache/second_solver.cpp: from a histogram of  *)
(* reuse distances it predicts the misses of a cache of L lines, by a      *)
(* bisection for the largest reuse distance whose expected number of       *)
(* different lines fits.                                                   *)
(***************************************************************************)
EXTENDS Integers, Sums

CONSTANTS
    Buckets,       \* buckets[i]: the reuse distance where bucket i begins, i from 0
    MaxCount,      \* bound: accesses in a bucket of an input histogram
    Lines          \* cache sizes asked for

LastBucket == CHOOSE n \in DOMAIN Buckets : \A i \in DOMAIN Buckets : i <= n
BucketIndex == 0 .. LastBucket

ASSUME SolverAssumption ==
    /\ LastBucket \in Nat /\ DOMAIN Buckets = BucketIndex
    /\ \A i \in BucketIndex : Buckets[i] \in Nat
    /\ \A i \in 1 .. LastBucket : Buckets[i - 1] < Buckets[i]
    /\ MaxCount \in Nat \ {0} /\ Lines \subseteq Nat \ {0}

VARIABLES
    counts, cumul_histogram, total_accesses,
    size, misses            \* the last cache asked for and the answer

solverVars == <<counts, cumul_histogram, total_accesses, size, misses>>

CumulOf(h) == [i \in BucketIndex |-> SumTo(h, i)]

\* initialization reads a row of the input.
SolverInit ==
    /\ counts \in [BucketIndex -> 0 .. MaxCount]
    /\ \E i \in BucketIndex : counts[i] > 0
    /\ cumul_histogram = CumulOf(counts)
    /\ total_accesses = cumul_histogram[LastBucket]
    /\ size = 0 /\ misses = 0

-----------------------------------------------------------------------------
\* statcache_lru_calc_unique_occurancies(n), times total_accesses.  At the last
\* bucket the code reads a value behind the end of buckets, and multiplies it by
\* the accesses beyond that bucket, of which there are none.
Unseen ==
    [i \in BucketIndex |->
        IF i = LastBucket THEN 0
        ELSE (Buckets[i + 1] - Buckets[i]) * (total_accesses - cumul_histogram[i])]

Unique(n) == SumTo(Unseen, n)

\* Mutant: a bucket that fills the cache exactly is left out.
ExceedsOrFills(n, L) == Unique(n) >= L * total_accesses

Exceeds(n, L) == Unique(n) > L * total_accesses

\* The loop on low_limit and high_limit.
Limits == {r \in BucketIndex \X BucketIndex : r[1] <= r[2]}

Bisect(L, from) ==
    LET low[r \in Limits] ==
            LET middle_limit == (r[1] + r[2]) \div 2
            IN  IF r[2] - r[1] <= 1 THEN r[1]
                ELSE IF Exceeds(middle_limit, L) THEN low[<<r[1], middle_limit>>]
                ELSE low[<<middle_limit, r[2]>>]
    IN  low[<<from, LastBucket>>]

\* Where the bisection starts, and whether it gives up: nothing fits.
LowLimit(L) == IF Unique(LastBucket) <= L * total_accesses THEN LastBucket ELSE 0
GivesUp(L) == Unique(LowLimit(L)) >= L * total_accesses

HitsIn(L) == cumul_histogram[Bisect(L, LowLimit(L))]

\* statcache_lru_solver(L, false).
Solve(L) ==
    /\ size' = L
    /\ misses' = IF GivesUp(L) THEN total_accesses ELSE total_accesses - HitsIn(L)
    /\ UNCHANGED <<counts, cumul_histogram, total_accesses>>

\* statcache_lru_solver(L, true) takes what this cache hits out of the histogram;
\* its caller then reads total_accesses again.
SolveAndEmpty(L) ==
    LET low == Bisect(L, LowLimit(L))
    IN  /\ size' = L
        /\ IF GivesUp(L) THEN misses' = total_accesses /\ UNCHANGED <<counts, cumul_histogram>>
           ELSE /\ misses' = total_accesses - HitsIn(L)
                /\ counts' = [i \in BucketIndex |-> IF i <= low THEN 0 ELSE counts[i]]
                /\ cumul_histogram' = [i \in BucketIndex |->
                       IF i < low THEN 0 ELSE cumul_histogram[i] - HitsIn(L)]
        /\ total_accesses' = cumul_histogram'[LastBucket]

SolverNext == \E L \in Lines : total_accesses > 0 /\ (Solve(L) \/ SolveAndEmpty(L))

SolverSpec == SolverInit /\ [][SolverNext]_solverVars

-----------------------------------------------------------------------------
\* The reuse distances of a bucket hit in a cache of L lines when the lines
\* expected up to its end fit.
Fits(i, L) == Unique(i) <= L * total_accesses

\* The answer is what a search of all buckets gives, and the histogram stays its
\* own cumulation, also after a smaller cache has taken its hits out.  Excepted
\* are caches that the first bucket, or all of them, fill exactly, see the README.
SolverFindsTheCut ==
    [][ /\ cumul_histogram' = CumulOf(counts')
        /\ \/ \E i \in {0, LastBucket} : Unique(i) = size' * total_accesses
           \/ misses' = SumTo([i \in BucketIndex |-> IF Fits(i, size') THEN 0 ELSE counts[i]],
                              LastBucket)
      ]_solverVars
=============================================================================
