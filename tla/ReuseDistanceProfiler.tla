----------------------- MODULE ReuseDistanceProfiler -----------------------
(***************************************************************************)
(* The profiler that the rdlru policy feeds (replacement/rdlru): every     *)
(* SAMPLING_PERIOD-th access leaves a sample of its line, and the next     *)
(* access to that line takes it and counts the accesses in between in a    *)
(* histogram of reuse distances.                                           *)
(***************************************************************************)
EXTENDS Integers, FiniteSets, Sums

CONSTANTS
    ExactBits,                        \* 5: distances below 1 << 6 have buckets of their own
    MAX_BUCKET,
    SAMPLING_PERIOD, REFRESH_PERIOD,  \* powers of two
    Block, TagOf(_),                  \* addresses and GET_TAG
    MaxNow                            \* bound: accesses

ASSUME ProfilerAssumption ==
    {MAX_BUCKET, SAMPLING_PERIOD, REFRESH_PERIOD} \subseteq Nat \ {0} /\ ExactBits \in Nat

Unsampled == -1

VARIABLES
    now_lcl,
    taken,                        \* sampler: the memstamp of each tag, or Unsampled
    histogram, histogram_read,
    lastUse, samples              \* history: when each tag was last used, samples ever added

profVars == <<now_lcl, taken, histogram, histogram_read, lastUse, samples>>

LineTag == {TagOf(a) : a \in Block}

ProfInit ==
    /\ now_lcl = 0
    /\ taken = [t \in LineTag |-> Unsampled]
    /\ histogram = [b \in 0 .. MAX_BUCKET |-> 0]
    /\ histogram_read = histogram
    /\ lastUse = [t \in LineTag |-> Unsampled]
    /\ samples = 0

-----------------------------------------------------------------------------
\* 1 << n.
Bit(n) == LET shifted[i \in 0 .. n] == IF i = 0 THEN 1 ELSE 2 * shifted[i - 1] IN shifted[n]

\* MSB(x) of a positive number.
MSB(x) == CHOOSE n \in 0 .. x : Bit(n) <= x /\ x < Bit(n + 1)

BITS_QUANTIZATION(k, d) == IF d >= Bit(k + 1) THEN MSB(d) - k ELSE 0

\* Distances below 1 << k + 1 have a bucket each, longer ones 1 << k to a power of two.
GET_BUCKET_INTERNAL(k, d) ==
    LET q == BITS_QUANTIZATION(k, d) IN d \div Bit(q) + Bit(k) * q

GET_BUCKET(d) ==
    LET b == GET_BUCKET_INTERNAL(ExactBits, d) IN IF b <= MAX_BUCKET THEN b ELSE MAX_BUCKET

\* The least distance of a bucket, printed with its count.
GET_DISTANCE(k, b) ==
    LET q == b \div Bit(k)
    IN  IF b < Bit(k + 1) THEN b ELSE Bit(q + k - 1) + Bit(q - 1) * (b % Bit(k))

-----------------------------------------------------------------------------
\* The sampler: a tag has at most one sample, removed at its next use.
Has(tag) == taken[tag] # Unsampled

Resampled(tag, now) ==
    [taken EXCEPT ![tag] = IF now % SAMPLING_PERIOD = 0 THEN now ELSE Unsampled]

\* Mutant: an access between two sampling points never looks for a sample.
ReturnsEarlyUnlessDue(tag, now) == now % SAMPLING_PERIOD # 0

ReturnsEarly(tag, now) ==
    ~ Has(tag) /\ now % SAMPLING_PERIOD # 0 /\ now % REFRESH_PERIOD # 0

Counted(h, distance) == [h EXCEPT ![GET_BUCKET(distance)] = @ + 1]

\* update: called for loads and stores that hit or fill.
UpdateProfile(addr, is_read) ==
    LET tag == TagOf(addr)
        now == now_lcl + 1
        found == Has(tag)
        distance == now - taken[tag] - 1
    IN  /\ now_lcl < MaxNow
        /\ now_lcl' = now
        /\ lastUse' = [lastUse EXCEPT ![tag] = now]
        /\ IF ReturnsEarly(tag, now) THEN UNCHANGED <<taken, histogram, histogram_read, samples>>
           ELSE /\ histogram' = IF found THEN Counted(histogram, distance) ELSE histogram
                /\ histogram_read' = IF found /\ is_read THEN Counted(histogram_read, distance)
                                     ELSE histogram_read
                /\ taken' = Resampled(tag, now)
                /\ samples' = IF Resampled(tag, now)[tag] = now THEN samples + 1 ELSE samples

ProfNext == \E a \in Block, is_read \in BOOLEAN : UpdateProfile(a, is_read)

-----------------------------------------------------------------------------
Live == {t \in LineTag : Has(t)}

ProfSpec == ProfInit /\ [][ProfNext]_profVars

\* Each sample is counted once, with the distance of one reuse: a sample still
\* waiting was left by the last access to its line, and those no longer waiting
\* are in the histogram.
SamplesAreReuses ==
    /\ \A t \in Live : taken[t] = lastUse[t]
    /\ samples = SumTo(histogram, MAX_BUCKET) + Cardinality(Live)
=============================================================================
