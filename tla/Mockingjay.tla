----------------------------- MODULE Mockingjay -----------------------------
(***************************************************************************)
(* One sampled set of a cache under the mockingjay policy                  *)
(* (replacement/mockingjay).  A sampled cache remembers who used a line    *)
(* last and when; the next use tells the reuse distance of that signature, *)
(* in rdp.  Each block carries the estimated time to its next use, in etr, *)
(* and the one whose next use is farthest, before or behind, leaves.       *)
(***************************************************************************)
EXTENDS Integers, FiniteSets

CONSTANTS
    LLC_WAY, HISTORY, GRANULARITY,
    NeverMargin,           \* MAX_RD is INF_RD - 22 in the code
    SAMPLED_CACHE_WAYS,
    SampledIndex(_),       \* which of the sampled cache's sets of this set a line goes to
    TimestampRange,        \* 1 << TIMESTAMP_BITS
    FLEXMIN_PENALTY,       \* 2 with one core
    TemporalDivisor,       \* 1 / TEMP_DIFFERENCE
    MjLine, NoMjLine, Pc,
    MaxAccesses            \* bound: accesses to the set

INF_RD  == LLC_WAY * HISTORY - 1
INF_ETR == (LLC_WAY * HISTORY) \div GRANULARITY - 1
MAX_RD  == INF_RD - NeverMargin

ASSUME MockingjayAssumption ==
    /\ {LLC_WAY, HISTORY, GRANULARITY, SAMPLED_CACHE_WAYS, TimestampRange, TemporalDivisor}
           \subseteq Nat \ {0}
    /\ INF_RD < TimestampRange
    /\ NoMjLine \notin MjLine

VARIABLES
    held,              \* the line in each way
    etr, etr_clock,
    rdp,               \* reuse distance of each signature seen
    current_timestamp,
    sampled_cache,     \* sampled_cache[index][way]
    accesses

mjVars == <<held, etr, etr_clock, rdp, current_timestamp, sampled_cache, accesses>>

MjWay == 0 .. LLC_WAY - 1
SampleWay == 0 .. SAMPLED_CACHE_WAYS - 1
AccessType == {"LOAD", "PREFETCH", "WRITEBACK"}

\* get_pc_signature, without collisions.
PcSignature(pc, hit, prefetch) == <<pc, hit, prefetch>>

NoSample == [valid |-> FALSE, tag |-> NoMjLine, signature |-> <<>>, timestamp |-> 0]

MjInit ==
    /\ held = [w \in MjWay |-> NoMjLine]
    /\ etr = [w \in MjWay |-> 0]
    /\ etr_clock = GRANULARITY
    /\ rdp = <<>>
    /\ current_timestamp = 0
    /\ sampled_cache = [i \in {SampledIndex(l) : l \in MjLine} |-> [w \in SampleWay |-> NoSample]]
    /\ accesses = 0

Abs(n) == IF n < 0 THEN -n ELSE n
Least(S) == CHOOSE x \in S : \A y \in S : x <= y
Greatest(S) == CHOOSE x \in S : \A y \in S : x >= y
Known(r, s) == s \in DOMAIN r
Learnt(r, s, d) == [t \in DOMAIN r \cup {s} |-> IF t = s THEN d ELSE r[t]]

-----------------------------------------------------------------------------
\* find_victim: overdue blocks before those as far ahead, later ones of these and
\* earlier ones of those, unless the new line's next use is farther still.
Farthest == Greatest({Abs(etr[w]) : w \in MjWay})

MjVictim ==
    LET far == {w \in MjWay : Abs(etr[w]) = Farthest}
        overdue == {w \in far : etr[w] < 0}
    IN  IF overdue # {} THEN Greatest(overdue) ELSE Least(far)

Bypasses(pc, type) ==
    LET s == PcSignature(pc, FALSE, type = "PREFETCH")
    IN  /\ type # "WRITEBACK" /\ Known(rdp, s)
        /\ rdp[s] > MAX_RD \/ rdp[s] \div GRANULARITY > Farthest

MjFree == {w \in MjWay : held[w] = NoMjLine}

MjFillWay(pc, type) ==
    IF MjFree # {} THEN Least(MjFree)
    ELSE IF Bypasses(pc, type) THEN LLC_WAY
    ELSE MjVictim

-----------------------------------------------------------------------------
\* temporal_difference: one step towards the sample when it is far enough.
TemporalDifference(init, sample) ==
    LET diff == Abs(sample - init) \div TemporalDivisor
        step == IF diff < 1 THEN diff ELSE 1
    IN  IF sample > init THEN Least({init + step, INF_RD})
        ELSE Greatest({init - step, 0})

\* time_elapsed: timestamps go around.
Elapsed(stamp) == (current_timestamp - stamp) % TimestampRange

\* detrain: the signature of a line that leaves the sampled cache unused.
Detrained(r, e) ==
    IF ~ e.valid THEN r
    ELSE Learnt(r, e.signature,
                IF Known(r, e.signature) THEN Least({r[e.signature] + 1, INF_RD}) ELSE INF_RD)

\* The entries of a sampled set that hold the line of an access.
Matching(set, l) == {w \in SampleWay : set[w].valid /\ set[w].tag = l}

\* Mutant: the entry that trained its signature stays.
ReusedKept(set, l) == {}

\* The entry, if any, that is reused in time: it trains its signature and goes.
Reused(set, l) ==
    {w \in Matching(set, l) : w = Least(Matching(set, l)) /\ Elapsed(set[w].timestamp) <= INF_RD}

Trained(set, l, type) ==
    IF \A w \in Matching(set, l) : Elapsed(set[w].timestamp) > INF_RD THEN rdp
    ELSE LET e == set[Least(Matching(set, l))]
             sample == Elapsed(e.timestamp) * (IF type = "PREFETCH" THEN FLEXMIN_PENALTY ELSE 1)
         IN  Learnt(rdp, e.signature,
                    IF Known(rdp, e.signature) THEN TemporalDifference(rdp[e.signature], sample)
                    ELSE sample)

\* The scan detrains every entry that is too old, in order, and when none is free
\* the oldest.
Expired(set) == {w \in SampleWay : set[w].valid /\ Elapsed(set[w].timestamp) > INF_RD}

Removed(set) ==
    IF Expired(set) # {} \/ \E w \in SampleWay : ~ set[w].valid THEN Expired(set)
    ELSE LET age(w) == Elapsed(set[w].timestamp)
         IN  {Least({w \in SampleWay : \A v \in SampleWay : age(v) <= age(w)})}

DetrainedAll(r, set, ways) ==
    LET after[n \in 0 .. SAMPLED_CACHE_WAYS] ==
            IF n = 0 THEN r
            ELSE IF n - 1 \in ways THEN Detrained(after[n - 1], set[n - 1])
            ELSE after[n - 1]
    IN  after[SAMPLED_CACHE_WAYS]

Sample(l, pc, type, hit) ==
    LET i == SampledIndex(l)
        searched == [w \in SampleWay |->
                        [sampled_cache[i][w] EXCEPT
                            !.valid = @ /\ w \notin Reused(sampled_cache[i], l)]]
        removed == Removed(searched)
        scanned == [w \in SampleWay |-> [searched[w] EXCEPT !.valid = @ /\ w \notin removed]]
        free == Least({w \in SampleWay : ~ scanned[w].valid})
    IN  /\ rdp' = DetrainedAll(Trained(sampled_cache[i], l, type), searched, removed)
        /\ sampled_cache' = [sampled_cache EXCEPT ![i] = [scanned EXCEPT ![free] =
               [valid |-> TRUE, tag |-> l, timestamp |-> current_timestamp,
                signature |-> PcSignature(pc, hit, type = "PREFETCH")]]]
        /\ current_timestamp' = (current_timestamp + 1) % TimestampRange

-----------------------------------------------------------------------------
\* update_replacement_state on way w, LLC_WAY when the line was not cached.
Aged(w) ==
    IF etr_clock # GRANULARITY THEN etr
    ELSE [v \in MjWay |-> IF v # w /\ Abs(etr[v]) < INF_ETR THEN etr[v] - 1 ELSE etr[v]]

Estimate(s) ==
    IF ~ Known(rdp', s) THEN 0
    ELSE IF rdp'[s] > MAX_RD THEN INF_ETR
    ELSE rdp'[s] \div GRANULARITY

Update(w, l, pc, type, hit) ==
    /\ Sample(l, pc, type, hit)
    /\ etr_clock' = (etr_clock % GRANULARITY) + 1
    /\ etr' = IF w \notin MjWay THEN Aged(w)
              ELSE [Aged(w) EXCEPT ![w] = Estimate(PcSignature(pc, hit, type = "PREFETCH"))]

MjHit(w, pc, type) ==
    /\ held[w] # NoMjLine
    /\ accesses < MaxAccesses /\ accesses' = accesses + 1
    /\ type # "WRITEBACK"   \* which changes nothing
    /\ Update(w, held[w], pc, type, TRUE)
    /\ UNCHANGED held

MjFill(l, pc, type) ==
    LET w == MjFillWay(pc, type)
    IN  /\ \A v \in MjWay : held[v] # l
        /\ accesses < MaxAccesses /\ accesses' = accesses + 1
        /\ held' = IF w \in MjWay THEN [held EXCEPT ![w] = l] ELSE held
        /\ IF type = "WRITEBACK"
           THEN /\ etr' = [etr EXCEPT ![w] = -INF_ETR]
                /\ UNCHANGED <<etr_clock, rdp, current_timestamp, sampled_cache>>
           ELSE Update(w, l, pc, type, FALSE)

MjNext ==
    \E pc \in Pc, type \in AccessType :
        \/ \E w \in MjWay : MjHit(w, pc, type)
        \/ \E l \in MjLine : MjFill(l, pc, type)

MjSpec == MjInit /\ [][MjNext]_mjVars

-----------------------------------------------------------------------------
\* A line is remembered once, so that a reuse trains one signature and is not
\* taken for two, although reused, expired and displaced entries leave the sampled
\* cache in three different ways and a line that bypasses the cache is sampled
\* like any other.
LinesSampledOnce ==
    \A i \in DOMAIN sampled_cache : \A v, w \in SampleWay :
        LET a == sampled_cache[i][v]
            b == sampled_cache[i][w]
        IN  v # w /\ a.valid /\ b.valid => a.tag # b.tag
=============================================================================
