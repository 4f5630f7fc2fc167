---------------------------- MODULE TableProofs ----------------------------
(***************************************************************************)
(* Proofs about the tables that predict something.  The sampled            *)
(* cache of the mockingjay policy remembers a line once, for every         *)
(* geometry, reach of the timestamps and number of accesses; the reuse     *)
(* distance profiler's samples are reuses, for every set of lines, number  *)
(* of buckets and sampling period; srrip, drrip and ship keep a block that *)
(* was used again longer than an older one that was not, for every         *)
(* associativity and every range of the intervals; the return stack of     *)
(* basic_btb predicts the returns to open calls, for every program; the    *)
(* bisection of the StatCache solver finds what a search of all buckets    *)
(* would, for every histogram.                                             *)
(***************************************************************************)
EXTENDS Mockingjay, ReuseDistanceProfiler, RripReplacement, BranchTargetBuffer,
        StatCacheSolver,
        SequenceTheorems, NaturalsInduction, WellFoundedInduction, FiniteSetTheorems, TLAPS

-----------------------------------------------------------------------------
(* The mockingjay policy. *)

SampledSets == {SampledIndex(l) : l \in MjLine}

Entry == [valid : BOOLEAN, tag : MjLine \cup {NoMjLine}, timestamp : Int,
          signature : (Pc \X BOOLEAN \X BOOLEAN) \cup {<<>>}]

MjTyped ==
    /\ held \in [MjWay -> MjLine \cup {NoMjLine}]
    /\ current_timestamp \in Int
    /\ sampled_cache \in [SampledSets -> [SampleWay -> Entry]]

MjInv == MjTyped /\ LinesSampledOnce

\* A set of the sampled cache with different lines in its valid entries.
Distinct(set) ==
    \A v, w \in SampleWay :
        v # w /\ set[v].valid /\ set[w].valid => set[v].tag # set[w].tag

LEMMA SampledOnceIsDistinct ==
    ASSUME MjTyped
    PROVE  LinesSampledOnce <=> \A i \in SampledSets : Distinct(sampled_cache[i])
<1>1. DOMAIN sampled_cache = SampledSets
  BY DEF MjTyped
<1> QED
  BY <1>1 DEF LinesSampledOnce, Distinct

LEMMA InitIInv == MjInit => MjInv
<1> SUFFICES ASSUME MjInit PROVE MjInv
  OBVIOUS
<1>1. NoSample \in Entry /\ ~ NoSample.valid
  BY DEF NoSample, Entry
<1>2. MjTyped
  BY <1>1 DEF MjInit, MjTyped, SampledSets
<1>3. \A i \in SampledSets : \A w \in SampleWay : ~ sampled_cache[i][w].valid
  BY <1>1 DEF MjInit, SampledSets
<1> QED
  BY <1>2, <1>3, SampledOnceIsDistinct DEF MjInv, Distinct

LEMMA ElapsedIsInteger ==
    ASSUME current_timestamp \in Int, NEW t \in Int
    PROVE  Elapsed(t) \in Int /\ INF_RD \in Int
<1> USE MockingjayAssumption
<1>1. TimestampRange \in Nat \ {0} /\ LLC_WAY \in Nat \ {0} /\ HISTORY \in Nat \ {0}
  OBVIOUS
<1>2. LLC_WAY * HISTORY \in Int
  BY <1>1
<1>3. current_timestamp - t \in Int
  OBVIOUS
<1> QED
  BY <1>1, <1>2, <1>3 DEF Elapsed, INF_RD

\* Where a line is the tag of one entry at most, the least entry that holds it
\* is the one that does.
LEMMA LeastMatching ==
    ASSUME NEW set, Distinct(set), NEW l, NEW w \in Matching(set, l)
    PROVE  w = Least(Matching(set, l))
<1>1. \A v \in Matching(set, l) : v \in SampleWay /\ set[v].valid /\ set[v].tag = l
  BY DEF Matching
<1>2. Matching(set, l) = {w}
  BY <1>1 DEF Distinct
<1>3. w \in Int
  BY <1>1 DEF SampleWay
<1>4. \E x \in Matching(set, l) : \A y \in Matching(set, l) : x <= y
  BY <1>2, <1>3
<1> QED
  BY <1>2, <1>4 DEF Least

\* After the search and the scan no valid entry holds the line: the one that did
\* was reused in time, or it was too old and the scan removed it, because it
\* removes whatever is too old before it looks for a free entry.
LEMMA ScanForgetsTheLine ==
    ASSUME current_timestamp \in Int, NEW l \in MjLine,
           NEW set \in [SampleWay -> Entry], Distinct(set),
           NEW searched,
           searched = [w \in SampleWay |->
                          [set[w] EXCEPT !.valid = @ /\ w \notin Reused(set, l)]],
           NEW w \in SampleWay, set[w].tag = l,
           searched[w].valid
    PROVE  w \in Removed(searched)
<1>1. set[w] \in Entry
  OBVIOUS
<1>2. searched[w].timestamp = set[w].timestamp /\ set[w].timestamp \in Int
  BY <1>1 DEF Entry
<1>3. set[w].valid /\ w \notin Reused(set, l)
  BY <1>1 DEF Entry
<1>4. w \in Matching(set, l)
  BY <1>3 DEF Matching
<1>5. w = Least(Matching(set, l))
  BY <1>4, LeastMatching
<1>6. ~ (Elapsed(set[w].timestamp) <= INF_RD)
  BY <1>3, <1>4, <1>5 DEF Reused
<1>7. Elapsed(searched[w].timestamp) > INF_RD
  BY <1>2, <1>6, ElapsedIsInteger
<1>8. w \in Expired(searched)
  BY <1>7 DEF Expired
<1> QED
  BY <1>8 DEF Removed

LEMMA SampleKeepsIInv ==
    ASSUME MjInv, NEW l \in MjLine, NEW pc \in Pc, NEW type \in AccessType,
           NEW hit \in BOOLEAN, Sample(l, pc, type, hit),
           held' \in [MjWay -> MjLine \cup {NoMjLine}]
    PROVE  MjInv'
<1> DEFINE
      i == SampledIndex(l)
      set == sampled_cache[i]
      searched == [w \in SampleWay |->
                      [set[w] EXCEPT !.valid = @ /\ w \notin Reused(set, l)]]
      removed == Removed(searched)
      scanned == [w \in SampleWay |-> [searched[w] EXCEPT !.valid = @ /\ w \notin removed]]
      free == Least({w \in SampleWay : ~ scanned[w].valid})
      new == [valid |-> TRUE, tag |-> l, timestamp |-> current_timestamp,
              signature |-> PcSignature(pc, hit, type = "PREFETCH")]
      set2 == [scanned EXCEPT ![free] = new]
<1>1. /\ i \in SampledSets
      /\ set \in [SampleWay -> Entry]
      /\ current_timestamp \in Int
      /\ Distinct(set)
  BY SampledOnceIsDistinct DEF MjInv, MjTyped, SampledSets
<1>2. sampled_cache' = [sampled_cache EXCEPT ![i] = set2]
  BY DEF Sample
<1>3. current_timestamp' \in Int
  <2>1. TimestampRange \in Nat \ {0} /\ current_timestamp + 1 \in Int
    BY <1>1, MockingjayAssumption
  <2>2. current_timestamp' = (current_timestamp + 1) % TimestampRange
    BY Zenon DEF Sample
  <2> QED
    BY <2>1, <2>2
<1>4. \A w \in SampleWay :
         /\ searched[w] \in Entry
         /\ searched[w].tag = set[w].tag
         /\ searched[w].valid => set[w].valid
  <2> TAKE w \in SampleWay
  <2>1. set[w] \in Entry
    BY <1>1
  <2> QED
    BY <2>1 DEF Entry
<1>5. \A w \in SampleWay :
         /\ scanned[w] \in Entry
         /\ scanned[w].tag = set[w].tag
         /\ scanned[w].valid => set[w].valid /\ searched[w].valid /\ w \notin removed
  <2> HIDE DEF searched, removed
  <2> TAKE w \in SampleWay
  <2>1. searched[w] \in Entry /\ searched[w].tag = set[w].tag
    BY <1>4
  <2> QED
    BY <2>1, <1>4 DEF Entry
<1>6. \A w \in SampleWay : scanned[w].valid => set[w].tag # l
  <2> SUFFICES ASSUME NEW w \in SampleWay, scanned[w].valid, set[w].tag = l
               PROVE  FALSE
    OBVIOUS
  <2>1. searched[w].valid /\ w \notin removed
    BY <1>5
  <2> QED
    BY <2>1, <1>1, ScanForgetsTheLine
<1>7. new \in Entry /\ new.tag = l
  <2>1. PcSignature(pc, hit, type = "PREFETCH") \in Pc \X BOOLEAN \X BOOLEAN
    BY DEF PcSignature
  <2> QED
    BY <2>1, <1>1 DEF Entry
<1> HIDE DEF free, new, removed, searched, set, i
<1>8. set2 \in [SampleWay -> Entry]
  BY <1>5, <1>7
<1>9. Distinct(set2)
  <2> SUFFICES ASSUME NEW v \in SampleWay, NEW w \in SampleWay, v # w,
                      set2[v].valid, set2[w].valid
               PROVE  set2[v].tag # set2[w].tag
    BY DEF Distinct
  <2>1. \A u \in SampleWay : set2[u] = IF u = free THEN new ELSE scanned[u]
    OBVIOUS
  <2> HIDE DEF set2, scanned
  <2>2. CASE v = free
    BY <2>1, <2>2, <1>5, <1>6, <1>7
  <2>3. CASE w = free
    BY <2>1, <2>3, <1>5, <1>6, <1>7
  <2>4. CASE v # free /\ w # free
    BY <2>1, <2>4, <1>1, <1>5 DEF Distinct
  <2> QED
    BY <2>2, <2>3, <2>4
<1> HIDE DEF set2
<1>10. MjTyped'
  BY <1>1, <1>2, <1>3, <1>8 DEF MjInv, MjTyped
<1>11. \A j \in SampledSets : Distinct(sampled_cache'[j])
  <2> TAKE j \in SampledSets
  <2>1. CASE j = i
    BY <2>1, <1>1, <1>2, <1>9 DEF MjInv, MjTyped
  <2>2. CASE j # i
    BY <2>2, <1>2, SampledOnceIsDistinct DEF MjInv, MjTyped
  <2> QED
    BY <2>1, <2>2
<1>12. LinesSampledOnce'
  <2>1. DOMAIN sampled_cache' = SampledSets
    BY <1>10 DEF MjTyped
  <2> QED
    BY <2>1, <1>11 DEF LinesSampledOnce, Distinct
<1> QED
  BY <1>10, <1>12 DEF MjInv

LEMMA StepKeepsIInv == MjInv /\ [MjNext]_mjVars => MjInv'
<1> SUFFICES ASSUME MjInv, [MjNext]_mjVars PROVE MjInv'
  OBVIOUS
<1>1. ASSUME NEW pc \in Pc, NEW type \in AccessType, NEW w \in MjWay, MjHit(w, pc, type)
      PROVE  MjInv'
  <2>1. held[w] \in MjLine
    BY <1>1 DEF MjHit, MjInv, MjTyped
  <2>2. Sample(held[w], pc, type, TRUE) /\ held' = held
    BY <1>1 DEF MjHit, Update
  <2> QED
    BY <2>1, <2>2, SampleKeepsIInv DEF MjInv, MjTyped
<1>2. ASSUME NEW pc \in Pc, NEW type \in AccessType, NEW l \in MjLine, MjFill(l, pc, type)
      PROVE  MjInv'
  <2>1. held' \in [MjWay -> MjLine \cup {NoMjLine}]
    BY <1>2 DEF MjFill, MjInv, MjTyped
  <2>2. CASE type = "WRITEBACK"
    <3>1. UNCHANGED <<current_timestamp, sampled_cache>>
      BY <1>2, <2>2 DEF MjFill
    <3> QED
      BY <2>1, <3>1 DEF MjInv, MjTyped, LinesSampledOnce
  <2>3. CASE type # "WRITEBACK"
    <3>1. Sample(l, pc, type, FALSE)
      BY <1>2, <2>3 DEF MjFill, Update
    <3> QED
      BY <2>1, <3>1, SampleKeepsIInv
  <2> QED
    BY <2>2, <2>3
<1>3. CASE UNCHANGED mjVars
  BY <1>3 DEF mjVars, MjInv, MjTyped, LinesSampledOnce
<1> QED
  BY <1>1, <1>2, <1>3 DEF MjNext

\* The sampled cache of the mockingjay policy remembers each line once, whatever
\* its geometry: search_sampled_cache and the scan of update_replacement_state
\* leave no entry of a line before they insert one.
THEOREM MjSampledOnce == MjSpec => []LinesSampledOnce
<1>1. MjInv => LinesSampledOnce
  BY DEF MjInv
<1> QED
  BY <1>1, InitIInv, StepKeepsIInv, PTL DEF MjSpec

-----------------------------------------------------------------------------
(* Induction, from the well-foundedness of < on the naturals. *)

NatLess == {p \in Nat \X Nat : p[1] < p[2]}

LEMMA LeastNatural ==
    ASSUME NEW T \in SUBSET Nat, T # {}
    PROVE  \E x \in T : \A y \in T : x <= y
<1>1. IsWellFoundedOn(NatLess, Nat)
  BY NatLessThanWellFounded DEF OpToRel, NatLess
<1>2. PICK x \in T : \A y \in T : <<y, x>> \notin NatLess
  BY <1>1, WFMin
<1>3. ASSUME NEW y \in T PROVE x <= y
  <2>1. x \in Nat /\ y \in Nat
    OBVIOUS
  <2>2. y < x => <<y, x>> \in NatLess
    BY <2>1 DEF NatLess
  <2>3. ~ (y < x)
    BY <1>2, <2>2
  <2> QED
    BY <2>1, <2>3
<1> QED
  BY <1>3

LEMMA SetInduction ==
    ASSUME NEW S, 0 \in S, \A i \in Nat : i \in S => i + 1 \in S
    PROVE  \A i \in Nat : i \in S
<1> SUFFICES ASSUME Nat \ S # {} PROVE FALSE
  OBVIOUS
<1>1. PICK x \in Nat \ S : \A y \in Nat \ S : x <= y
  BY LeastNatural
<1>2. x - 1 \in Nat /\ x - 1 \notin Nat \ S
  BY <1>1
<1> QED
  BY <1>1, <1>2

-----------------------------------------------------------------------------
(* The recursive functions: doubling, and the sum of the buckets. *)

\* What shifted of Bit is.
Doubling(n, f) == f[0] = 1 /\ (\A i \in 1 .. n : f[i] = 2 * f[i - 1]) /\ Bit(n) = f[n]

LEMMA BitDoubles ==
    ASSUME NEW n \in Nat
    PROVE  \E f : Doubling(n, f)
<1> DEFINE G(l, g) == g = [i \in 0 .. l |-> IF i = 0 THEN 1 ELSE 2 * g[i - 1]]
           T == {l \in Nat : \E g : G(l, g)}
<1>1. 0 \in T
  <2>1. G(0, [i \in 0 .. 0 |-> 1])
    OBVIOUS
  <2> QED
    BY <2>1
<1>2. ASSUME NEW l \in Nat, l \in T PROVE l + 1 \in T
  <2>1. PICK g : G(l, g)
    BY <1>2
  <2> DEFINE h == [i \in 0 .. l + 1 |-> IF i = 0 THEN 1 ELSE 2 * g[i - 1]]
  <2>2. \A i \in 0 .. l : h[i] = g[i]
    BY <2>1
  <2>3. ASSUME NEW i \in 1 .. l + 1 PROVE h[i] = 2 * h[i - 1]
    <3>1. h[i] = 2 * g[i - 1] /\ i - 1 \in 0 .. l
      OBVIOUS
    <3> HIDE DEF h
    <3> QED
      BY <2>2, <3>1
  <2>4. h[0] = 1 /\ h = [i \in 0 .. l + 1 |-> h[i]]
    OBVIOUS
  <2>5. G(l + 1, h)
    <3> HIDE DEF h
    <3>1. ASSUME NEW i \in 0 .. l + 1
          PROVE  h[i] = IF i = 0 THEN 1 ELSE 2 * h[i - 1]
      <4>1. CASE i = 0
        BY <2>4, <4>1
      <4>2. CASE i # 0
        <5>1. i \in 1 .. l + 1
          BY <4>2
        <5> QED
          BY <2>3, <4>2, <5>1, Zenon
      <4> QED
        BY <4>1, <4>2
    <3> QED
      BY <2>4, <3>1
  <2> HIDE DEF G, h
  <2>6. l + 1 \in Nat /\ \E z : G(l + 1, z)
    BY <2>5
  <2> QED
    BY <2>6
<1>3. \A l \in Nat : l \in T
  <2> HIDE DEF T
  <2> QED
    BY <1>1, <1>2, SetInduction
<1>4. \E g : G(n, g)
  BY <1>3
<1> DEFINE f == CHOOSE g : G(n, g)
<1>5. G(n, f)
  BY <1>4
<1>6. Bit(n) = f[n]
  BY DEF Bit
<1> HIDE DEF f
<1>7. f[0] = 1 /\ \A i \in 1 .. n : f[i] = 2 * f[i - 1]
  BY <1>5
<1>8. Doubling(n, f)
  BY <1>6, <1>7 DEF Doubling
<1> QED
  BY <1>8

LEMMA DoublingsAgree ==
    ASSUME NEW n \in Nat, NEW m \in Nat, n <= m, NEW f, NEW g, Doubling(n, f), Doubling(m, g)
    PROVE  /\ \A i \in 0 .. n : f[i] = g[i]
           /\ \A i \in 0 .. n : f[i] \in Nat /\ f[i] > i
<1> DEFINE S == {i \in Nat : i <= n => f[i] = g[i] /\ f[i] \in Nat /\ f[i] > i}
<1>1. 0 \in S
  BY DEF Doubling
<1>2. ASSUME NEW i \in Nat, i \in S PROVE i + 1 \in S
  <2> SUFFICES ASSUME i + 1 <= n PROVE f[i + 1] = g[i + 1] /\ f[i + 1] \in Nat /\ f[i + 1] > i + 1
    OBVIOUS
  <2>1. f[i] = g[i] /\ f[i] \in Nat /\ f[i] > i
    BY <1>2
  <2>2. i + 1 \in 1 .. n /\ i + 1 \in 1 .. m /\ (i + 1) - 1 = i
    OBVIOUS
  <2>3. f[i + 1] = 2 * f[i] /\ g[i + 1] = 2 * g[i]
    BY <2>2 DEF Doubling
  <2> HIDE DEF S
  <2> QED
    BY <2>1, <2>3
<1>3. \A i \in Nat : i \in S
  <2> HIDE DEF S
  <2> QED
    BY <1>1, <1>2, SetInduction
<1> QED
  BY <1>3

LEMMA Bits ==
    ASSUME NEW n \in Nat
    PROVE  Bit(n) \in Nat /\ Bit(n) > n /\ Bit(n + 1) = 2 * Bit(n) /\ Bit(0) = 1
<1>1. PICK f : Doubling(n, f)
  BY BitDoubles
<1>2. n + 1 \in Nat /\ 0 \in Nat
  OBVIOUS
<1>3. PICK g : Doubling(n + 1, g)
  BY <1>2, BitDoubles
<1>4. PICK h : Doubling(0, h)
  BY <1>2, BitDoubles
<1>5. f[n] = g[n] /\ f[n] \in Nat /\ f[n] > n
  BY <1>1, <1>2, <1>3, DoublingsAgree
<1>6. Bit(n) = f[n] /\ Bit(n + 1) = g[n + 1] /\ Bit(0) = 1
  BY <1>1, <1>3, <1>4 DEF Doubling
<1>7. n + 1 \in 1 .. n + 1 /\ (n + 1) - 1 = n
  OBVIOUS
<1>8. g[n + 1] = 2 * g[n]
  BY <1>3, <1>7 DEF Doubling
<1> QED
  BY <1>5, <1>6, <1>8

LEMMA BitsGrow ==
    ASSUME NEW n \in Nat, NEW m \in Nat, n <= m
    PROVE  Bit(n) <= Bit(m)
<1> DEFINE S == {i \in Nat : Bit(n) <= Bit(n + i)}
<1>1. 0 \in S
  BY Bits
<1>2. ASSUME NEW i \in Nat, i \in S PROVE i + 1 \in S
  <2>1. n + i \in Nat /\ (n + i) + 1 = n + (i + 1)
    OBVIOUS
  <2>2. Bit(n + i) \in Nat /\ Bit((n + i) + 1) = 2 * Bit(n + i) /\ Bit(n) \in Nat
    BY <2>1, Bits
  <2>3. Bit(n + (i + 1)) = 2 * Bit(n + i)
    BY <2>1, <2>2
  <2> QED
    BY <1>2, <2>2, <2>3
<1>3. m - n \in S
  <2> HIDE DEF S
  <2>1. m - n \in Nat
    OBVIOUS
  <2> QED
    BY <1>1, <1>2, <2>1, SetInduction
<1>4. n + (m - n) = m
  OBVIOUS
<1> QED
  BY <1>3, <1>4

\* MSB finds the highest bit of a positive number.
LEMMA HighestBit ==
    ASSUME NEW x \in Nat \ {0}
    PROVE  MSB(x) \in 0 .. x /\ Bit(MSB(x)) <= x /\ x < Bit(MSB(x) + 1)
<1> DEFINE T == {n \in Nat : x < Bit(n + 1)}
<1>1. x \in T
  <2>1. x + 1 \in Nat /\ Bit(x + 1) \in Nat /\ Bit(x + 1) > x + 1
    BY Bits
  <2> QED
    BY <2>1
<1>2. PICK n \in T : \A m \in T : n <= m
  BY <1>1, LeastNatural
<1>3. n \in 0 .. x /\ x < Bit(n + 1)
  BY <1>1, <1>2
<1>4. Bit(n) <= x
  <2>1. CASE n = 0
    BY <2>1, Bits
  <2>2. CASE n # 0
    <3>1. n - 1 \in Nat /\ (n - 1) + 1 = n /\ ~ (n <= n - 1)
      BY <1>3, <2>2
    <3>2. n - 1 \notin T
      BY <1>2, <3>1
    <3>3. ~ (x < Bit(n))
      BY <3>1, <3>2
    <3>4. Bit(n) \in Nat
      BY <1>3, Bits
    <3> QED
      BY <3>3, <3>4
  <2> QED
    BY <2>1, <2>2
<1>5. \E k \in 0 .. x : Bit(k) <= x /\ x < Bit(k + 1)
  BY <1>3, <1>4
<1> QED
  BY <1>5 DEF MSB

\* Every distance has a bucket.
LEMMA BucketsExist ==
    ASSUME NEW d \in Nat
    PROVE  GET_BUCKET(d) \in 0 .. MAX_BUCKET
<1> DEFINE k == ExactBits
           q == BITS_QUANTIZATION(k, d)
<1>1. k \in Nat /\ k + 1 \in Nat /\ MAX_BUCKET \in Nat
  BY ProfilerAssumption
<1>2. q \in Nat
  <2>1. CASE ~ (d >= Bit(k + 1))
    BY <2>1 DEF BITS_QUANTIZATION
  <2>2. CASE d >= Bit(k + 1)
    <3>1. Bit(k + 1) \in Nat /\ Bit(k + 1) > k + 1
      BY <1>1, Bits
    <3>2. d \in Nat \ {0}
      BY <1>1, <2>2, <3>1
    <3>3. MSB(d) \in 0 .. d /\ d < Bit(MSB(d) + 1)
      BY <3>2, HighestBit
    <3>4. ~ (MSB(d) + 1 <= k + 1)
      <4>1. SUFFICES ASSUME MSB(d) + 1 <= k + 1 PROVE FALSE
        OBVIOUS
      <4>2. MSB(d) + 1 \in Nat
        BY <3>3
      <4>3. Bit(MSB(d) + 1) <= Bit(k + 1)
        BY <1>1, <4>1, <4>2, BitsGrow
      <4>4. Bit(MSB(d) + 1) \in Nat
        BY <4>2, Bits
      <4> QED
        BY <2>2, <3>1, <3>3, <4>3, <4>4
    <3>5. q = MSB(d) - k
      BY <2>2 DEF BITS_QUANTIZATION
    <3> QED
      BY <1>1, <3>3, <3>4, <3>5
  <2> QED
    BY <2>1, <2>2
<1>3. GET_BUCKET_INTERNAL(k, d) = d \div Bit(q) + Bit(k) * q
  BY DEF GET_BUCKET_INTERNAL
<1> HIDE DEF q
<1>4. Bit(q) \in Nat /\ Bit(q) > q /\ Bit(k) \in Nat
  BY <1>1, <1>2, Bits
<1>5. d \div Bit(q) \in Nat /\ Bit(k) * q \in Nat
  <2>1. Bit(q) > 0
    BY <1>2, <1>4
  <2>2. \A a \in Nat, b \in Nat : b > 0 => a \div b \in Nat
    OBVIOUS
  <2>3. \A a \in Nat, b \in Nat : a * b \in Nat
    OBVIOUS
  <2> QED
    BY <1>2, <1>4, <2>1, <2>2, <2>3
<1>6. GET_BUCKET_INTERNAL(k, d) \in Nat
  BY <1>3, <1>5
<1> QED
  BY <1>1, <1>6 DEF GET_BUCKET
-----------------------------------------------------------------------------
(* The sum of the buckets. *)

\* What sum of SumTo is.
Summing(h, b, f) == f[0] = h[0] /\ (\A i \in 1 .. b : f[i] = f[i - 1] + h[i]) /\ SumTo(h, b) = f[b]

LEMMA SumIsRun ==
    ASSUME NEW h, NEW b \in Nat
    PROVE  \E f : Summing(h, b, f)
<1> DEFINE G(l, g) == g = [i \in 0 .. l |-> IF i = 0 THEN h[0] ELSE g[i - 1] + h[i]]
           T == {l \in Nat : \E g : G(l, g)}
<1>1. 0 \in T
  <2>1. G(0, [i \in 0 .. 0 |-> h[0]])
    OBVIOUS
  <2> QED
    BY <2>1
<1>2. ASSUME NEW l \in Nat, l \in T PROVE l + 1 \in T
  <2>1. PICK g : G(l, g)
    BY <1>2
  <2> DEFINE k == [i \in 0 .. l + 1 |-> IF i = 0 THEN h[0] ELSE g[i - 1] + h[i]]
  <2>2. \A i \in 0 .. l : k[i] = g[i]
    BY <2>1
  <2>3. ASSUME NEW i \in 1 .. l + 1 PROVE k[i] = k[i - 1] + h[i]
    <3>1. k[i] = g[i - 1] + h[i] /\ i - 1 \in 0 .. l
      OBVIOUS
    <3> HIDE DEF k
    <3> QED
      BY <2>2, <3>1
  <2>4. k[0] = h[0] /\ k = [i \in 0 .. l + 1 |-> k[i]]
    OBVIOUS
  <2>5. G(l + 1, k)
    <3> HIDE DEF k
    <3>1. ASSUME NEW i \in 0 .. l + 1
          PROVE  k[i] = IF i = 0 THEN h[0] ELSE k[i - 1] + h[i]
      <4>1. CASE i = 0
        BY <2>4, <4>1
      <4>2. CASE i # 0
        <5>1. i \in 1 .. l + 1
          BY <4>2
        <5> QED
          BY <2>3, <4>2, <5>1, Zenon
      <4> QED
        BY <4>1, <4>2
    <3> QED
      BY <2>4, <3>1
  <2> HIDE DEF G, k
  <2>6. l + 1 \in Nat /\ \E z : G(l + 1, z)
    BY <2>5
  <2> QED
    BY <2>6
<1>3. \A l \in Nat : l \in T
  <2> HIDE DEF T
  <2> QED
    BY <1>1, <1>2, SetInduction
<1>4. \E g : G(b, g)
  BY <1>3
<1> DEFINE f == CHOOSE g : G(b, g)
<1>5. G(b, f)
  BY <1>4
<1>6. SumTo(h, b) = f[b]
  BY DEF SumTo
<1> HIDE DEF f
<1>7. f[0] = h[0] /\ \A i \in 1 .. b : f[i] = f[i - 1] + h[i]
  BY <1>5
<1>8. Summing(h, b, f)
  BY <1>6, <1>7 DEF Summing
<1> QED
  BY <1>8

LEMMA SumOfZeros ==
    ASSUME NEW b \in Nat, NEW h, h = [i \in 0 .. b |-> 0]
    PROVE  SumTo(h, b) = 0
<1>1. PICK f : Summing(h, b, f)
  BY SumIsRun
<1> DEFINE S == {i \in Nat : i <= b => f[i] = 0}
<1>2. 0 \in S
  BY <1>1 DEF Summing
<1>3. ASSUME NEW i \in Nat, i \in S PROVE i + 1 \in S
  <2> SUFFICES ASSUME i + 1 <= b PROVE f[i + 1] = 0
    OBVIOUS
  <2>1. i + 1 \in 1 .. b /\ (i + 1) - 1 = i /\ f[i] = 0
    BY <1>3
  <2>2. f[i + 1] = f[i] + h[i + 1] /\ h[i + 1] = 0
    BY <1>1, <2>1 DEF Summing
  <2> QED
    BY <2>1, <2>2
<1>4. b \in S
  <2> HIDE DEF S
  <2> QED
    BY <1>2, <1>3, SetInduction
<1> QED
  BY <1>1, <1>4 DEF Summing

\* One more in a bucket is one more in the sum.
LEMMA SumCounts ==
    ASSUME NEW b \in Nat, NEW h \in [0 .. b -> Nat], NEW x \in 0 .. b
    PROVE  /\ SumTo(h, b) \in Nat
           /\ SumTo([h EXCEPT ![x] = @ + 1], b) = SumTo(h, b) + 1
<1> DEFINE k == [h EXCEPT ![x] = @ + 1]
<1>1. k \in [0 .. b -> Nat] /\ \A i \in 0 .. b : k[i] = IF i = x THEN h[i] + 1 ELSE h[i]
  OBVIOUS
<1> HIDE DEF k
<1>2. PICK f : Summing(h, b, f)
  BY SumIsRun
<1>3. PICK g : Summing(k, b, g)
  BY SumIsRun
<1> DEFINE S == {i \in Nat : i <= b => /\ f[i] \in Nat
                                       /\ g[i] = IF i < x THEN f[i] ELSE f[i] + 1}
<1>4. 0 \in S
  <2>1. f[0] = h[0] /\ g[0] = k[0] /\ 0 \in 0 .. b
    BY <1>2, <1>3 DEF Summing
  <2> QED
    BY <1>1, <2>1
<1>5. ASSUME NEW i \in Nat, i \in S PROVE i + 1 \in S
  <2> SUFFICES ASSUME i + 1 <= b
               PROVE  f[i + 1] \in Nat /\ g[i + 1] = IF i + 1 < x THEN f[i + 1] ELSE f[i + 1] + 1
    OBVIOUS
  <2>1. i + 1 \in 1 .. b /\ (i + 1) - 1 = i
    OBVIOUS
  <2>2. f[i + 1] = f[i] + h[i + 1] /\ g[i + 1] = g[i] + k[i + 1]
    BY <1>2, <1>3, <2>1 DEF Summing
  <2>3. f[i] \in Nat /\ g[i] = IF i < x THEN f[i] ELSE f[i] + 1
    BY <1>5, <2>1
  <2>4. h[i + 1] \in Nat /\ k[i + 1] = IF i + 1 = x THEN h[i + 1] + 1 ELSE h[i + 1]
    BY <1>1, <2>1
  <2> HIDE DEF S
  <2> QED
    BY <2>2, <2>3, <2>4
<1>6. b \in S
  <2> HIDE DEF S
  <2> QED
    BY <1>4, <1>5, SetInduction
<1>7. f[b] \in Nat /\ g[b] = f[b] + 1
  BY <1>6
<1>8. SumTo(h, b) = f[b] /\ SumTo(k, b) = g[b]
  BY <1>2, <1>3 DEF Summing
<1>9. SumTo(h, b) \in Nat /\ SumTo(k, b) = SumTo(h, b) + 1
  BY <1>7, <1>8
<1> QED
  BY <1>9 DEF k

-----------------------------------------------------------------------------
(* The samples. *)

\* A sample left is the last use of its line, at a time that has passed.
SampleTimes ==
    /\ now_lcl \in Nat
    /\ taken \in [LineTag -> Int]
    /\ lastUse \in [LineTag -> Int]
    /\ \A t \in LineTag : Has(t) => taken[t] = lastUse[t] /\ taken[t] \in 1 .. now_lcl

\* The samples that were added are waiting or in a bucket.
SampleCounts ==
    /\ IsFiniteSet(Live)
    /\ histogram \in [0 .. MAX_BUCKET -> Nat]
    /\ samples = SumTo(histogram, MAX_BUCKET) + Cardinality(Live)

ProfInv == SampleTimes /\ SampleCounts

LEMMA SampleTimesStep ==
    ASSUME SampleTimes, NEW a \in Block, NEW is_read \in BOOLEAN, UpdateProfile(a, is_read)
    PROVE  SampleTimes'
<1> DEFINE tag == TagOf(a)
           now == now_lcl + 1
<1>1. tag \in LineTag /\ now \in Nat /\ now > 0 /\ now_lcl' = now /\ now_lcl \in Nat
  BY DEF LineTag, UpdateProfile, SampleTimes
<1>2. lastUse' = [lastUse EXCEPT ![tag] = now]
  BY DEF UpdateProfile
<1>3. \/ taken' = taken /\ taken[tag] = Unsampled
      \/ taken' = [taken EXCEPT ![tag] = now]
      \/ taken' = [taken EXCEPT ![tag] = Unsampled]
  BY DEF UpdateProfile, ReturnsEarly, Has, Resampled
<1> HIDE DEF tag, now
<1>4. lastUse' \in [LineTag -> Int] /\ taken' \in [LineTag -> Int] /\ now_lcl' \in Nat
  BY <1>1, <1>2, <1>3 DEF SampleTimes, Unsampled
<1>5. ASSUME NEW t \in LineTag, taken'[t] # Unsampled
      PROVE  taken'[t] = lastUse'[t] /\ taken'[t] \in 1 .. now
  <2>1. CASE t = tag
    BY <1>1, <1>2, <1>3, <1>5, <2>1 DEF SampleTimes
  <2>2. CASE t # tag
    <3>1. taken'[t] = taken[t] /\ lastUse'[t] = lastUse[t]
      BY <1>1, <1>2, <1>3, <2>2 DEF SampleTimes
    <3>2. taken[t] = lastUse[t] /\ taken[t] \in 1 .. now_lcl
      BY <1>5, <3>1 DEF SampleTimes, Has
    <3> QED
      BY <1>1, <3>1, <3>2 DEF now
  <2> QED
    BY <2>1, <2>2
<1> QED
  BY <1>1, <1>4, <1>5 DEF SampleTimes, Has

LEMMA SampleCountsStep ==
    ASSUME ProfInv, NEW a \in Block, NEW is_read \in BOOLEAN, UpdateProfile(a, is_read)
    PROVE  SampleCounts'
<1> DEFINE tag == TagOf(a)
           now == now_lcl + 1
           distance == now - taken[tag] - 1
           sum == SumTo(histogram, MAX_BUCKET)
<1>1. tag \in LineTag /\ now \in Nat /\ now > 0
  BY DEF LineTag, ProfInv, SampleTimes
<1>2. taken \in [LineTag -> Int] /\ histogram \in [0 .. MAX_BUCKET -> Nat] /\ MAX_BUCKET \in Nat
  BY ProfilerAssumption DEF ProfInv, SampleTimes, SampleCounts
<1>3. sum \in Nat
  <2>1. 0 \in 0 .. MAX_BUCKET
    BY <1>2
  <2> QED
    BY <1>2, <2>1, SumCounts
<1>4. IsFiniteSet(Live) /\ Cardinality(Live) \in Nat /\ samples = sum + Cardinality(Live)
  BY FS_CardinalityType DEF ProfInv, SampleCounts
<1>5. tag \in Live <=> Has(tag)
  BY <1>1 DEF Live
<1>6. \/ taken' = taken /\ ~ Has(tag) /\ histogram' = histogram /\ samples' = samples
      \/ /\ histogram' = IF Has(tag) THEN Counted(histogram, distance) ELSE histogram
         /\ taken' = Resampled(tag, now)
         /\ samples' = IF Resampled(tag, now)[tag] = now THEN samples + 1 ELSE samples
  BY DEF UpdateProfile, ReturnsEarly
<1>7. ASSUME Has(tag)
      PROVE  /\ Counted(histogram, distance) \in [0 .. MAX_BUCKET -> Nat]
             /\ SumTo(Counted(histogram, distance), MAX_BUCKET) = sum + 1
  <2>1. taken[tag] \in 1 .. now_lcl /\ now_lcl \in Nat
    BY <1>1, <1>7 DEF ProfInv, SampleTimes
  <2>2. distance \in Nat
    BY <2>1
  <2> HIDE DEF distance
  <2>3. GET_BUCKET(distance) \in 0 .. MAX_BUCKET
    BY <2>2, BucketsExist
  <2>4. SumTo([histogram EXCEPT ![GET_BUCKET(distance)] = @ + 1], MAX_BUCKET) = sum + 1
    BY <1>2, <2>3, SumCounts
  <2>5. [histogram EXCEPT ![GET_BUCKET(distance)] = @ + 1] \in [0 .. MAX_BUCKET -> Nat]
    BY <1>2, <2>3
  <2> QED
    BY <2>4, <2>5 DEF Counted
<1> HIDE DEF tag, now, distance, sum
<1>8. CASE taken' = taken /\ ~ Has(tag) /\ histogram' = histogram /\ samples' = samples
  <2>1. Live' = Live
    BY <1>8 DEF Live, Has
  <2> QED
    BY <1>2, <1>4, <1>8, <2>1 DEF SampleCounts, sum
<1>9. CASE /\ histogram' = IF Has(tag) THEN Counted(histogram, distance) ELSE histogram
           /\ taken' = Resampled(tag, now)
           /\ samples' = IF Resampled(tag, now)[tag] = now THEN samples + 1 ELSE samples
  <2>1. /\ histogram' \in [0 .. MAX_BUCKET -> Nat]
        /\ SumTo(histogram', MAX_BUCKET) = IF Has(tag) THEN sum + 1 ELSE sum
    BY <1>2, <1>7, <1>9 DEF sum
  <2>2. CASE now % SAMPLING_PERIOD = 0
    <3>1. taken' = [taken EXCEPT ![tag] = now] /\ now # Unsampled
      BY <1>1, <1>9, <2>2 DEF Resampled, Unsampled
    <3>2. taken'[tag] = now /\ samples' = samples + 1
      BY <1>1, <1>2, <1>9, <3>1
    <3>3. Live' = Live \cup {tag}
      BY <1>1, <1>2, <3>1 DEF Live, Has
    <3>4. /\ IsFiniteSet(Live')
          /\ Cardinality(Live') = IF Has(tag) THEN Cardinality(Live) ELSE Cardinality(Live) + 1
      BY <1>4, <1>5, <3>3, FS_AddElement
    <3>5. samples' = SumTo(histogram', MAX_BUCKET) + Cardinality(Live')
      BY <1>3, <1>4, <2>1, <3>2, <3>4
    <3> QED
      BY <2>1, <3>4, <3>5 DEF SampleCounts
  <2>3. CASE now % SAMPLING_PERIOD # 0
    <3>1. taken' = [taken EXCEPT ![tag] = Unsampled] /\ now # Unsampled
      BY <1>1, <1>9, <2>3 DEF Resampled, Unsampled
    <3>2. taken'[tag] = Unsampled
      BY <1>1, <1>2, <3>1
    <3>3. samples' = samples
      BY <1>9, <3>1, <3>2
    <3>4. Live' = Live \ {tag}
      BY <1>1, <1>2, <3>1 DEF Live, Has
    <3>5. /\ IsFiniteSet(Live')
          /\ Cardinality(Live') = IF Has(tag) THEN Cardinality(Live) - 1 ELSE Cardinality(Live)
      BY <1>4, <1>5, <3>4, FS_RemoveElement
    <3>6. samples' = SumTo(histogram', MAX_BUCKET) + Cardinality(Live')
      BY <1>3, <1>4, <2>1, <3>3, <3>5
    <3> QED
      BY <2>1, <3>5, <3>6 DEF SampleCounts
  <2> QED
    BY <2>2, <2>3
<1> QED
  BY <1>6, <1>8, <1>9

\* Each access to a line that had a sample counts it once, in a bucket that
\* exists, with the distance to the access before: at every moment the samples
\* the sampler ever took are those in the histogram and those still waiting,
\* and a waiting one was left by the last access to its line (update and
\* GET_BUCKET).
THEOREM ProfilerSamplesAreReuses == ProfSpec => []SamplesAreReuses
<1>1. ProfInit => ProfInv
  <2> SUFFICES ASSUME ProfInit PROVE ProfInv
    OBVIOUS
  <2>1. \A t \in LineTag : ~ Has(t)
    BY DEF ProfInit, Has
  <2>2. Live = {}
    BY <2>1 DEF Live
  <2>3. IsFiniteSet(Live) /\ Cardinality(Live) = 0
    BY <2>2, FS_EmptySet
  <2>4. MAX_BUCKET \in Nat /\ histogram = [b \in 0 .. MAX_BUCKET |-> 0]
    BY ProfilerAssumption DEF ProfInit
  <2>5. SumTo(histogram, MAX_BUCKET) = 0
    BY <2>4, SumOfZeros
  <2>6. SampleCounts
    BY <2>3, <2>4, <2>5 DEF SampleCounts, ProfInit
  <2>7. SampleTimes
    BY <2>1 DEF SampleTimes, ProfInit, Unsampled
  <2> QED
    BY <2>6, <2>7 DEF ProfInv
<1>2. ProfInv /\ [ProfNext]_profVars => ProfInv'
  <2> SUFFICES ASSUME ProfInv, [ProfNext]_profVars PROVE ProfInv'
    OBVIOUS
  <2>1. ASSUME NEW a \in Block, NEW is_read \in BOOLEAN, UpdateProfile(a, is_read)
        PROVE  ProfInv'
    BY <2>1, SampleTimesStep, SampleCountsStep DEF ProfInv
  <2>2. CASE UNCHANGED profVars
    <3>1. Live' = Live
      BY <2>2 DEF Live, Has, profVars
    <3> QED
      BY <2>2, <3>1 DEF ProfInv, SampleTimes, SampleCounts, Has, profVars
  <2> QED
    BY <2>1, <2>2 DEF ProfNext
<1>3. ProfInv => SamplesAreReuses
  BY DEF ProfInv, SampleTimes, SampleCounts, SamplesAreReuses, Live
<1> QED
  BY <1>1, <1>2, <1>3, PTL DEF ProfSpec

-----------------------------------------------------------------------------
(* The re-reference interval policies. *)

LEMMA FirstIsLeast ==
    ASSUME NEW S \in SUBSET Nat, S # {}
    PROVE  FirstOf(S) \in S /\ \A y \in S : FirstOf(S) <= y
BY LeastNatural DEF FirstOf

\* A set that is searched: every counter is at most the distant interval, so adding
\* brings the greatest of them there and none around.
LEMMA SearchedSet ==
    ASSUME rrpv \in [RripWay -> 0 .. maxRRPV]
    PROVE  /\ Rounds \in Nat
           /\ AgedSet = [w \in RripWay |-> rrpv[w] + Rounds]
           /\ AgedSet \in [RripWay -> 0 .. maxRRPV]
           /\ RripVictim \in RripWay /\ AgedSet[RripVictim] = maxRRPV
<1> USE RripAssumption
<1>1. maxRRPV \in Nat /\ LruRange \in Nat /\ maxRRPV < LruRange /\ RripWays \in Nat \ {0}
  OBVIOUS
<1>2. ASSUME NEW n \in 0 .. maxRRPV PROVE n % LruRange = n
  BY <1>1, <1>2
<1>3. ASSUME NEW w \in RripWay
      PROVE  rrpv[w] \in 0 .. maxRRPV /\ Missing(w) = maxRRPV - rrpv[w]
  <2>1. rrpv[w] \in 0 .. maxRRPV
    OBVIOUS
  <2>2. maxRRPV - rrpv[w] \in 0 .. maxRRPV
    BY <1>1, <2>1
  <2> QED
    BY <1>2, <2>1, <2>2 DEF Missing
<1> DEFINE M == {Missing(w) : w \in RripWay}
<1>4. M \in SUBSET Nat
  BY <1>1, <1>3
<1>5. 0 \in RripWay
  BY <1>1 DEF RripWay
<1>6. M # {}
  BY <1>5
<1>7. Rounds \in M /\ \A n \in M : Rounds <= n
  BY <1>4, <1>6, FirstIsLeast DEF Rounds
<1>8. PICK u \in RripWay : Rounds = Missing(u)
  BY <1>7
<1>9. Rounds \in Nat
  BY <1>4, <1>7
<1>10. ASSUME NEW w \in RripWay PROVE rrpv[w] + Rounds \in 0 .. maxRRPV
  <2>1. Rounds <= Missing(w)
    BY <1>7
  <2> QED
    BY <1>1, <1>3, <1>9, <2>1
<1>11. AgedSet = [w \in RripWay |-> rrpv[w] + Rounds]
  BY <1>2, <1>10 DEF AgedSet
<1>12. AgedSet \in [RripWay -> 0 .. maxRRPV]
  BY <1>10, <1>11
<1>13. AgedSet[u] = maxRRPV
  BY <1>1, <1>3, <1>8, <1>11
<1> DEFINE V == {w \in RripWay : AgedSet[w] = maxRRPV}
<1>14. V \in SUBSET Nat /\ u \in V
  <2>1. RripWay \in SUBSET Nat
    BY <1>1 DEF RripWay
  <2> QED
    BY <1>13, <2>1
<1>15. RripVictim \in V
  BY <1>14, FirstIsLeast DEF RripVictim
<1> QED
  BY <1>9, <1>11, <1>12, <1>15

\* The order of use, and how it shows in the intervals: a line that was sent back is
\* within one of distant, and farther than any line that came near after it.
RripTyped ==
    /\ policy \in {"srrip", "drrip", "ship"}
    /\ line \in [RripWay -> RripLine \cup {NoRripLine}]
    /\ rrpv \in [RripWay -> Nat]
    /\ touch \in [RripWay -> {"never", "near", "far"}]
    /\ \A w \in RripWay : touch[w] # "never" => line[w] # NoRripLine

Intervals ==
    /\ \A w \in RripWay : line[w] # NoRripLine => rrpv[w] <= maxRRPV
    /\ \A w \in RripWay : touch[w] = "far" => rrpv[w] >= maxRRPV - 1
    /\ \A v, x \in RripWay : NearerThan(v, x) => rrpv[v] < rrpv[x]

RripInv == IntervalGiven => RripTyped /\ Intervals

\* What the search of a full set finds, and that it keeps the intervals in order.
LEMMA SearchKeepsIntervals ==
    ASSUME RripTyped, IntervalGiven, Intervals, Empty = {}
    PROVE  /\ AgedSet \in [RripWay -> 0 .. maxRRPV]
           /\ \A w \in RripWay : rrpv[w] <= AgedSet[w]
           /\ \A v, x \in RripWay : NearerThan(v, x) => AgedSet[v] < AgedSet[x]
           /\ RripVictim \in RripWay /\ AgedSet[RripVictim] = maxRRPV
<1>1. \A w \in RripWay : line[w] # NoRripLine
  BY DEF Empty
<1>2. maxRRPV \in Nat
  BY RripAssumption
<1>3. rrpv \in [RripWay -> 0 .. maxRRPV]
  BY <1>1, <1>2 DEF RripTyped, Intervals
<1>4. /\ Rounds \in Nat
      /\ AgedSet = [w \in RripWay |-> rrpv[w] + Rounds]
      /\ AgedSet \in [RripWay -> 0 .. maxRRPV]
      /\ RripVictim \in RripWay /\ AgedSet[RripVictim] = maxRRPV
  BY <1>3, SearchedSet
<1>5. \A w \in RripWay : rrpv[w] <= AgedSet[w]
  BY <1>3, <1>4
<1>6. ASSUME NEW v \in RripWay, NEW x \in RripWay, NearerThan(v, x)
      PROVE  AgedSet[v] < AgedSet[x]
  <2>1. rrpv[v] < rrpv[x]
    BY <1>6 DEF Intervals
  <2> QED
    BY <1>3, <1>4, <2>1
<1> QED
  BY <1>4, <1>5, <1>6

\* Aging alone changes nothing that depends on the order.
LEMMA AgingKeepsIntervals ==
    ASSUME NEW r \in [RripWay -> Nat], RripTyped, IntervalGiven, Intervals, Empty = {},
           r = AgedSet
    PROVE  /\ \A w \in RripWay : r[w] <= maxRRPV
           /\ \A w \in RripWay : touch[w] = "far" => r[w] >= maxRRPV - 1
           /\ \A v, x \in RripWay : NearerThan(v, x) => r[v] < r[x]
<1>1. maxRRPV \in Nat
  BY RripAssumption
<1>2. /\ AgedSet \in [RripWay -> 0 .. maxRRPV]
      /\ \A w \in RripWay : rrpv[w] <= AgedSet[w]
      /\ \A v, x \in RripWay : NearerThan(v, x) => AgedSet[v] < AgedSet[x]
  BY SearchKeepsIntervals
<1>3. \A w \in RripWay : r[w] <= maxRRPV
  BY <1>1, <1>2
<1>4. ASSUME NEW w \in RripWay, touch[w] = "far" PROVE r[w] >= maxRRPV - 1
  <2>1. rrpv[w] >= maxRRPV - 1 /\ rrpv[w] <= r[w] /\ rrpv[w] \in Nat
    BY <1>2, <1>4 DEF Intervals, RripTyped
  <2> QED
    BY <1>1, <2>1
<1> QED
  BY <1>2, <1>3, <1>4

\* A use of way w, the others as r0 has them: near at interval 0, or far.
LEMMA UseKeepsIntervals ==
    ASSUME maxRRPV > 1, RripTyped, NEW w \in RripWay, NEW how \in {"near", "far"},
           NEW r0 \in [RripWay -> Nat], NEW n \in 0 .. maxRRPV,
           \A v \in RripWay : line[v] # NoRripLine /\ v # w => r0[v] <= maxRRPV,
           \A v \in RripWay : touch[v] = "far" => r0[v] >= maxRRPV - 1,
           \A v, x \in RripWay : NearerThan(v, x) => r0[v] < r0[x],
           how = "near" => n = 0, how = "far" => n >= maxRRPV - 1,
           \A v \in RripWay : v # w => line'[v] = line[v],
           Touched(w, how), rrpv' = [r0 EXCEPT ![w] = n]
    PROVE  Intervals'
<1>1. maxRRPV \in Nat
  BY RripAssumption
<1>2. /\ rrpv'[w] = n /\ touch'[w] = how
      /\ \A v \in RripWay \ {w} : rrpv'[v] = r0[v] /\ touch'[v] = touch[v]
  BY DEF Touched, RripTyped
<1>3. \A v \in RripWay : line'[v] # NoRripLine => rrpv'[v] <= maxRRPV
  BY <1>1, <1>2
<1>4. \A v \in RripWay : touch'[v] = "far" => rrpv'[v] >= maxRRPV - 1
  BY <1>1, <1>2
<1>5. ASSUME NEW v \in RripWay, NEW x \in RripWay,
             <<v, x>> \in after', touch'[v] = "near", touch'[x] = "far"
      PROVE  rrpv'[v] < rrpv'[x]
  <2>1. x # w
    <3>1. SUFFICES ASSUME x = w PROVE FALSE
      OBVIOUS
    <3>2. v # w
      BY <1>5, <3>1
    <3> QED
      BY <1>5, <3>1, <3>2 DEF Touched
  <2>2. CASE v = w
    <3>1. rrpv'[v] = 0
      BY <1>2, <1>5, <2>2
    <3>2. rrpv'[x] >= maxRRPV - 1 /\ rrpv'[x] \in Nat
      BY <1>2, <1>4, <1>5, <2>1
    <3> QED
      BY <1>1, <3>1, <3>2
  <2>3. CASE v # w
    <3>1. <<v, x>> \in after
      BY <1>5, <2>3 DEF Touched
    <3>2. touch[v] = "near" /\ touch[x] = "far"
      BY <1>2, <1>5, <2>1, <2>3
    <3>3. NearerThan(v, x)
      BY <3>1, <3>2 DEF NearerThan
    <3> QED
      BY <1>2, <2>1, <2>3, <3>3
  <2> QED
    BY <2>2, <2>3
<1> QED
  BY <1>3, <1>4, <1>5 DEF Intervals, NearerThan

LEMMA UseTyped ==
    ASSUME RripTyped, NEW w \in RripWay, NEW how \in {"near", "far"}, Touched(w, how),
           line' \in [RripWay -> RripLine \cup {NoRripLine}], line'[w] # NoRripLine,
           \A v \in RripWay : v # w => line'[v] = line[v],
           rrpv' \in [RripWay -> Nat], policy' = policy
    PROVE  RripTyped'
<1>1. touch' = [touch EXCEPT ![w] = how]
  BY DEF Touched
<1> QED
  BY <1>1 DEF RripTyped

LEMMA HitStep ==
    ASSUME maxRRPV > 1, RripTyped, Intervals,
           NEW w \in RripWay, NEW type \in {Demand, Writeback},
           NEW ip, RripHit(w, type, ip)
    PROVE  RripTyped' /\ Intervals'
<1>1. maxRRPV \in Nat /\ maxRRPV - 1 \in Nat
  BY RripAssumption
<1>2. line[w] # NoRripLine /\ line' = line /\ policy' = policy
  BY DEF RripHit
<1>3. /\ line' \in [RripWay -> RripLine \cup {NoRripLine}]
      /\ rrpv \in [RripWay -> Nat]
  BY <1>2 DEF RripTyped
<1>4. CASE type = Demand \/ policy = "srrip"
  <2>1. Touched(w, "near") /\ rrpv' = [rrpv EXCEPT ![w] = 0]
    BY <1>4 DEF RripHit, Promoted, Demand, Writeback
  <2>2. 0 \in 0 .. maxRRPV /\ rrpv' \in [RripWay -> Nat]
    BY <1>1, <1>3, <2>1
  <2>3. Intervals'
    BY <1>2, <1>3, <2>1, <2>2, UseKeepsIntervals DEF Intervals
  <2> QED
    BY <1>2, <1>3, <2>1, <2>2, <2>3, UseTyped
<1>5. CASE type = Writeback /\ policy = "drrip"
  <2>1. Touched(w, "far") /\ rrpv' = [rrpv EXCEPT ![w] = maxRRPV - 1]
    BY <1>5 DEF RripHit, Promoted, Demand, Writeback
  <2>2. /\ maxRRPV - 1 \in 0 .. maxRRPV /\ maxRRPV - 1 >= maxRRPV - 1
        /\ rrpv' \in [RripWay -> Nat]
    BY <1>1, <1>3, <2>1
  <2>3. Intervals'
    BY <1>2, <1>3, <2>1, <2>2, UseKeepsIntervals DEF Intervals
  <2> QED
    BY <1>2, <1>3, <2>1, <2>2, <2>3, UseTyped
<1>6. CASE type = Writeback /\ policy = "ship"
  <2>1. rrpv' = rrpv /\ touch' = touch /\ after' = after
    BY <1>6 DEF RripHit, Promoted, Demand, Writeback
  <2> QED
    BY <1>2, <2>1 DEF RripTyped, Intervals, NearerThan
<1> QED
  BY <1>4, <1>5, <1>6 DEF RripTyped

\* Every way of inserting a line gives it an interval within one of distant.
LEMMA Insertion ==
    ASSUME IntervalGiven, NEW l, NEW type, NEW ip, NEW kept \in Nat
    PROVE  (IF policy = "srrip" \/ type = Writeback THEN maxRRPV - 1
            ELSE IF policy = "drrip" THEN DrripInsertion(kept)
            ELSE ShipInsertion(ip)) \in {maxRRPV - 1, maxRRPV}
<1>1. policy = "drrip" => DrripInsertion(kept) \in {maxRRPV - 1, maxRRPV}
  BY DEF IntervalGiven, DrripInsertion, InsertsBip
<1>2. ShipInsertion(ip) \in {maxRRPV - 1, maxRRPV}
  BY DEF ShipInsertion
<1> QED
  BY <1>1, <1>2

\* A fill takes an empty way or the victim of the search, which no way is farther than.
LEMMA FilledWay ==
    ASSUME RripTyped, IntervalGiven, Intervals
    PROVE  /\ FillWay \in RripWay
           /\ Searched \in [RripWay -> Nat]
           /\ \A v \in RripWay : line[v] # NoRripLine => Searched[v] <= maxRRPV
           /\ \A v \in RripWay : touch[v] = "far" => Searched[v] >= maxRRPV - 1
           /\ \A v, x \in RripWay : NearerThan(v, x) => Searched[v] < Searched[x]
           /\ line[FillWay] # NoRripLine => \A x \in RripWay : ~ NearerThan(FillWay, x)
<1>1. maxRRPV \in Nat
  BY RripAssumption
<1>2. CASE Empty # {}
  <2>1. Empty \in SUBSET Nat
    BY DEF Empty, RripWay
  <2>2. FillWay \in Empty
    BY <1>2, <2>1, FirstIsLeast DEF FillWay
  <2>3. FillWay \in RripWay /\ line[FillWay] = NoRripLine
    BY <2>2 DEF Empty
  <2>4. Searched = rrpv
    BY <1>2 DEF Searched
  <2> QED
    BY <2>3, <2>4 DEF RripTyped, Intervals
<1>3. CASE Empty = {}
  <2>1. FillWay = RripVictim /\ Searched = AgedSet
    BY <1>3 DEF FillWay, Searched
  <2>2. /\ AgedSet \in [RripWay -> 0 .. maxRRPV]
        /\ \A v, x \in RripWay : NearerThan(v, x) => AgedSet[v] < AgedSet[x]
        /\ RripVictim \in RripWay /\ AgedSet[RripVictim] = maxRRPV
    BY <1>3, SearchKeepsIntervals
  <2>3. AgedSet \in [RripWay -> Nat]
    BY <1>1, <2>2
  <2>4. ASSUME NEW x \in RripWay, NearerThan(RripVictim, x) PROVE FALSE
    <3>1. maxRRPV < AgedSet[x] /\ AgedSet[x] \in 0 .. maxRRPV
      BY <2>2, <2>4
    <3> QED
      BY <1>1, <3>1
  <2> QED
    BY <1>3, <2>1, <2>2, <2>3, <2>4, AgingKeepsIntervals
<1> QED
  BY <1>2, <1>3

LEMMA FillStep ==
    ASSUME maxRRPV > 1, RripTyped, IntervalGiven, Intervals,
           NEW type, NEW l \in RripLine, NEW ip, RripFill(l, type, ip)
    PROVE  RripTyped' /\ Intervals'
<1> DEFINE w == FillWay
<1> DEFINE n == IF policy = "srrip" \/ type = Writeback THEN maxRRPV - 1
                ELSE IF policy = "drrip" THEN DrripInsertion(Searched[w])
                ELSE ShipInsertion(ip)
<1>1. maxRRPV \in Nat /\ maxRRPV - 1 \in Nat
  BY RripAssumption
<1>2. /\ w \in RripWay
      /\ Searched \in [RripWay -> Nat]
      /\ \A v \in RripWay : line[v] # NoRripLine => Searched[v] <= maxRRPV
      /\ \A v \in RripWay : touch[v] = "far" => Searched[v] >= maxRRPV - 1
      /\ \A v, x \in RripWay : NearerThan(v, x) => Searched[v] < Searched[x]
  BY FilledWay
<1>3. /\ line' = [line EXCEPT ![w] = l] /\ policy' = policy
      /\ Touched(w, "far") /\ rrpv' = [Searched EXCEPT ![w] = n]
  BY DEF RripFill
<1>4. n \in {maxRRPV - 1, maxRRPV}
  BY <1>2, Insertion
<1> HIDE DEF w, n
<1>5. n \in 0 .. maxRRPV /\ n >= maxRRPV - 1
  BY <1>1, <1>4
<1>6. l # NoRripLine
  BY RripAssumption
<1>7. /\ line' \in [RripWay -> RripLine \cup {NoRripLine}] /\ line'[w] # NoRripLine
      /\ \A v \in RripWay : v # w => line'[v] = line[v]
  BY <1>2, <1>3, <1>6 DEF RripTyped
<1>8. rrpv' \in [RripWay -> Nat]
  BY <1>1, <1>2, <1>3, <1>5
<1>9. RripTyped'
  BY <1>2, <1>3, <1>7, <1>8, UseTyped
<1>10. Intervals'
  BY <1>2, <1>3, <1>5, <1>7, UseKeepsIntervals
<1> QED
  BY <1>9, <1>10

LEMMA RefusedStep ==
    ASSUME RripTyped, IntervalGiven, Intervals, RripRefused
    PROVE  RripTyped' /\ Intervals'
<1>1. maxRRPV \in Nat
  BY RripAssumption
<1>2. Empty = {} /\ rrpv' = AgedSet /\ UNCHANGED <<policy, line, touch, after>>
  BY DEF RripRefused
<1>3. AgedSet \in [RripWay -> 0 .. maxRRPV]
  BY <1>2, SearchKeepsIntervals
<1>4. rrpv' \in [RripWay -> Nat]
  BY <1>1, <1>2, <1>3
<1>5. RripTyped'
  BY <1>2, <1>4 DEF RripTyped
<1>6. Intervals'
  BY <1>2, <1>4, AgingKeepsIntervals DEF Intervals, NearerThan
<1> QED
  BY <1>5, <1>6

\* No step changes the policy of the cache or the place of the set.
LEMMA RripStep ==
    ASSUME maxRRPV > 1, RripInv, [RripNext]_rripVars
    PROVE  RripInv'
<1>1. UNCHANGED <<policy, position>>
  BY DEF RripNext, RripHit, RripFill, RripRefused, Elsewhere, rripVars
<1>2. IntervalGiven' = IntervalGiven
  BY <1>1 DEF IntervalGiven
<1>3. SUFFICES ASSUME IntervalGiven PROVE RripTyped' /\ Intervals'
  BY <1>2 DEF RripInv
<1>4. RripTyped /\ Intervals
  BY <1>3 DEF RripInv
<1>5. ASSUME NEW type \in {Demand, Writeback}, NEW ip \in Signature,
             NEW w \in RripWay, RripHit(w, type, ip)
      PROVE  RripTyped' /\ Intervals'
  BY <1>4, <1>5, HitStep
<1>6. ASSUME NEW type \in {Demand, Writeback}, NEW ip \in Signature,
             NEW l \in RripLine, RripFill(l, type, ip)
      PROVE  RripTyped' /\ Intervals'
  BY <1>3, <1>4, <1>6, FillStep
<1>7. CASE RripRefused
  BY <1>3, <1>4, <1>7, RefusedStep
<1>8. CASE Elsewhere \/ UNCHANGED rripVars
  <2>1. UNCHANGED <<policy, line, rrpv, touch, after>>
    BY <1>1, <1>8 DEF Elsewhere, rripVars
  <2> QED
    BY <1>4, <2>1 DEF RripTyped, Intervals, NearerThan
<1> QED
  BY <1>5, <1>6, <1>7, <1>8 DEF RripNext

LEMMA RripStarts == RripInit => RripInv
<1> SUFFICES ASSUME RripInit PROVE RripTyped /\ Intervals
  BY DEF RripInv
<1>1. maxRRPV \in Nat /\ RripInitLru \in Nat
  BY RripAssumption
<1> QED
  BY <1>1 DEF RripInit, RripTyped, Intervals, NearerThan

\* A block that was used again does not leave before one that came earlier and was
\* not used: srrip, drrip and ship search by adding to all counters of the set, which
\* keeps their order whatever is refused in between.  With maxRRPV = 1 a new block would
\* start as near as a used one, and the first way would decide.
THEOREM RripReusedOutlivesUnused ==
    ASSUME maxRRPV > 1
    PROVE  RripSpec => ReusedOutlivesUnused
<1>1. RripInit => RripInv
  BY RripStarts
<1>2. RripInv /\ [RripNext]_rripVars => RripInv'
  BY RripStep
<1>3. RripInv /\ [RripNext]_rripVars
        => [\A v, x \in RripWay :
               /\ IntervalGiven
               /\ line[v] # NoRripLine /\ line'[v] # line[v]
               => ~ NearerThan(v, x)]_rripVars
  <2> SUFFICES ASSUME RripInv, RripNext, NEW v \in RripWay, NEW x \in RripWay,
                      IntervalGiven, line[v] # NoRripLine, line'[v] # line[v]
               PROVE  ~ NearerThan(v, x)
    OBVIOUS
  <2>1. RripTyped /\ Intervals
    BY DEF RripInv
  <2>2. PICK type \in {Demand, Writeback}, ip \in Signature, l \in RripLine : RripFill(l, type, ip)
    BY DEF RripNext, RripHit, RripRefused, Elsewhere
  <2>3. line' = [line EXCEPT ![FillWay] = l]
    BY <2>2 DEF RripFill
  <2>4. v = FillWay
    BY <2>1, <2>3 DEF RripTyped
  <2> QED
    BY <2>1, <2>4, FilledWay
<1>4. QED
  BY <1>1, <1>2, <1>3, PTL DEF RripSpec, ReusedOutlivesUnused

-----------------------------------------------------------------------------
(* The return address stack of basic_btb. *)

\* The slot k below the top of the ring.
Slot(index, k) == IF k <= index THEN index - k ELSE index - k + RAS_SIZE

\* The calls of the history, the latest last, are on top of the stack.
Stacked(stack, index, open) ==
    /\ stack \in [0 .. RAS_SIZE - 1 -> Nat] /\ index \in 0 .. RAS_SIZE - 1
    /\ open \in Seq(Branches) /\ Len(open) <= RAS_SIZE
    /\ \A k \in 0 .. Len(open) - 1 : stack[Slot(index, k)] = open[Len(open) - k].ip

RasInv == Stacked(ras, ras_index, calls)

LEMMA PushKeepsStack ==
    ASSUME NEW b \in Branches, RasInv
    PROVE  Stacked([ras EXCEPT ![Push(ras_index)] = b.ip], Push(ras_index),
                   Latest(Append(calls, b)))
<1> DEFINE stack == [ras EXCEPT ![Push(ras_index)] = b.ip]
<1> DEFINE index == Push(ras_index)
<1> DEFINE longer == Append(calls, b)
<1> DEFINE open == Latest(longer)
<1>1. /\ ras \in [0 .. RAS_SIZE - 1 -> Nat] /\ ras_index \in 0 .. RAS_SIZE - 1
      /\ calls \in Seq(Branches) /\ Len(calls) <= RAS_SIZE /\ Len(calls) \in Nat
      /\ RAS_SIZE \in Nat \ {0} /\ b.ip \in Nat
  BY BtbAssumption DEF RasInv, Stacked
<1>2. index \in 0 .. RAS_SIZE - 1 /\ stack \in [0 .. RAS_SIZE - 1 -> Nat] /\ stack[index] = b.ip
  BY <1>1 DEF Push
<1>3. /\ longer \in Seq(Branches) /\ Len(longer) = Len(calls) + 1
      /\ longer[Len(longer)] = b
      /\ \A i \in 1 .. Len(calls) : longer[i] = calls[i]
  BY <1>1
<1>4. /\ open \in Seq(Branches) /\ Len(open) <= RAS_SIZE /\ Len(open) \in 1 .. Len(longer)
      /\ \A k \in 0 .. Len(open) - 1 : open[Len(open) - k] = longer[Len(longer) - k]
  <2>1. CASE Len(longer) > RAS_SIZE
    <3>1. open = Tail(longer) /\ longer # <<>> /\ Len(longer) = RAS_SIZE + 1
      BY <1>1, <1>3, <2>1 DEF Latest
    <3>2. /\ open \in Seq(Branches) /\ Len(open) = RAS_SIZE
          /\ \A i \in 1 .. RAS_SIZE : open[i] = longer[i + 1]
      BY <1>1, <1>3, <3>1
    <3> HIDE DEF open, longer
    <3>3. ASSUME NEW k \in 0 .. Len(open) - 1
          PROVE  open[Len(open) - k] = longer[Len(longer) - k]
      <4>1. Len(open) - k \in 1 .. RAS_SIZE /\ Len(open) - k + 1 = Len(longer) - k
        BY <1>1, <3>1, <3>2
      <4> QED
        BY <3>2, <4>1
    <3> QED
      BY <1>1, <3>1, <3>2, <3>3
  <2>2. CASE ~ (Len(longer) > RAS_SIZE)
    <3>1. open = longer
      BY <2>2 DEF Latest
    <3> HIDE DEF open, longer
    <3> QED
      BY <1>1, <1>3, <2>2, <3>1
  <2> QED
    BY <2>1, <2>2
<1> HIDE DEF open, longer
<1>5. ASSUME NEW k \in 0 .. Len(open) - 1
      PROVE  stack[Slot(index, k)] = open[Len(open) - k].ip
  <2>1. k \in Nat /\ k < RAS_SIZE /\ k <= Len(calls)
    BY <1>1, <1>3, <1>4
  <2>2. CASE k = 0
    <3>1. Slot(index, k) = index
      BY <1>1, <1>2, <2>2 DEF Slot
    <3> QED
      BY <1>2, <1>3, <1>4, <2>2, <3>1
  <2>3. CASE k # 0
    <3>1. /\ Slot(index, k) = Slot(ras_index, k - 1) /\ Slot(index, k) # index
          /\ Slot(index, k) \in 0 .. RAS_SIZE - 1
      BY <1>1, <2>1, <2>3 DEF Slot, Push
    <3>2. stack[Slot(index, k)] = ras[Slot(ras_index, k - 1)]
      BY <1>1, <3>1
    <3>3. k - 1 \in 0 .. Len(calls) - 1
      BY <1>1, <2>1, <2>3
    <3>4. ras[Slot(ras_index, k - 1)] = calls[Len(calls) - (k - 1)].ip
      BY <3>3 DEF RasInv, Stacked
    <3>5. Len(longer) - k \in 1 .. Len(calls) /\ Len(longer) - k = Len(calls) - (k - 1)
      BY <1>1, <1>3, <2>1, <2>3
    <3>6. open[Len(open) - k] = calls[Len(calls) - (k - 1)]
      BY <1>3, <1>4, <3>5
    <3> QED
      BY <3>2, <3>4, <3>6
  <2> QED
    BY <2>2, <2>3
<1> QED
  BY <1>2, <1>4, <1>5 DEF Stacked, open, longer

LEMMA PopKeepsStack ==
    ASSUME RasInv
    PROVE  Stacked([ras EXCEPT ![ras_index] = 0], Pop(ras_index),
                   IF calls # <<>> THEN SubSeq(calls, 1, Len(calls) - 1) ELSE calls)
<1> DEFINE stack == [ras EXCEPT ![ras_index] = 0]
<1> DEFINE index == Pop(ras_index)
<1> DEFINE open == IF calls # <<>> THEN SubSeq(calls, 1, Len(calls) - 1) ELSE calls
<1>1. /\ ras \in [0 .. RAS_SIZE - 1 -> Nat] /\ ras_index \in 0 .. RAS_SIZE - 1
      /\ calls \in Seq(Branches) /\ Len(calls) <= RAS_SIZE /\ Len(calls) \in Nat
      /\ RAS_SIZE \in Nat \ {0}
  BY BtbAssumption DEF RasInv, Stacked
<1>2. index \in 0 .. RAS_SIZE - 1 /\ stack \in [0 .. RAS_SIZE - 1 -> Nat]
  BY <1>1 DEF Pop
<1>3. CASE calls = <<>>
  <2>1. open = <<>> /\ Len(open) = 0
    BY <1>3
  <2> QED
    BY <1>1, <1>2, <1>3, <2>1 DEF Stacked
<1>4. CASE calls # <<>>
  <2>1. open = SubSeq(calls, 1, Len(calls) - 1) /\ Len(calls) >= 1
    BY <1>1, <1>4
  <2>2. /\ open \in Seq(Branches) /\ Len(open) = Len(calls) - 1
        /\ \A i \in 1 .. Len(calls) - 1 : open[i] = calls[i]
    <3> DEFINE n == Len(calls) - 1
    <3>1. n \in Nat /\ n <= Len(calls) /\ \A i \in 1 .. n : calls[i] \in Branches
      BY <1>1, <2>1
    <3> HIDE DEF n
    <3>2. /\ SubSeq(calls, 1, n) \in Seq(Branches) /\ Len(SubSeq(calls, 1, n)) = n
          /\ \A i \in 1 .. n : SubSeq(calls, 1, n)[i] = calls[i]
      BY <3>1, SubSeqProperties
    <3> QED
      BY <2>1, <3>2 DEF n
  <2> HIDE DEF open
  <2>3. ASSUME NEW k \in 0 .. Len(open) - 1
        PROVE  stack[Slot(index, k)] = open[Len(open) - k].ip
    <3>1. k + 1 \in 0 .. Len(calls) - 1 /\ k + 1 < RAS_SIZE /\ k \in Nat
      BY <1>1, <2>2
    <3>2. /\ Slot(index, k) = Slot(ras_index, k + 1) /\ Slot(index, k) # ras_index
          /\ Slot(index, k) \in 0 .. RAS_SIZE - 1
      BY <1>1, <3>1 DEF Slot, Pop
    <3>3. stack[Slot(index, k)] = ras[Slot(ras_index, k + 1)]
      BY <1>1, <3>2
    <3>4. ras[Slot(ras_index, k + 1)] = calls[Len(calls) - (k + 1)].ip
      BY <3>1 DEF RasInv, Stacked
    <3>5. Len(open) - k \in 1 .. Len(calls) - 1 /\ Len(open) - k = Len(calls) - (k + 1)
      BY <1>1, <2>2, <3>1
    <3> QED
      BY <2>2, <3>3, <3>4, <3>5
  <2> QED
    BY <1>1, <1>2, <2>2, <2>3 DEF Stacked, open
<1> QED
  BY <1>3, <1>4

LEMMA RasStep == RasInv /\ [BtbNext]_btbVars => RasInv'
<1> SUFFICES ASSUME RasInv, [BtbNext]_btbVars PROVE RasInv'
  OBVIOUS
<1>1. ASSUME NEW b \in Branches, NEW target, NEW goes, Execute(b, target, goes)
      PROVE  RasInv'
  <2>1. CASE IsCall(b)
    <3>1. b.type # "RETURN"
      BY <2>1 DEF IsCall
    <3>2. /\ ras' = [ras EXCEPT ![Push(ras_index)] = b.ip] /\ ras_index' = Push(ras_index)
          /\ calls' = Latest(Append(calls, b))
      BY <1>1, <2>1 DEF Execute, UpdateRas
    <3> QED
      BY <3>2, PushKeepsStack DEF RasInv
  <2>2. CASE b.type = "RETURN"
    <3>1. ~ IsCall(b)
      BY <2>2 DEF IsCall
    <3>2. /\ ras' = [ras EXCEPT ![ras_index] = 0] /\ ras_index' = Pop(ras_index)
          /\ calls' = IF calls # <<>> THEN SubSeq(calls, 1, Len(calls) - 1) ELSE calls
      BY <1>1, <2>2, <3>1 DEF Execute, UpdateRas
    <3> QED
      BY <3>2, PopKeepsStack DEF RasInv
  <2>3. CASE ~ IsCall(b) /\ b.type # "RETURN"
    <3>1. UNCHANGED <<ras, ras_index, calls>>
      BY <1>1, <2>3 DEF Execute, UpdateRas
    <3> QED
      BY <3>1 DEF RasInv, Stacked
  <2> QED
    BY <2>1, <2>2, <2>3
<1>2. CASE UNCHANGED btbVars
  BY <1>2 DEF btbVars, RasInv, Stacked
<1> QED
  BY <1>1, <1>2 DEF BtbNext

\* A return to the call that is open is predicted once the size of the call is known,
\* for every size of the stack and every program: the ring of basic_btb holds the calls
\* that are open on top, however it went around and however often it was empty.
THEOREM BtbReturnsArePredicted == BtbSpec => ReturnsArePredicted
<1>1. BtbInit => RasInv
  <2> SUFFICES ASSUME BtbInit PROVE RasInv
    OBVIOUS
  <2>1. RAS_SIZE \in Nat \ {0}
    BY BtbAssumption
  <2>2. /\ ras = [i \in 0 .. RAS_SIZE - 1 |-> 0] /\ ras_index = 0 /\ calls = <<>>
    BY DEF BtbInit
  <2> QED
    BY <2>1, <2>2 DEF RasInv, Stacked
<1>2. RasInv /\ [BtbNext]_btbVars => RasInv'
  BY RasStep
<1>3. RasInv /\ [BtbNext]_btbVars
        => [ LET c == calls[Len(calls)]
             IN  /\ executed' # executed /\ outcome'.type = "RETURN" /\ calls # <<>>
                 /\ outcome'.target = c.ip + c.size
                 /\ call_instr_sizes[SizeTracker(c.ip)] = c.size
                 => outcome'.predicted = outcome'.target
           ]_btbVars
  <2> SUFFICES ASSUME RasInv, BtbNext, outcome'.type = "RETURN", calls # <<>>,
                      outcome'.target = calls[Len(calls)].ip + calls[Len(calls)].size,
                      call_instr_sizes[SizeTracker(calls[Len(calls)].ip)]
                          = calls[Len(calls)].size
               PROVE  outcome'.predicted = outcome'.target
    OBVIOUS
  <2>1. PICK b \in Branches : \E target, goes : Execute(b, target, goes)
    BY DEF BtbNext
  <2>2. outcome'.type = b.type /\ outcome'.predicted = Predicted(b)
    BY <2>1 DEF Execute
  <2>3. Predicted(b) = ras[ras_index] + call_instr_sizes[SizeTracker(ras[ras_index])]
    BY <2>2 DEF Predicted, AlwaysTaken, UsesBtb, Target
  <2>4. ras[ras_index] = calls[Len(calls)].ip
    <3>1. Len(calls) \in Nat /\ Len(calls) >= 1 /\ ras_index \in Nat
      BY DEF RasInv, Stacked
    <3>2. 0 \in 0 .. Len(calls) - 1 /\ Slot(ras_index, 0) = ras_index /\ Len(calls) - 0 = Len(calls)
      BY <3>1 DEF Slot
    <3> QED
      BY <3>2 DEF RasInv, Stacked
  <2> QED
    BY <2>2, <2>3, <2>4
<1> QED
  BY <1>1, <1>2, <1>3, PTL DEF BtbSpec, ReturnsArePredicted

-----------------------------------------------------------------------------
(* The solver of StatCache. *)

\* Sums over longer and longer ranges extend one another.
LEMMA SumGrows ==
    ASSUME NEW h, NEW n \in Nat
    PROVE  SumTo(h, 0) = h[0] /\ SumTo(h, n + 1) = SumTo(h, n) + h[n + 1]
<1>1. n + 1 \in Nat /\ 0 \in Nat
  OBVIOUS
<1>2. PICK f : Summing(h, n, f)
  BY SumIsRun
<1>3. PICK g : Summing(h, n + 1, g)
  BY <1>1, SumIsRun
<1>4. PICK z : Summing(h, 0, z)
  BY <1>1, SumIsRun
<1> DEFINE S == {i \in Nat : i <= n => f[i] = g[i]}
<1>5. 0 \in S
  BY <1>2, <1>3 DEF Summing
<1>6. ASSUME NEW i \in Nat, i \in S PROVE i + 1 \in S
  <2> SUFFICES ASSUME i + 1 <= n PROVE f[i + 1] = g[i + 1]
    OBVIOUS
  <2>1. i + 1 \in 1 .. n /\ i + 1 \in 1 .. n + 1 /\ (i + 1) - 1 = i /\ f[i] = g[i]
    BY <1>6
  <2> QED
    BY <1>2, <1>3, <2>1 DEF Summing
<1>7. f[n] = g[n]
  <2> HIDE DEF S
  <2>1. n \in S
    BY <1>5, <1>6, SetInduction
  <2> QED
    BY <2>1 DEF S
<1>8. n + 1 \in 1 .. n + 1 /\ (n + 1) - 1 = n
  OBVIOUS
<1> QED
  BY <1>2, <1>3, <1>4, <1>7, <1>8 DEF Summing

\* Sums of naturals grow with the range.
LEMMA SumsAscend ==
    ASSUME NEW b \in Nat, NEW h \in [0 .. b -> Nat]
    PROVE  \A i, j \in 0 .. b : SumTo(h, i) \in Nat /\ (i <= j => SumTo(h, i) <= SumTo(h, j))
<1> DEFINE S == {j \in Nat : j <= b =>
                    \A i \in 0 .. j : SumTo(h, i) \in Nat /\ SumTo(h, i) <= SumTo(h, j)}
<1>1. 0 \in S
  <2>1. SumTo(h, 0) = h[0] /\ h[0] \in Nat
    BY SumGrows
  <2> QED
    BY <2>1
<1>2. ASSUME NEW j \in Nat, j \in S PROVE j + 1 \in S
  <2> SUFFICES ASSUME j + 1 <= b, NEW i \in 0 .. j + 1
               PROVE  SumTo(h, i) \in Nat /\ SumTo(h, i) <= SumTo(h, j + 1)
    OBVIOUS
  <2>1. \A n \in 0 .. j : SumTo(h, n) \in Nat /\ SumTo(h, n) <= SumTo(h, j)
    BY <1>2
  <2>2. SumTo(h, j + 1) = SumTo(h, j) + h[j + 1] /\ h[j + 1] \in Nat
    BY SumGrows
  <2>3. SumTo(h, j) \in Nat
    BY <2>1
  <2>4. SumTo(h, j + 1) \in Nat /\ SumTo(h, j) <= SumTo(h, j + 1)
    BY <2>2, <2>3
  <2> HIDE DEF S
  <2>5. CASE i = j + 1
    BY <2>4, <2>5
  <2>6. CASE i # j + 1
    <3>1. i \in 0 .. j
      BY <2>6
    <3> QED
      BY <2>1, <2>3, <2>4, <3>1
  <2> QED
    BY <2>5, <2>6
<1>3. \A j \in Nat : j \in S
  <2> HIDE DEF S
  <2> QED
    BY <1>1, <1>2, SetInduction
<1>4. ASSUME NEW i \in 0 .. b, NEW j \in 0 .. b
      PROVE  SumTo(h, i) \in Nat /\ (i <= j => SumTo(h, i) <= SumTo(h, j))
  <2>1. i \in S /\ j \in S /\ i \in Nat /\ j \in Nat
    BY <1>3
  <2> QED
    BY <2>1
<1> QED
  BY <1>4

\* With the first values up to r taken out, the sums lose what is in them.
LEMMA SumCuts ==
    ASSUME NEW b \in Nat, NEW h \in [0 .. b -> Nat], NEW r \in 0 .. b,
           NEW k, k = [i \in 0 .. b |-> IF i <= r THEN 0 ELSE h[i]]
    PROVE  \A i \in 0 .. b : SumTo(k, i) = IF i <= r THEN 0 ELSE SumTo(h, i) - SumTo(h, r)
<1>1. \A i \in 0 .. b : SumTo(h, i) \in Nat
  BY SumsAscend
<1> DEFINE S == {i \in Nat : i <= b =>
                    SumTo(k, i) = IF i <= r THEN 0 ELSE SumTo(h, i) - SumTo(h, r)}
<1>2. 0 \in S
  BY SumGrows
<1>3. ASSUME NEW i \in Nat, i \in S PROVE i + 1 \in S
  <2> SUFFICES ASSUME i + 1 <= b
               PROVE  SumTo(k, i + 1)
                        = IF i + 1 <= r THEN 0 ELSE SumTo(h, i + 1) - SumTo(h, r)
    OBVIOUS
  <2>1. SumTo(k, i) = IF i <= r THEN 0 ELSE SumTo(h, i) - SumTo(h, r)
    BY <1>3
  <2>2. /\ SumTo(k, i + 1) = SumTo(k, i) + k[i + 1]
        /\ SumTo(h, i + 1) = SumTo(h, i) + h[i + 1]
    BY SumGrows
  <2>3. k[i + 1] = (IF i + 1 <= r THEN 0 ELSE h[i + 1]) /\ h[i + 1] \in Nat
    OBVIOUS
  <2>4. SumTo(h, i) \in Nat /\ SumTo(h, r) \in Nat
    BY <1>1
  <2> HIDE DEF S
  <2>5. CASE i + 1 <= r
    BY <2>1, <2>2, <2>3, <2>5
  <2>6. CASE i = r
    BY <2>1, <2>2, <2>3, <2>4, <2>6
  <2>7. CASE i > r
    BY <2>1, <2>2, <2>3, <2>4, <2>7
  <2> QED
    BY <2>5, <2>6, <2>7
<1>4. \A i \in Nat : i \in S
  <2> HIDE DEF S
  <2> QED
    BY <1>2, <1>3, SetInduction
<1> QED
  BY <1>4

\* The histogram is its own cumulation.
SolverInv ==
    /\ counts \in [BucketIndex -> Nat]
    /\ cumul_histogram = CumulOf(counts)
    /\ total_accesses = SumTo(counts, LastBucket)

LEMMA Cumulated ==
    ASSUME SolverInv
    PROVE  /\ total_accesses \in Nat /\ cumul_histogram[LastBucket] = total_accesses
           /\ \A i \in BucketIndex : /\ cumul_histogram[i] = SumTo(counts, i)
                                     /\ cumul_histogram[i] \in 0 .. total_accesses
<1>1. LastBucket \in Nat /\ LastBucket \in BucketIndex
  BY SolverAssumption DEF BucketIndex
<1>2. counts \in [0 .. LastBucket -> Nat]
  BY DEF SolverInv, BucketIndex
<1>3. \A i \in BucketIndex : cumul_histogram[i] = SumTo(counts, i)
  BY DEF SolverInv, CumulOf
<1>4. \A i \in BucketIndex : SumTo(counts, i) \in Nat /\ SumTo(counts, i) <= SumTo(counts, LastBucket)
  BY <1>1, <1>2, SumsAscend DEF BucketIndex
<1> QED
  BY <1>1, <1>3, <1>4 DEF SolverInv

\* The expected number of different lines does not fall from bucket to bucket.
LEMMA UniqueAscends ==
    ASSUME SolverInv
    PROVE  \A i, j \in BucketIndex : Unique(i) \in Nat /\ (i <= j => Unique(i) <= Unique(j))
<1>1. LastBucket \in Nat
  BY SolverAssumption
<1>2. ASSUME NEW i \in BucketIndex
      PROVE  (IF i = LastBucket THEN 0
              ELSE (Buckets[i + 1] - Buckets[i]) * (total_accesses - cumul_histogram[i])) \in Nat
  <2>1. CASE i = LastBucket
    BY <2>1
  <2>2. CASE i # LastBucket
    <3>1. i \in BucketIndex /\ i + 1 \in BucketIndex /\ i + 1 \in 1 .. LastBucket /\ (i + 1) - 1 = i
      BY <1>1, <2>2 DEF BucketIndex
    <3>2. Buckets[i] < Buckets[i + 1] /\ Buckets[i] \in Nat /\ Buckets[i + 1] \in Nat
      BY <3>1, SolverAssumption
    <3>3. Buckets[i + 1] - Buckets[i] \in Nat
      BY <3>2
    <3>4. total_accesses - cumul_histogram[i] \in Nat
      BY Cumulated
    <3>5. \A m, n \in Nat : m * n \in Nat
      OBVIOUS
    <3> QED
      BY <2>2, <3>3, <3>4, <3>5, Zenon
  <2> QED
    BY <2>1, <2>2
<1>3. Unseen \in [0 .. LastBucket -> Nat]
  BY <1>2 DEF Unseen, BucketIndex
<1> QED
  BY <1>1, <1>3, SumsAscend DEF Unique, BucketIndex

LEMMA MiddleIsBetween ==
    ASSUME NEW r \in Limits, r[2] - r[1] > 1,
           NEW mid, mid = (r[1] + r[2]) \div 2
    PROVE  /\ mid \in BucketIndex /\ r[1] < mid /\ mid < r[2]
           /\ <<r[1], mid>> \in Limits /\ <<mid, r[2]>> \in Limits
<1>1. LastBucket \in Nat
  BY SolverAssumption
<1>2. PICK a \in BucketIndex, z \in BucketIndex : r = <<a, z>>
  BY DEF Limits
<1>3. a \in Nat /\ z \in Nat /\ z <= LastBucket /\ z - a > 1 /\ mid = (a + z) \div 2
  BY <1>1, <1>2 DEF BucketIndex
<1>4. mid \in Nat /\ 2 * mid <= a + z /\ a + z < 2 * mid + 2
  BY <1>3
<1>5. a < mid /\ mid < z
  BY <1>3, <1>4
<1>6. mid \in BucketIndex
  BY <1>1, <1>3, <1>4, <1>5 DEF BucketIndex
<1> QED
  BY <1>2, <1>3, <1>4, <1>5, <1>6 DEF Limits

\* What low of Bisect is.
Halving(L, f) ==
    /\ \A r \in Limits :
          LET middle_limit == (r[1] + r[2]) \div 2
          IN  f[r] = IF r[2] - r[1] <= 1 THEN r[1]
                     ELSE IF Exceeds(middle_limit, L) THEN f[<<r[1], middle_limit>>]
                     ELSE f[<<middle_limit, r[2]>>]
    /\ \A from : Bisect(L, from) = f[<<from, LastBucket>>]

LEMMA BisectionRuns ==
    ASSUME NEW L
    PROVE  \E f : Halving(L, f)
<1> DEFINE Short(l) == {r \in Limits : r[2] - r[1] <= l}
           Mid(r) == (r[1] + r[2]) \div 2
           Body(g, r) == IF r[2] - r[1] <= 1 THEN r[1]
                         ELSE IF Exceeds(Mid(r), L) THEN g[<<r[1], Mid(r)>>]
                         ELSE g[<<Mid(r), r[2]>>]
           G(l, g) == g = [r \in Short(l) |-> Body(g, r)]
           T == {l \in Nat : \E g : G(l, g)}
<1>1. LastBucket \in Nat
  BY SolverAssumption
<1>2. \A r \in Limits : r[1] \in Nat /\ r[2] \in Nat /\ r[2] - r[1] \in 0 .. LastBucket
  BY <1>1 DEF Limits, BucketIndex
<1>3. \A r \in Limits : r[2] - r[1] > 1 =>
         /\ r[1] < Mid(r) /\ Mid(r) < r[2] /\ Mid(r) \in Nat
         /\ <<r[1], Mid(r)>> \in Limits /\ <<Mid(r), r[2]>> \in Limits
  BY MiddleIsBetween, <1>1 DEF BucketIndex
<1> HIDE DEF Mid
<1>4. 0 \in T
  <2> DEFINE k == [r \in Short(0) |-> r[1]]
  <2>1. \A r \in Short(0) : Body(k, r) = r[1]
    BY <1>2
  <2> HIDE DEF Body
  <2>2. G(0, k)
    BY <2>1
  <2> HIDE DEF G, k
  <2> QED
    BY <2>2
<1>5. ASSUME NEW l \in Nat, l \in T PROVE l + 1 \in T
  <2>1. PICK g : G(l, g)
    BY <1>5
  <2> DEFINE k == [r \in Short(l + 1) |-> Body(g, r)]
  <2>2. \A r \in Short(l) : r \in Short(l + 1) /\ k[r] = g[r]
    <3> HIDE DEF Body
    <3>1. \A r \in Short(l) : r \in Short(l + 1)
      BY <1>2
    <3>2. \A r \in Short(l) : g[r] = Body(g, r)
      BY <2>1
    <3> HIDE DEF Short
    <3> QED
      BY <3>1, <3>2
  <2>3. ASSUME NEW r \in Short(l + 1) PROVE Body(g, r) = Body(k, r)
    <3>1. CASE r[2] - r[1] <= 1
      BY <3>1
    <3>2. CASE r[2] - r[1] > 1
      <4>1. /\ r[1] \in Nat /\ r[2] \in Nat /\ r[2] - r[1] <= l + 1
            /\ r[1] < Mid(r) /\ Mid(r) < r[2] /\ Mid(r) \in Nat
            /\ <<r[1], Mid(r)>> \in Limits /\ <<Mid(r), r[2]>> \in Limits
        BY <1>2, <1>3, <3>2
      <4>2. Mid(r) - r[1] <= l /\ r[2] - Mid(r) <= l
        BY <4>1
      <4>3. <<r[1], Mid(r)>> \in Short(l) /\ <<Mid(r), r[2]>> \in Short(l)
        BY <4>1, <4>2
      <4> HIDE DEF k, Short
      <4>4. /\ k[<<r[1], Mid(r)>>] = g[<<r[1], Mid(r)>>]
            /\ k[<<Mid(r), r[2]>>] = g[<<Mid(r), r[2]>>]
        BY <2>2, <4>3
      <4> QED
        BY <4>4
    <3>3. r[2] - r[1] \in Int
      BY <1>2
    <3> HIDE DEF Body
    <3> QED
      BY <3>1, <3>2, <3>3
  <2>4. G(l + 1, k)
    <3>1. k = [r \in Short(l + 1) |-> k[r]] /\ \A r \in Short(l + 1) : k[r] = Body(g, r)
      <4> HIDE DEF Body, Short
      <4> QED
        OBVIOUS
    <3> HIDE DEF Body, Short, k
    <3> QED
      BY <2>3, <3>1
  <2> HIDE DEF G, k
  <2>5. l + 1 \in Nat /\ \E z : G(l + 1, z)
    BY <2>4
  <2> QED
    BY <2>5
<1>6. LastBucket \in T
  <2> HIDE DEF T
  <2> QED
    BY <1>1, <1>4, <1>5, SetInduction
<1>7. Short(LastBucket) = Limits
  BY <1>1, <1>2
<1> DEFINE F(g) == g = [r \in Limits |-> Body(g, r)]
<1>8. \E g : F(g)
  <2>1. PICK g : G(LastBucket, g)
    BY <1>6
  <2> HIDE DEF Body, Short
  <2> QED
    BY <1>7, <2>1
<1> DEFINE f == CHOOSE g : F(g)
<1>9. F(f)
  <2> HIDE DEF F
  <2> QED
    BY <1>8
<1>10. \A from : Bisect(L, from) = f[<<from, LastBucket>>]
  BY DEF Bisect, Mid
<1> HIDE DEF f
<1>11. \A r \in Limits : f[r] = Body(f, r)
  <2> HIDE DEF Body
  <2> QED
    BY <1>9
<1> QED
  BY <1>10, <1>11 DEF Halving, Mid

\* The loop ends at neighbours of which the first fits and the second exceeds.
LEMMA BisectionFinds ==
    ASSUME NEW L, NEW f, Halving(L, f)
    PROVE  \A a, z \in BucketIndex :
              a < z /\ Exceeds(z, L)
              => LET n == f[<<a, z>>]
                 IN  /\ n \in BucketIndex /\ a <= n /\ n < z
                     /\ n = a \/ ~ Exceeds(n, L)
                     /\ Exceeds(n + 1, L)
<1> DEFINE Found(a, z) ==
        a < z /\ Exceeds(z, L)
        => /\ f[<<a, z>>] \in BucketIndex /\ a <= f[<<a, z>>] /\ f[<<a, z>>] < z
           /\ f[<<a, z>>] = a \/ ~ Exceeds(f[<<a, z>>], L)
           /\ Exceeds(f[<<a, z>>] + 1, L)
           S == {d \in Nat : \A a, z \in BucketIndex : z - a <= d => Found(a, z)}
<1>1. LastBucket \in Nat /\ \A i \in BucketIndex : i \in Nat
  BY SolverAssumption DEF BucketIndex
<1>2. 0 \in S
  BY <1>1
<1>3. ASSUME NEW d \in Nat, d \in S PROVE d + 1 \in S
  <2> SUFFICES ASSUME NEW a \in BucketIndex, NEW z \in BucketIndex, z - a <= d + 1,
                      a < z, Exceeds(z, L)
               PROVE  Found(a, z)
    OBVIOUS
  <2>1. a \in Nat /\ z \in Nat
    BY <1>1
  <2>2. <<a, z>> \in Limits
    BY <2>1 DEF Limits
  <2>3. \A b, c \in BucketIndex : c - b <= d => Found(b, c)
    BY <1>3
  <2>4. CASE z - a <= 1
    <3>1. f[<<a, z>>] = a /\ z = a + 1
      <4>1. f[<<a, z>>] = a
        BY <2>2, <2>4 DEF Halving
      <4>2. z = a + 1
        BY <2>1, <2>4
      <4> QED
        BY <4>1, <4>2
    <3> QED
      BY <2>1, <3>1
  <2>5. CASE z - a > 1
    <3> DEFINE mid == (a + z) \div 2
    <3>1. mid \in BucketIndex /\ a < mid /\ mid < z /\ mid \in Nat
      BY <1>1, <2>2, <2>5, MiddleIsBetween
    <3>2. f[<<a, z>>] = IF Exceeds(mid, L) THEN f[<<a, mid>>] ELSE f[<<mid, z>>]
      BY <2>1, <2>2, <2>5 DEF Halving
    <3> HIDE DEF mid
    <3>3. mid - a <= d /\ z - mid <= d
      BY <2>1, <3>1
    <3>4. Found(a, mid) /\ Found(mid, z)
      <4> HIDE DEF Found
      <4> QED
        BY <2>3, <3>1, <3>3
    <3>5. CASE Exceeds(mid, L)
      <4>1. f[<<a, z>>] = f[<<a, mid>>]
        BY <3>2, <3>5
      <4>2. f[<<a, mid>>] \in Nat /\ f[<<a, mid>>] < mid
        BY <1>1, <3>1, <3>4, <3>5
      <4>3. f[<<a, mid>>] < z
        BY <2>1, <3>1, <4>2
      <4> QED
        BY <3>1, <3>4, <3>5, <4>1, <4>3
    <3>6. CASE ~ Exceeds(mid, L)
      <4>1. f[<<a, z>>] = f[<<mid, z>>]
        BY <3>2, <3>6
      <4>2. f[<<mid, z>>] \in Nat /\ mid <= f[<<mid, z>>]
        BY <1>1, <3>1, <3>4
      <4>3. a <= f[<<mid, z>>] /\ (f[<<mid, z>>] = mid \/ ~ Exceeds(f[<<mid, z>>], L))
        BY <2>1, <3>1, <3>4, <4>2
      <4> QED
        BY <3>1, <3>4, <3>6, <4>1, <4>3
    <3> QED
      BY <3>5, <3>6
  <2> QED
    BY <2>1, <2>4, <2>5
<1>4. \A d \in Nat : d \in S
  <2> HIDE DEF S
  <2> QED
    BY <1>2, <1>3, SetInduction
<1>5. ASSUME NEW a \in BucketIndex, NEW z \in BucketIndex, a < z PROVE Found(a, z)
  <2>1. z - a \in Nat /\ z - a <= z - a
    BY <1>1, <1>5
  <2>2. z - a \in S
    BY <1>4, <2>1
  <2> HIDE DEF Found
  <2> QED
    BY <2>1, <2>2
<1> QED
  BY <1>5

\* What the solver answers with: the last bucket that fits, unless nothing fits.
LEMMA SolverAnswer ==
    ASSUME SolverInv, NEW L \in Lines
    PROVE  /\ GivesUp(L) => \/ \E i \in {0, LastBucket} : Unique(i) = L * total_accesses
                            \/ \A i \in BucketIndex : ~ Fits(i, L)
           /\ ~ GivesUp(L) =>
                /\ Bisect(L, LowLimit(L)) \in BucketIndex
                /\ \A i \in BucketIndex : Fits(i, L) <=> i <= Bisect(L, LowLimit(L))
<1> DEFINE X == L * total_accesses
<1>1. LastBucket \in Nat /\ L \in Nat /\ 0 \in BucketIndex /\ LastBucket \in BucketIndex
  BY SolverAssumption DEF BucketIndex
<1>2. \A i \in BucketIndex : i \in Nat /\ 0 <= i /\ i <= LastBucket
  BY <1>1 DEF BucketIndex
<1>3. X \in Nat
  <2>1. total_accesses \in Nat
    BY Cumulated
  <2>2. \A m, n \in Nat : m * n \in Nat
    OBVIOUS
  <2> QED
    BY <1>1, <2>1, <2>2, Zenon
<1>4. \A i, j \in BucketIndex : Unique(i) \in Nat /\ (i <= j => Unique(i) <= Unique(j))
  BY UniqueAscends
<1>5. \A i \in BucketIndex : (Fits(i, L) <=> Unique(i) <= X) /\ (Exceeds(i, L) <=> Unique(i) > X)
  BY DEF Fits, Exceeds
<1>6. LowLimit(L) = (IF Unique(LastBucket) <= X THEN LastBucket ELSE 0)
  BY DEF LowLimit
<1>7. GivesUp(L) <=> Unique(LowLimit(L)) >= X
  BY DEF GivesUp
<1>8. PICK f : Halving(L, f)
  BY BisectionRuns
<1>9. \A from : Bisect(L, from) = f[<<from, LastBucket>>]
  BY <1>8 DEF Halving
<1>10. (\E i \in {0, LastBucket} : Unique(i) = X) <=> Unique(0) = X \/ Unique(LastBucket) = X
  OBVIOUS
<1> HIDE DEF X
<1>11. CASE Unique(LastBucket) <= X
  <2>1. LowLimit(L) = LastBucket
    BY <1>6, <1>11
  <2>2. GivesUp(L) => Unique(LastBucket) = X
    BY <1>1, <1>3, <1>4, <1>7, <1>11, <2>1
  <2>3. Bisect(L, LastBucket) = LastBucket
    <3>1. <<LastBucket, LastBucket>> \in Limits /\ LastBucket - LastBucket <= 1
      BY <1>1 DEF Limits
    <3>2. f[<<LastBucket, LastBucket>>] = LastBucket
      BY <1>8, <3>1 DEF Halving
    <3> QED
      BY <1>9, <3>2
  <2>4. \A i \in BucketIndex : Fits(i, L)
    BY <1>1, <1>2, <1>3, <1>4, <1>5, <1>11
  <2> QED
    BY <1>1, <1>2, <1>10, <2>1, <2>2, <2>3, <2>4 DEF X
<1>12. CASE ~ (Unique(LastBucket) <= X)
  <2>1. LowLimit(L) = 0
    BY <1>6, <1>12
  <2>2. Unique(LastBucket) > X
    BY <1>1, <1>3, <1>4, <1>12
  <2>3. CASE GivesUp(L)
    <3>1. Unique(0) >= X
      BY <1>7, <2>1, <2>3
    <3>2. CASE Unique(0) = X
      BY <1>10, <2>3, <3>2 DEF X
    <3>3. CASE Unique(0) # X
      <4>1. \A i \in BucketIndex : ~ Fits(i, L)
        BY <1>1, <1>2, <1>3, <1>4, <1>5, <3>1, <3>3
      <4> QED
        BY <2>3, <4>1
    <3> QED
      BY <3>2, <3>3
  <2>4. CASE ~ GivesUp(L)
    <3>1. Unique(0) < X
      BY <1>1, <1>3, <1>4, <1>7, <2>1, <2>4
    <3>2. 0 < LastBucket /\ Exceeds(LastBucket, L)
      <4>1. LastBucket # 0
        BY <1>1, <1>3, <1>4, <2>2, <3>1
      <4> QED
        BY <1>1, <1>5, <2>2, <4>1
    <3> DEFINE n == f[<<0, LastBucket>>]
    <3>3. /\ n \in BucketIndex /\ n < LastBucket
          /\ n = 0 \/ ~ Exceeds(n, L)
          /\ Exceeds(n + 1, L)
      BY <1>1, <1>8, <3>2, BisectionFinds
    <3>4. Bisect(L, LowLimit(L)) = n
      BY <1>9, <2>1
    <3> HIDE DEF n
    <3>5. n + 1 \in BucketIndex
      BY <1>1, <3>3 DEF BucketIndex
    <3>6. Unique(n) <= X /\ Unique(n + 1) > X
      BY <1>1, <1>3, <1>4, <1>5, <3>1, <3>3, <3>5
    <3>7. ASSUME NEW i \in BucketIndex PROVE Fits(i, L) <=> i <= n
      <4>1. CASE i <= n
        <5>1. Unique(i) <= Unique(n) /\ Unique(i) \in Nat /\ Unique(n) \in Nat
          BY <1>4, <3>3, <4>1
        <5> QED
          BY <1>3, <1>5, <3>6, <4>1, <5>1
      <4>2. CASE ~ (i <= n)
        <5>1. n + 1 <= i
          BY <1>2, <3>3, <4>2
        <5>2. Unique(n + 1) <= Unique(i) /\ Unique(i) \in Nat /\ Unique(n + 1) \in Nat
          BY <1>4, <3>5, <5>1
        <5>3. ~ (Unique(i) <= X)
          BY <1>3, <3>6, <5>2
        <5> QED
          BY <1>5, <4>2, <5>3
      <4> QED
        BY <4>1, <4>2
    <3> QED
      BY <2>4, <3>3, <3>4, <3>7
  <2> QED
    BY <2>3, <2>4
<1> QED
  BY <1>11, <1>12

\* Where the buckets up to r fit, the accesses of the others are the misses, and
\* taking the hits out of the histogram leaves its own cumulation.
LEMMA MissesAreBehind ==
    ASSUME SolverInv, NEW L, NEW r \in BucketIndex, \A i \in BucketIndex : Fits(i, L) <=> i <= r
    PROVE  total_accesses - cumul_histogram[r]
              = SumTo([i \in BucketIndex |-> IF Fits(i, L) THEN 0 ELSE counts[i]], LastBucket)
<1> DEFINE k == [i \in 0 .. LastBucket |-> IF i <= r THEN 0 ELSE counts[i]]
<1>1. LastBucket \in Nat /\ counts \in [0 .. LastBucket -> Nat] /\ r \in 0 .. LastBucket
  BY SolverAssumption DEF SolverInv, BucketIndex
<1>2. [i \in BucketIndex |-> IF Fits(i, L) THEN 0 ELSE counts[i]] = k
  BY DEF BucketIndex
<1> HIDE DEF k
<1>3. SumTo(k, LastBucket)
        = IF LastBucket <= r THEN 0 ELSE SumTo(counts, LastBucket) - SumTo(counts, r)
  BY <1>1, SumCuts DEF k
<1>4. /\ cumul_histogram[r] = SumTo(counts, r) /\ total_accesses = SumTo(counts, LastBucket)
      /\ total_accesses \in Nat
  BY Cumulated DEF SolverInv
<1>5. CASE LastBucket <= r
  <2>1. r = LastBucket
    BY <1>1, <1>5
  <2> QED
    BY <1>2, <1>3, <1>4, <1>5, <2>1
<1>6. CASE ~ (LastBucket <= r)
  BY <1>2, <1>3, <1>4, <1>6
<1> QED
  BY <1>5, <1>6

LEMMA EmptiedIsCumulated ==
    ASSUME SolverInv, NEW r \in BucketIndex,
           NEW k, k = [i \in BucketIndex |-> IF i <= r THEN 0 ELSE counts[i]],
           NEW c, c = [i \in BucketIndex |->
                         IF i < r THEN 0 ELSE cumul_histogram[i] - cumul_histogram[r]]
    PROVE  k \in [BucketIndex -> Nat] /\ c = CumulOf(k)
<1>1. LastBucket \in Nat /\ counts \in [0 .. LastBucket -> Nat] /\ r \in 0 .. LastBucket
  BY SolverAssumption DEF SolverInv, BucketIndex
<1>2. \A i \in BucketIndex :
         SumTo(k, i) = IF i <= r THEN 0 ELSE SumTo(counts, i) - SumTo(counts, r)
  BY <1>1, SumCuts DEF BucketIndex
<1>3. \A i \in BucketIndex : cumul_histogram[i] = SumTo(counts, i) /\ cumul_histogram[i] \in Nat
  BY Cumulated
<1>4. ASSUME NEW i \in BucketIndex PROVE c[i] = SumTo(k, i)
  <2>1. i \in Int /\ r \in Int
    BY DEF BucketIndex
  <2>2. CASE i < r
    BY <1>2, <2>1, <2>2
  <2>3. CASE i = r
    <3>1. cumul_histogram[i] - cumul_histogram[r] = 0
      BY <1>3, <2>3
    <3> QED
      BY <1>2, <2>1, <2>3, <3>1
  <2>4. CASE i > r
    BY <1>2, <1>3, <2>1, <2>4
  <2> QED
    BY <2>1, <2>2, <2>3, <2>4
<1>5. k \in [BucketIndex -> Nat]
  BY <1>1 DEF BucketIndex
<1> QED
  BY <1>4, <1>5 DEF CumulOf

\* The answer to a cache of L lines, from either call of the solver.
LEMMA AnswerCountsMisses ==
    ASSUME SolverInv, NEW L \in Lines, NEW m,
           m = IF GivesUp(L) THEN total_accesses ELSE total_accesses - HitsIn(L)
    PROVE  \/ \E i \in {0, LastBucket} : Unique(i) = L * total_accesses
           \/ m = SumTo([i \in BucketIndex |-> IF Fits(i, L) THEN 0 ELSE counts[i]], LastBucket)
<1>1. CASE GivesUp(L)
  <2>1. CASE \A i \in BucketIndex : ~ Fits(i, L)
    <3>1. [i \in BucketIndex |-> IF Fits(i, L) THEN 0 ELSE counts[i]] = counts
      BY <2>1 DEF SolverInv
    <3> QED
      BY <1>1, <3>1 DEF SolverInv
  <2> QED
    BY <1>1, <2>1, SolverAnswer
<1>2. CASE ~ GivesUp(L)
  BY <1>2, SolverAnswer, MissesAreBehind DEF HitsIn
<1> QED
  BY <1>1, <1>2

LEMMA SolverStep ==
    ASSUME SolverInv, SolverNext
    PROVE  /\ SolverInv'
           /\ \/ \E i \in {0, LastBucket} : Unique(i) = size' * total_accesses
              \/ misses' = SumTo([i \in BucketIndex |-> IF Fits(i, size') THEN 0 ELSE counts[i]],
                                 LastBucket)
<1>1. PICK L \in Lines : Solve(L) \/ SolveAndEmpty(L)
  BY DEF SolverNext
<1>2. size' = L /\ misses' = IF GivesUp(L) THEN total_accesses ELSE total_accesses - HitsIn(L)
  BY <1>1 DEF Solve, SolveAndEmpty
<1>3. SolverInv'
  <2>1. CASE Solve(L)
    BY <2>1 DEF Solve, SolverInv, CumulOf
  <2>2. CASE SolveAndEmpty(L) /\ GivesUp(L)
    <3>1. UNCHANGED <<counts, cumul_histogram>> /\ total_accesses' = cumul_histogram[LastBucket]
      BY <2>2 DEF SolveAndEmpty
    <3>2. cumul_histogram[LastBucket] = total_accesses
      BY Cumulated
    <3> QED
      BY <3>1, <3>2 DEF SolverInv, CumulOf
  <2>3. CASE SolveAndEmpty(L) /\ ~ GivesUp(L)
    <3> DEFINE r == Bisect(L, LowLimit(L))
    <3>1. r \in BucketIndex
      BY <2>3, SolverAnswer
    <3>2. /\ counts' = [i \in BucketIndex |-> IF i <= r THEN 0 ELSE counts[i]]
          /\ cumul_histogram' = [i \in BucketIndex |->
                IF i < r THEN 0 ELSE cumul_histogram[i] - cumul_histogram[r]]
          /\ total_accesses' = cumul_histogram'[LastBucket]
      BY <2>3 DEF SolveAndEmpty, HitsIn
    <3> HIDE DEF r
    <3>3. counts' \in [BucketIndex -> Nat] /\ cumul_histogram' = CumulOf(counts')
      BY <3>1, <3>2, EmptiedIsCumulated
    <3>4. LastBucket \in BucketIndex
      BY SolverAssumption DEF BucketIndex
    <3>5. total_accesses' = SumTo(counts', LastBucket)
      BY <3>2, <3>3, <3>4 DEF CumulOf
    <3> QED
      BY <3>3, <3>5 DEF SolverInv, CumulOf
  <2> QED
    BY <1>1, <2>1, <2>2, <2>3
<1> QED
  BY <1>2, <1>3, AnswerCountsMisses

\* The bisection of the LRU solver answers what a search of all buckets would, for every
\* histogram, cache size and choice of buckets, and taking the hits of a smaller cache out
\* leaves a histogram that is its own cumulation; excepted are caches that the first
\* bucket or all of them fill exactly.
THEOREM LruSolverFindsTheCut == SolverSpec => SolverFindsTheCut
<1>1. SolverInit => SolverInv
  <2> SUFFICES ASSUME SolverInit PROVE SolverInv
    OBVIOUS
  <2>1. LastBucket \in BucketIndex /\ MaxCount \in Nat
    BY SolverAssumption DEF BucketIndex
  <2>2. counts \in [BucketIndex -> Nat]
    BY <2>1 DEF SolverInit
  <2> QED
    BY <2>1, <2>2 DEF SolverInit, SolverInv, CumulOf
<1>2. SolverInv /\ [SolverNext]_solverVars => SolverInv'
  <2>1. SolverInv /\ UNCHANGED solverVars => SolverInv'
    BY DEF SolverInv, CumulOf, solverVars
  <2> QED
    BY <2>1, SolverStep
<1>3. SolverInv /\ [SolverNext]_solverVars
        => [ /\ cumul_histogram' = CumulOf(counts')
             /\ \/ \E i \in {0, LastBucket} : Unique(i) = size' * total_accesses
                \/ misses' = SumTo([i \in BucketIndex |-> IF Fits(i, size') THEN 0 ELSE counts[i]],
                                   LastBucket)
           ]_solverVars
  <2>1. SolverInv' => cumul_histogram' = CumulOf(counts')
    BY DEF SolverInv
  <2> QED
    BY <2>1, SolverStep
<1> QED
  BY <1>1, <1>2, <1>3, PTL DEF SolverSpec, SolverFindsTheCut
=============================================================================
