------------------------ MODULE LruReplacementProofs ------------------------
(***************************************************************************)
(* LruReplacement for every number of ways and every set of lines: ages    *)
(* stay bounded and distinct, and a set replaces its least recently used   *)
(* line.                                                                   *)
(***************************************************************************)
EXTENDS LruReplacement, TLAPS

\* The ways are filled in order.  While n of them are in use their ages are n
\* different numbers below n, and the others have aged once for each of the n.
Filled(n) ==
    /\ n \in 0 .. NUM_WAY
    /\ Valid = 0 .. n - 1
    /\ \A w \in 0 .. n - 1 : lru[w] \in 0 .. n - 1
    /\ \A w \in n .. NUM_WAY - 1 : lru[w] = InitLru + n
    /\ \A v, w \in 0 .. n - 1 : lru[v] = lru[w] => v = w

IInv ==
    /\ tag \in [Way -> Tag \cup {NoTag}]
    /\ lru \in [Way -> Nat]
    /\ \E n \in Nat : Filled(n)

LEMMA InitIInv == LruInit => IInv
<1> SUFFICES ASSUME LruInit PROVE IInv
  OBVIOUS
<1> USE WayAssumption, InitLruAssumption, NoTagAssumption
<1>1. Valid = {}
  BY DEF LruInit, Valid
<1>2. Filled(0)
  BY <1>1, SMT DEF LruInit, Filled, Way
<1> QED
  BY <1>2 DEF LruInit, IInv

\* A use of a way keeps the ages of the ways in use below n and different.
LEMMA UseKeepsFilled ==
    ASSUME IInv, NEW n \in Nat, Filled(n), NEW w \in Valid, lru' = LruAged(w),
           Valid' = Valid
    PROVE  Filled(n)'
<1> USE WayAssumption, InitLruAssumption
<1>1. w \in 0 .. n - 1 /\ n <= NUM_WAY /\ lru[w] < n
  BY DEF Filled
<1>2. \A v \in 0 .. n - 1 : v \in Way /\ lru[v] \in Nat
  BY <1>1 DEF Way, IInv
<1>3. \A v \in Way : lru'[v] = IF v = w THEN 0
                               ELSE IF lru[v] <= lru[w] THEN lru[v] + 1 ELSE lru[v]
  BY DEF LruAged
<1>4. \A v \in 0 .. n - 1 : v # w /\ lru[v] <= lru[w] => lru[v] < lru[w]
  BY <1>1, <1>2 DEF Filled
<1>5. \A v \in 0 .. n - 1 : lru'[v] \in 0 .. n - 1
  <2> TAKE v \in 0 .. n - 1
  <2>1. lru[v] \in 0 .. n - 1 /\ lru[w] \in 0 .. n - 1
    BY <1>1 DEF Filled
  <2> QED
    BY <2>1, <1>2, <1>3, <1>4
<1>6. \A v \in n .. NUM_WAY - 1 : lru'[v] = InitLru + n
  <2> TAKE v \in n .. NUM_WAY - 1
  <2>1. v \in Way /\ v # w /\ lru[v] = InitLru + n
    BY <1>1 DEF Filled, Way
  <2>2. lru[w] \in Nat
    BY <1>1, <1>2
  <2> QED
    BY <2>1, <2>2, <1>1, <1>3
<1>7. \A u, v \in 0 .. n - 1 : lru'[u] = lru'[v] => u = v
  <2> SUFFICES ASSUME NEW u \in 0 .. n - 1, NEW v \in 0 .. n - 1, lru'[u] = lru'[v]
               PROVE  u = v
    OBVIOUS
  <2>1. lru[u] = lru[v] => u = v
    BY DEF Filled
  <2>2. lru[u] \in Nat /\ lru[v] \in Nat /\ lru[w] \in Nat
    BY <1>1, <1>2
  <2> QED
    BY <2>1, <2>2, <1>2, <1>3, <1>4
<1> QED
  BY <1>5, <1>6, <1>7 DEF Filled

\* A fill of the next invalid way takes n to n + 1.
LEMMA FillInvalidKeepsFilled ==
    ASSUME IInv, NEW n \in Nat, Filled(n), n < NUM_WAY,
           lru' = LruAged(n), Valid' = Valid \cup {n}
    PROVE  Filled(n + 1)'
<1> USE WayAssumption, InitLruAssumption
<1>1. \A v \in Way : lru'[v] = IF v = n THEN 0
                               ELSE IF lru[v] <= lru[n] THEN lru[v] + 1 ELSE lru[v]
  BY DEF LruAged
<1>2. n \in Way /\ lru[n] = InitLru + n
  BY DEF Filled, Way
<1>3. \A v \in 0 .. n - 1 : v \in Way /\ lru[v] \in 0 .. n - 1 /\ lru'[v] = lru[v] + 1
  BY <1>1, <1>2 DEF Filled, Way
<1>4. Valid' = 0 .. n
  BY DEF Filled
<1>5. lru'[n] = 0
  BY <1>1, <1>2
<1>6. \A v \in 0 .. n : lru'[v] \in 0 .. n
  BY <1>3, <1>5
<1>7. \A v \in n + 1 .. NUM_WAY - 1 : lru'[v] = InitLru + (n + 1)
  BY <1>1, <1>2 DEF Filled, Way
<1>8. \A u, v \in 0 .. n : lru'[u] = lru'[v] => u = v
  <2> SUFFICES ASSUME NEW u \in 0 .. n, NEW v \in 0 .. n, lru'[u] = lru'[v]
               PROVE  u = v
    OBVIOUS
  <2>1. CASE u = n \/ v = n
    BY <2>1, <1>3, <1>5
  <2>2. CASE u \in 0 .. n - 1 /\ v \in 0 .. n - 1
    BY <2>2, <1>3 DEF Filled
  <2> QED
    BY <2>1, <2>2
<1> QED
  BY <1>4, <1>6, <1>7, <1>8 DEF Filled

\* The first of the ways that are not in use is the n-th, and a victim is the
\* only block that every other block is younger than.
LEMMA FillWay ==
    ASSUME IInv, NEW n \in Nat, Filled(n), NEW w \in Way, w \in FillWays
    PROVE  \/ n < NUM_WAY /\ w = n
           \/ /\ n = NUM_WAY /\ Valid = Way /\ w \in Valid
              /\ \A v \in Way \ {w} : lru[v] < lru[w]
<1> USE WayAssumption
<1>1. CASE n < NUM_WAY
  <2>1. n \in Way \ Valid /\ Way \ Valid = n .. NUM_WAY - 1
    BY <1>1 DEF Filled, Way
  <2>2. w \in Way \ Valid /\ \A v \in Way \ Valid : w <= v
    BY <2>1 DEF FillWays
  <2> QED
    BY <2>1, <2>2, <1>1
<1>2. CASE n = NUM_WAY
  <2>1. Valid = Way
    BY <1>2 DEF Filled, Way
  <2>2. w \in Valid /\ \A v \in Valid : lru[v] <= lru[w]
    BY <2>1 DEF FillWays, Victims
  <2>3. \A v \in Way \ {w} : lru[v] # lru[w]
    BY <2>1, <1>2 DEF Filled, Way
  <2>4. \A v \in Way : lru[v] \in Nat
    BY DEF IInv
  <2> QED
    BY <2>1, <2>2, <2>3, <2>4, <1>2
<1> QED
  BY <1>1, <1>2 DEF Filled

LEMMA HitKeepsIInv ==
    ASSUME IInv, NEW w \in Way, NEW writeback \in BOOLEAN, Hit(w, writeback)
    PROVE  IInv'
<1>1. w \in Valid /\ tag' = tag /\ Valid' = Valid
  BY DEF Hit, Valid
<1>2. PICK n \in Nat : Filled(n)
  BY DEF IInv
<1>3. CASE writeback
  <2>1. lru' = lru
    BY <1>3 DEF Hit
  <2> QED
    BY <2>1, <1>1, <1>2 DEF IInv, Filled
<1>4. CASE ~ writeback
  <2>1. lru' = LruAged(w)
    BY <1>4 DEF Hit
  <2>2. Filled(n)'
    BY <2>1, <1>1, <1>2, UseKeepsFilled
  <2>3. lru' \in [Way -> Nat]
    BY <2>1 DEF LruAged, IInv
  <2> QED
    BY <2>2, <2>3, <1>1 DEF IInv
<1> QED
  BY <1>3, <1>4

LEMMA FillKeepsIInv ==
    ASSUME IInv, NEW w \in Way, NEW t \in Tag, Fill(w, t)
    PROVE  IInv'
<1>1. PICK n \in Nat : Filled(n)
  BY DEF IInv
<1>2. lru' = LruAged(w) /\ lru' \in [Way -> Nat]
  BY DEF Fill, LruAged, IInv
<1>3. tag' \in [Way -> Tag \cup {NoTag}]
  BY DEF Fill, IInv
<1>4. Valid' = Valid \cup {w}
  BY NoTagAssumption DEF Fill, Valid, IInv
<1>5. CASE n < NUM_WAY /\ w = n
  <2>1. Filled(n + 1)'
    BY <1>1, <1>2, <1>4, <1>5, FillInvalidKeepsFilled
  <2> QED
    BY <2>1, <1>2, <1>3 DEF IInv
<1>6. CASE w \in Valid
  <2>1. Valid' = Valid
    BY <1>4, <1>6
  <2>2. Filled(n)'
    BY <2>1, <1>1, <1>2, <1>6, UseKeepsFilled
  <2> QED
    BY <2>2, <1>2, <1>3 DEF IInv
<1>7. w \in FillWays
  BY DEF Fill
<1> QED
  BY <1>1, <1>5, <1>6, <1>7, FillWay

LEMMA NextIInv == IInv /\ [LruNext]_lruVars => IInv'
<1> SUFFICES ASSUME IInv, [LruNext]_lruVars PROVE IInv'
  OBVIOUS
<1>1. CASE \E w \in Way, writeback \in BOOLEAN : Hit(w, writeback)
  BY <1>1, HitKeepsIInv
<1>2. CASE \E w \in Way, t \in Tag : Fill(w, t)
  BY <1>2, FillKeepsIInv
<1>3. CASE UNCHANGED lruVars
  BY <1>3 DEF lruVars, IInv, Filled, Valid
<1> QED
  BY <1>1, <1>2, <1>3 DEF LruNext

LEMMA IInvTypeOK == IInv => TypeOK
<1> SUFFICES ASSUME IInv PROVE TypeOK
  OBVIOUS
<1>1. PICK n \in Nat : Filled(n)
  BY DEF IInv
<1>2. \A w \in Way : lru[w] \in 0 .. InitLru + NUM_WAY
  BY <1>1, WayAssumption, InitLruAssumption DEF Filled, Way
<1> QED
  BY <1>2 DEF IInv, TypeOK

LEMMA IInvAgesAreDistinct == IInv => AgesAreDistinct
<1> SUFFICES ASSUME IInv PROVE AgesAreDistinct
  OBVIOUS
<1>1. PICK n \in Nat : Filled(n)
  BY DEF IInv
<1>2. \A v, w \in Valid : lru[v] = lru[w] => v = w
  BY <1>1 DEF Filled
<1>3. \A v \in Valid, w \in Way \ Valid : lru[v] < lru[w]
  BY <1>1, InitLruAssumption, WayAssumption DEF Filled, Way
<1> QED
  BY <1>2, <1>3 DEF AgesAreDistinct

LEMMA SpecIInv == LruSpec => []IInv
BY InitIInv, NextIInv, PTL DEF LruSpec

\* The ages never leave 0 .. InitLru + NUM_WAY, however many uses a set has
\* seen: the lru field of a block cannot overflow.
THEOREM LruTypeOK == LruSpec => []TypeOK
BY SpecIInv, IInvTypeOK, PTL

\* No two blocks of a set in use have the same age, and none is as old as a
\* block never used: find_victim never chooses by position.
THEOREM LruAgesAreDistinct == LruSpec => []AgesAreDistinct
BY SpecIInv, IInvAgesAreDistinct, PTL

-----------------------------------------------------------------------------
Newer == {p \in Valid \X Valid : lru[p[1]] < lru[p[2]]}

\* Aging by the use of w makes w the youngest and keeps the order of the rest.
LEMMA AgingOrders ==
    ASSUME IInv, NEW w \in Way, lru' = LruAged(w), Valid' = Valid \cup {w},
           NEW u \in Valid', NEW v \in Valid'
    PROVE  lru'[u] < lru'[v] <=> \/ u = w /\ v # w
                                 \/ u # w /\ v # w /\ lru[u] < lru[v]
<1>1. u \in Way /\ v \in Way /\ Valid \subseteq Way
  BY DEF Valid
<1>2. \A x \in Way : lru'[x] = IF x = w THEN 0
                               ELSE IF lru[x] <= lru[w] THEN lru[x] + 1 ELSE lru[x]
  BY DEF LruAged
<1>3. \A x \in Way : lru[x] \in Nat
  BY DEF IInv
<1>4. AgesAreDistinct
  BY IInvAgesAreDistinct
<1>5. \A x \in Valid : x # w => lru[x] # lru[w]
  BY <1>1, <1>3, <1>4 DEF AgesAreDistinct
<1> QED
  BY <1>1, <1>2, <1>3, <1>5

LEMMA AgingPromotes ==
    ASSUME IInv, NEW w \in Way, lru' = LruAged(w), Valid' = Valid \cup {w}
    PROVE  Newer' = {p \in Newer : p[1] # w /\ p[2] # w}
                        \cup {<<w, v>> : v \in (Valid \cup {w}) \ {w}}
<1> DEFINE R == {p \in Newer : p[1] # w /\ p[2] # w}
                    \cup {<<w, v>> : v \in (Valid \cup {w}) \ {w}}
<1>1. \A u, v : <<u, v>> \in Newer' <=> u \in Valid' /\ v \in Valid' /\ lru'[u] < lru'[v]
  BY DEF Newer
<1>2. \A u, v : <<u, v>> \in R <=> \/ u = w /\ v \in Valid /\ v # w
                                   \/ /\ u \in Valid /\ v \in Valid /\ lru[u] < lru[v]
                                      /\ u # w /\ v # w
  BY DEF Newer
<1>3. ASSUME NEW u, NEW v PROVE <<u, v>> \in Newer' <=> <<u, v>> \in R
  <2>1. CASE u \in Valid' /\ v \in Valid'
    <3>1. lru'[u] < lru'[v] <=> \/ u = w /\ v # w
                                \/ u # w /\ v # w /\ lru[u] < lru[v]
      BY <2>1, AgingOrders
    <3> QED
      BY <3>1, <2>1, <1>1, <1>2
  <2>2. CASE ~ (u \in Valid' /\ v \in Valid')
    <3>1. ~ (u \in Valid /\ v \in Valid) /\ ~ (u = w /\ v \in Valid)
      BY <2>2
    <3> QED
      BY <3>1, <2>2, <1>1, <1>2
  <2> QED
    BY <2>1, <2>2
<1>4. \A p \in Newer' : p = <<p[1], p[2]>>
  BY DEF Newer
<1>5. \A p \in R : p = <<p[1], p[2]>>
  BY DEF Newer
<1> QED
  BY <1>3, <1>4, <1>5

LEMMA InitImplements == LruInit => Policy!Init
<1> SUFFICES ASSUME LruInit PROVE Policy!Init
  OBVIOUS
<1>1. Valid = {}
  BY DEF LruInit, Valid
<1> QED
  BY <1>1 DEF LruInit, Policy!Init

LEMMA HitImplements ==
    ASSUME IInv, NEW w \in Way, NEW writeback \in BOOLEAN, Hit(w, writeback)
    PROVE  Policy!Use(w) \/ UNCHANGED <<tag, Newer>>
<1>1. w \in Valid /\ tag' = tag /\ Valid' = Valid
  BY DEF Hit, Valid
<1>2. CASE writeback
  BY <1>1, <1>2 DEF Hit, Newer
<1>3. CASE ~ writeback
  <2>1. lru' = LruAged(w)
    BY <1>3 DEF Hit
  <2>2. Newer' = {p \in Newer : p[1] # w /\ p[2] # w}
                    \cup {<<w, v>> : v \in Valid \ {w}}
    BY <2>1, <1>1, AgingPromotes
  <2> QED
    BY <2>2, <1>1 DEF Policy!Use, Policy!Promote, Policy!Occupied, Valid, Newer
<1> QED
  BY <1>2, <1>3

LEMMA FillImplements ==
    ASSUME IInv, NEW w \in Way, NEW t \in Tag, Fill(w, t)
    PROVE  Policy!Fill(w, t)
<1>1. PICK n \in Nat : Filled(n)
  BY DEF IInv
<1>2. w \in FillWays /\ lru' = LruAged(w)
  BY DEF Fill
<1>3. Valid' = Valid \cup {w}
  BY NoTagAssumption DEF Fill, Valid, IInv
<1>4. Newer' = {p \in Newer : p[1] # w /\ p[2] # w}
                   \cup {<<w, v>> : v \in (Valid \cup {w}) \ {w}}
  BY <1>2, <1>3, AgingPromotes
<1>5. Newer' = {p \in Newer : p[1] # w /\ p[2] # w}
                   \cup {<<w, v>> : v \in Valid \ {w}}
  BY <1>4
<1>6. tag[w] = NoTag \/ (Valid = Way /\ \A v \in Way \ {w} : <<v, w>> \in Newer)
  <2>1. CASE n < NUM_WAY /\ w = n
    BY <2>1, <1>1 DEF Filled, Valid
  <2>2. CASE Valid = Way /\ w \in Valid /\ \A v \in Way \ {w} : lru[v] < lru[w]
    BY <2>2 DEF Newer
  <2> QED
    BY <1>1, <1>2, <2>1, <2>2, FillWay
<1> QED
  BY <1>5, <1>6 DEF Fill, Policy!Fill, Policy!Promote, Policy!Occupied, Policy!Oldest,
                    Valid, Newer

LEMMA NextImplements == IInv /\ [LruNext]_lruVars => [Policy!Next]_<<tag, Newer>>
<1> SUFFICES ASSUME IInv, [LruNext]_lruVars PROVE [Policy!Next]_<<tag, Newer>>
  OBVIOUS
<1>1. CASE \E w \in Way, writeback \in BOOLEAN : Hit(w, writeback)
  BY <1>1, HitImplements DEF Policy!Next
<1>2. CASE \E w \in Way, t \in Tag : Fill(w, t)
  BY <1>2, FillImplements DEF Policy!Next
<1>3. CASE UNCHANGED lruVars
  BY <1>3 DEF lruVars, Newer, Valid
<1> QED
  BY <1>1, <1>2, <1>3 DEF LruNext

\* A set replaces the line whose last use is the longest ago, after any sequence
\* of hits, writebacks and fills.
THEOREM LruImplementsPolicy == LruSpec => ReplacesLeastRecent
BY InitImplements, SpecIInv, NextImplements, PTL
   DEF LruSpec, ReplacesLeastRecent, Policy!Spec, Newer
=============================================================================
