-------------------------- MODULE RripReplacement --------------------------
(***************************************************************************)
(* One set of a cache under the re-reference interval policies srrip,      *)
(* drrip and ship (replacement/), which keep an interval in the lru field  *)
(* of each block: 0 is near, maxRRPV is distant and leaves first.          *)
(*                                                                         *)
(* drrip and ship learn from a few sampled sets, listed in rand_sets and   *)
(* known here by their position in it.  Elsewhere is what accesses to      *)
(* other sets do to the tables that all sets share.                        *)
(***************************************************************************)
EXTENDS Integers, FiniteSets, Sequences

CONSTANTS
    RripWays, maxRRPV,
    RripInitLru, LruRange,    \* BLOCK::lru starts at max >> 1 and counts modulo LruRange
    Samplers,                 \* length of rand_sets
    PSEL_MAX, BIP_MAX, SHCT_MAX,
    SamplerInitLru,           \* 9999999 in the code
    RripLine, NoRripLine, RegionOf(_), \* lines, and the region that ship's eq_addr compares
    Signature,                \* ip % SHCT_PRIME
    MaxSampled                \* bound: accesses that reach ship's sampler

ASSUME RripAssumption ==
    /\ {RripWays, maxRRPV, RripInitLru, LruRange, Samplers, PSEL_MAX, BIP_MAX, SHCT_MAX}
          \subseteq Nat \ {0}
    /\ maxRRPV < RripInitLru /\ RripInitLru < LruRange
    /\ NoRripLine \notin RripLine

VARIABLES
    policy,    \* the policy of this cache
    position,  \* of this set in rand_sets, Samplers when it is not sampled
    line,      \* the line in each way
    rrpv,      \* its lru field
    psel, bip_counter,
    sampler, SHCT,
    sampled,   \* counts the accesses bounded by MaxSampled
    touch,     \* history: how each way was last used
    after      \* history: <<v, w>> when v was last used after w

rripVars == <<policy, position, line, rrpv, psel, bip_counter, sampler, SHCT, sampled, touch, after>>

RripWay == 0 .. RripWays - 1
Demand == "demand"      Writeback == "writeback"
SamplerEntry == 0 .. Samplers + RripWays - 2

RripInit ==
    /\ policy \in {"srrip", "drrip", "ship"}
    /\ position \in 0 .. Samplers
    /\ line = [w \in RripWay |-> NoRripLine]
    /\ rrpv = [w \in RripWay |-> IF policy = "srrip" THEN maxRRPV ELSE RripInitLru]
    /\ psel = 0 /\ bip_counter = 0
    /\ sampler = [e \in SamplerEntry |-> [valid |-> FALSE, used |-> FALSE, region |-> 0, ip |-> 0,
                                          lru |-> SamplerInitLru]]
    /\ SHCT = [i \in Signature |-> 0]
    /\ sampled = 0
    /\ touch = [w \in RripWay |-> "never"]
    /\ after = {}

FirstOf(S) == CHOOSE x \in S : \A y \in S : x <= y

-----------------------------------------------------------------------------
\* find_victim adds 1 to every block of the set until one is distant, which may
\* take the counters once around.
Missing(w) == (maxRRPV - rrpv[w]) % LruRange

Rounds == FirstOf({Missing(w) : w \in RripWay})

AgedSet == [w \in RripWay |-> (rrpv[w] + Rounds) % LruRange]

RripVictim == FirstOf({w \in RripWay : AgedSet[w] = maxRRPV})

\* handle_fill and handle_writeback take an invalid way before they ask.
Empty == {w \in RripWay : line[w] = NoRripLine}
FillWay == IF Empty # {} THEN FirstOf(Empty) ELSE RripVictim
Searched == IF Empty # {} THEN rrpv ELSE AgedSet

-----------------------------------------------------------------------------
\* drrip: the first set of rand_sets inserts as BIP does, the second as SRRIP
\* does, and their misses move psel, which those not sampled follow.
Follower == Samplers
BipLeader == 0   SrripLeader == 1

InsertsBip(p) == p = BipLeader \/ (p = Follower /\ psel > PSEL_MAX \div 2)

DrripMiss(p) ==
    /\ psel' = IF p = BipLeader /\ psel > 0 THEN psel - 1
               ELSE IF p = SrripLeader /\ psel < PSEL_MAX THEN psel + 1
               ELSE psel
    /\ bip_counter' = IF InsertsBip(p) THEN (bip_counter + 1) % BIP_MAX ELSE bip_counter

\* Where the code assigns no interval the block keeps its victim's.
DrripInsertion(kept) ==
    IF InsertsBip(position) THEN IF bip_counter' = 0 THEN maxRRPV - 1 ELSE maxRRPV
    ELSE IF position \in {SrripLeader, Follower} THEN maxRRPV - 1
    ELSE kept

-----------------------------------------------------------------------------
\* ship: the sampler of the p-th sampled set starts at entry p, not at
\* p * NUM_WAY.  A line found again lowers the counter of the instruction that
\* brought it; one that leaves after it was used raises it.
Window(p) == p .. p + RripWays - 1

LeastRecent(p) ==
    FirstOf({e \in Window(p) : \A f \in Window(p) : sampler[f].lru <= sampler[e].lru})

Unset(p) == {e \in Window(p) : ~ sampler[e].valid}

ShipSample(p, l, ip) ==
    LET matches == {e \in Window(p) : sampler[e].valid /\ sampler[e].region = RegionOf(l)}
        found == matches # {}
        e == IF found THEN FirstOf(matches)
             ELSE IF Unset(p) # {} THEN CHOOSE x \in Unset(p) : \A y \in Unset(p) : y <= x
             ELSE LeastRecent(p)
        old == sampler[e]
        entry == IF found THEN [old EXCEPT !.used = TRUE]
                 ELSE [old EXCEPT !.valid = TRUE, !.used = FALSE, !.region = RegionOf(l), !.ip = ip]
    IN  /\ SHCT' = IF found /\ SHCT[old.ip] > 0 THEN [SHCT EXCEPT ![old.ip] = @ - 1]
                   ELSE IF ~ found /\ old.used /\ SHCT[old.ip] < SHCT_MAX
                        THEN [SHCT EXCEPT ![old.ip] = @ + 1]
                   ELSE SHCT
        /\ sampler' = [f \in SamplerEntry |->
                          IF f = e THEN [entry EXCEPT !.lru = 0]
                          ELSE IF f \in Window(p) THEN [sampler[f] EXCEPT !.lru = @ + 1]
                          ELSE sampler[f]]
        /\ sampled' = sampled + 1

ShipAccess(l, ip) ==
    IF position = Follower THEN UNCHANGED <<SHCT, sampler, sampled>>
    ELSE sampled < MaxSampled /\ ShipSample(position, l, ip)

ShipInsertion(ip) == IF SHCT'[ip] = SHCT_MAX THEN maxRRPV ELSE maxRRPV - 1

-----------------------------------------------------------------------------
\* The tables that an access with this outcome changes.
Tables(type, hit, l, ip) ==
    /\ IF policy = "drrip" /\ type = Demand /\ ~ hit THEN DrripMiss(position)
       ELSE UNCHANGED <<psel, bip_counter>>
    /\ IF policy = "ship" /\ type = Demand THEN ShipAccess(l, ip)
       ELSE UNCHANGED <<SHCT, sampler, sampled>>

\* How is "near" for a use that brings the block near, "far" for one that sends it back.
Touched(w, how) ==
    /\ touch' = [touch EXCEPT ![w] = how]
    /\ after' = {p \in after : w \notin {p[1], p[2]}} \cup ({w} \X (RripWay \ {w}))

\* Mutant: a hit brings the block one step nearer, as frequency counting would.
PromotedOnce(w, type) == [rrpv EXCEPT ![w] = IF @ > 0 THEN @ - 1 ELSE @]

\* update_replacement_state on a hit: drrip sends a written block back, ship
\* leaves it where it is.
Promoted(w, type) ==
    IF type = Writeback /\ policy = "ship" THEN rrpv
    ELSE [rrpv EXCEPT ![w] = IF type = Writeback /\ policy = "drrip" THEN maxRRPV - 1 ELSE 0]

RripHit(w, type, ip) ==
    /\ line[w] # NoRripLine
    /\ Tables(type, TRUE, line[w], ip)
    /\ rrpv' = Promoted(w, type)
    /\ IF type = Demand \/ policy = "srrip" THEN Touched(w, "near")
       ELSE IF policy = "drrip" THEN Touched(w, "far")
       ELSE UNCHANGED <<touch, after>>
    /\ UNCHANGED <<policy, position, line>>

\* find_victim, the new line, and update_replacement_state on a miss.
RripFill(l, type, ip) ==
    LET w == FillWay
    IN  /\ \A v \in RripWay : line[v] # l
        /\ Tables(type, FALSE, l, ip)
        /\ line' = [line EXCEPT ![w] = l]
        /\ rrpv' = [Searched EXCEPT ![w] =
                       IF policy = "srrip" \/ type = Writeback THEN maxRRPV - 1
                       ELSE IF policy = "drrip" THEN DrripInsertion(@)
                       ELSE ShipInsertion(ip)]
        /\ Touched(w, "far")
        /\ UNCHANGED <<policy, position>>

\* A fill whose eviction the level below refuses has searched the set.
RripRefused ==
    /\ Empty = {}
    /\ rrpv' = AgedSet
    /\ UNCHANGED <<policy, position, line, psel, bip_counter, sampler, SHCT, sampled, touch, after>>

Elsewhere ==
    /\ \E p \in 0 .. Samplers :
          \/ /\ policy = "drrip" /\ (p = Follower \/ p # position)
             /\ DrripMiss(p)
             /\ UNCHANGED <<SHCT, sampler, sampled>>
          \/ /\ policy = "ship" /\ p # Follower /\ p # position /\ sampled < MaxSampled
             /\ \E l \in RripLine, ip \in Signature : ShipSample(p, l, ip)
             /\ UNCHANGED <<psel, bip_counter>>
    /\ UNCHANGED <<policy, position, line, rrpv, touch, after>>

RripNext ==
    \/ \E type \in {Demand, Writeback}, ip \in Signature :
          \/ \E w \in RripWay : RripHit(w, type, ip)
          \/ \E l \in RripLine : RripFill(l, type, ip)
    \/ RripRefused
    \/ Elsewhere

RripSpec == RripInit /\ [][RripNext]_rripVars

-----------------------------------------------------------------------------
\* v was used again after x came, and neither was touched since.
NearerThan(v, x) == <<v, x>> \in after /\ touch[v] = "near" /\ touch[x] = "far"

IntervalGiven == policy # "drrip" \/ position \in {BipLeader, SrripLeader, Follower}

\* A block that was used again never leaves before one that came earlier and was
\* not used: not through aging, a refused fill or a counter that goes around.
\* Sampled sets of drrip beyond the first two are excepted, see the README: the
\* code gives their new blocks no interval.
ReusedOutlivesUnused ==
    [][ \A v, x \in RripWay :
            /\ IntervalGiven
            /\ line[v] # NoRripLine /\ line'[v] # line[v]
            => ~ NearerThan(v, x)
      ]_rripVars
=============================================================================
