--------------------------- MODULE LruReplacement ---------------------------
(***************************************************************************)
(* One set of a cache under the lru and rdlru policies (replacement/lru,   *)
(* replacement/rdlru), where every block carries an age in its lru field,  *)
(* and one set of the decoded instruction buffer, which ages its entries   *)
(* with lru_updater (inc/util.h).                                          *)
(***************************************************************************)
EXTENDS Naturals

CONSTANTS
    NUM_WAY,    \* ways are numbered from 0, as std::distance does
    InitLru,    \* the age of a block never used, max >> 1 in the code
    Tag, NoTag  \* lines, and the content of an invalid block

ASSUME WayAssumption == NUM_WAY \in Nat \ {0}
ASSUME InitLruAssumption == InitLru \in Nat
ASSUME NoTagAssumption == NoTag \notin Tag

Way == 0 .. NUM_WAY - 1

VARIABLES tag, lru

lruVars == <<tag, lru>>

Valid == {w \in Way : tag[w] # NoTag}

LruInit ==
    /\ tag = [w \in Way |-> NoTag]
    /\ lru = [w \in Way |-> InitLru]

\* Mutant: without the promotion to the MRU position.
AgedNotPromoted(w) == [v \in Way |-> IF lru[v] <= lru[w] THEN lru[v] + 1 ELSE lru[v]]

\* Mutant: every other block ages at every use.
AgedAlways(w) == [v \in Way |-> IF v = w THEN 0 ELSE lru[v] + 1]

\* update_replacement_state: whatever was not older than w ages, w is the MRU.
LruAged(w) ==
    [v \in Way |-> IF v = w THEN 0
                   ELSE IF lru[v] <= lru[w] THEN lru[v] + 1
                   ELSE lru[v]]

\* Mutant: std::min_element, which finds the MRU element.
VictimsOfMin == {w \in Valid : \A v \in Valid : lru[w] <= lru[v]}

\* find_victim: the first of the oldest blocks (std::max_element), asked only
\* when every block of the set is valid.
Victims == {w \in Valid : \A v \in Valid : /\ lru[v] <= lru[w]
                                           /\ v < w => lru[v] < lru[w]}

\* CACHE::handle_fill and handle_writeback take the first invalid way.
FillWays ==
    IF Valid = Way THEN Victims
    ELSE {w \in Way \ Valid : \A v \in Way \ Valid : w <= v}

\* A hit, which changes no age when it is a writeback's.
Hit(w, writeback) ==
    /\ w \in Valid
    /\ lru' = IF writeback THEN lru ELSE LruAged(w)
    /\ UNCHANGED tag

Fill(w, t) ==
    /\ \A v \in Way : tag[v] # t
    /\ w \in FillWays
    /\ tag' = [tag EXCEPT ![w] = t]
    /\ lru' = LruAged(w)

LruNext ==
    \E w \in Way : \/ \E writeback \in BOOLEAN : Hit(w, writeback)
                   \/ \E t \in Tag : Fill(w, t)

LruSpec == LruInit /\ [][LruNext]_lruVars

-----------------------------------------------------------------------------
\* The decoded instruction buffer: lru_updater zeroes every entry that has the
\* age of the one used, and std::max_element takes the last invalid entry.
Updated(w) == [v \in Way |-> IF lru[v] = lru[w] THEN 0 ELSE lru[v] + 1]

DibWays ==
    IF Valid = Way THEN Victims
    ELSE {w \in Way \ Valid : \A v \in Way \ Valid : v <= w}

DibHit(w) ==
    /\ w \in Valid
    /\ lru' = Updated(w)
    /\ UNCHANGED tag

DibFill(w, t) ==
    /\ \A v \in Way : tag[v] # t
    /\ w \in DibWays
    /\ tag' = [tag EXCEPT ![w] = t]
    /\ lru' = Updated(w)

DibNext == \E w \in Way : DibHit(w) \/ \E t \in Tag : DibFill(w, t)

DibSpec == LruInit /\ [][DibNext]_lruVars

-----------------------------------------------------------------------------
\* The ages stay within the width of the lru field however long the run is.
TypeOK ==
    /\ tag \in [Way -> Tag \cup {NoTag}]
    /\ lru \in [Way -> 0 .. InitLru + NUM_WAY]

\* No two blocks in use have the same age, and a block never used is older than
\* any block in use: find_victim never has to choose by position.
AgesAreDistinct ==
    /\ \A v, w \in Valid : lru[v] = lru[w] => v = w
    /\ \A v \in Valid, w \in Way \ Valid : lru[v] < lru[w]

\* The ages order the blocks by their last use: v is newer than w when younger.
Policy == INSTANCE LruPolicy WITH
    newer <- {p \in Valid \X Valid : lru[p[1]] < lru[p[2]]}

\* A set replaces the line whose last use is the longest ago, whatever hits,
\* writebacks and fills it has seen.
ReplacesLeastRecent == Policy!Spec
=============================================================================
