----------------------------- MODULE LruPolicy -----------------------------
(***************************************************************************)
(* What "least recently used" means for one set of a cache: which of two   *)
(* ways was used more recently is a strict order on the occupied ways, and *)
(* only the way that every other way is newer than gives up its line.      *)
(***************************************************************************)
CONSTANTS Way, Tag, NoTag

VARIABLES
    tag,    \* the line each way holds
    newer   \* <<v, w>> when v was used after w

Occupied == {w \in Way : tag[w] # NoTag}

Init ==
    /\ tag = [w \in Way |-> NoTag]
    /\ newer = {}

\* w becomes the newest of the ways in W.
Promote(w, W) ==
    newer' = {p \in newer : p[1] # w /\ p[2] # w} \cup {<<w, v>> : v \in W \ {w}}

Use(w) ==
    /\ w \in Occupied
    /\ Promote(w, Occupied)
    /\ UNCHANGED tag

Oldest(w) == \A v \in Way \ {w} : <<v, w>> \in newer

Fill(w, t) ==
    /\ \A v \in Way : tag[v] # t
    /\ tag[w] = NoTag \/ (Occupied = Way /\ Oldest(w))
    /\ tag' = [tag EXCEPT ![w] = t]
    /\ Promote(w, Occupied)

Next == \E w \in Way : Use(w) \/ \E t \in Tag : Fill(w, t)

Spec == Init /\ [][Next]_<<tag, newer>>
=============================================================================
