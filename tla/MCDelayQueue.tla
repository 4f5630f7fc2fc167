---------------------------- MODULE MCDelayQueue ----------------------------
(***************************************************************************)
(* Instances of DelayQueue for TLC: two different members are enough to    *)
(* tell an order from another, and three places make a ready prefix, a     *)
(* waiting suffix and a free slot coexist on both sides of the wrap.       *)
(***************************************************************************)
EXTENDS DelayQueue

CONSTANTS a, b

MCItem       == {a, b}
MCDelayFloor == -1
=============================================================================
