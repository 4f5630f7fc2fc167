------------------------------- MODULE MCDram -------------------------------
(***************************************************************************)
(* One channel with two banks of two rows.  A write queue of three has     *)
(* both of its marks at 2: two writes turn the bus, one that is served     *)
(* turns it back, and a read can lose its bank three times to four writes. *)
(***************************************************************************)
EXTENDS DramController

CONSTANTS r1, r2

MCBlock == {0, 1, 2}
=============================================================================
