----------------------------- MODULE MCPageWalk -----------------------------
(***************************************************************************)
(* Walks of four levels over tables of four entries, which fill a page as  *)
(* they do in the configuration that config.sh writes.  The three pages    *)
(* share the upper tables; pages 16 and 24 share all of them, and find     *)
(* their last entries in different blocks of the lowest.  The tables take  *)
(* the pages 8, 12, 16 and so on, so that data, which takes the free pages *)
(* in their order, meets the lowest table of page 0 and then that of the   *)
(* other two.                                                              *)
(***************************************************************************)
EXTENDS PageTableWalker

MCVPage     == {0, 16, 24}
MCFreeLists == {<<8, 20, 24, 40>>}
MCOneSet    == [l \in 1 .. 4 |-> 1]
MCOneWay    == [l \in 1 .. 4 |-> 1]
=============================================================================
