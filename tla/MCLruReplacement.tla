-------------------------- MODULE MCLruReplacement --------------------------
(***************************************************************************)
(* Three ways and four lines: a victim always has an older and a newer     *)
(* rival, and the evicted line can come back.                              *)
(***************************************************************************)
EXTENDS LruReplacement

CONSTANTS t1, t2, t3, t4

MCTag == {t1, t2, t3, t4}
=============================================================================
