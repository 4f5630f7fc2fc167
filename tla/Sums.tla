-------------------------------- MODULE Sums --------------------------------
(***************************************************************************)
(* The sum of the first values of a function on 0, 1, 2...                 *)
(***************************************************************************)
EXTENDS Integers

SumTo(h, b) == LET sum[i \in 0 .. b] == IF i = 0 THEN h[0] ELSE sum[i - 1] + h[i] IN sum[b]
=============================================================================
