---------------------------- MODULE MCCacheChain ----------------------------
(***************************************************************************)
(* One core on a chain L1D - L2C - memory without prefetchers, as in the   *)
(* repository's configuration.  Two lines fight for one way, one of them   *)
(* is loaded and stored at two addresses.                                  *)
(***************************************************************************)
EXTENDS CacheHierarchy, TLC

CONSTANTS L1D, L2C, cpu, a0, a1, b0, c0

MCCache     == {L1D, L2C}
MCClient    == {cpu}
MCBelow     == (cpu :> L1D) @@ (L1D :> L2C) @@ (L2C :> Memory)
MCFillLevel == (L1D :> 4) @@ (L2C :> 5)
MCAddr      == {a0, a1, b0, c0}
MCLineOf    == (a0 :> "A") @@ (a1 :> "A") @@ (b0 :> "B") @@ (c0 :> "C")
MCSetOf     == [c \in MCCache |-> [l \in {"A", "B", "C"} |-> 0]]
MCSize(n)   == [c \in MCCache |-> n]
MCWays      == (L1D :> 1) @@ (L2C :> 2)
MCOne       == MCSize(1)
MCTwo       == MCSize(2)
MCLoadAddr  == [u \in MCClient |-> MCAddr]
MCStoreAddr == [u \in MCClient |-> {a0, b0}]
MCNoPrefetch == [c \in MCCache |-> {}]

\* The writes of a chain keep to what the proof of OneCopyPerCache assumes of them.
MCAsks == [x \in MCCache \cup MCClient |-> {"A", "B", "C"}]

ASSUME ApartAssumption == WritesApart(MCAsks)
=============================================================================
