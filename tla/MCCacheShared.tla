--------------------------- MODULE MCCacheShared ---------------------------
(***************************************************************************)
(* Two first-level caches over one second level, with prefetchers.  Line A *)
(* is fetched, loaded and stored through both; line P is prefetched by the *)
(* data side, to its own level or the one below, and by the second level.  *)
(***************************************************************************)
EXTENDS CacheHierarchy, TLC

CONSTANTS L1I, L1D, L2C, fetch, data, common, own

MCCache     == {L1I, L1D, L2C}
MCClient    == {fetch, data}
MCBelow     == (fetch :> L1I) @@ (data :> L1D) @@ (L1I :> L2C) @@ (L1D :> L2C)
               @@ (L2C :> Memory)
MCFillLevel == (L1I :> 1) @@ (L1D :> 4) @@ (L2C :> 5)
MCAddr      == {common, own}
MCLineOf    == (common :> "A") @@ (own :> "P")
MCSetOf     == [c \in MCCache |-> [l \in {"A", "P"} |-> 0]]
MCOne       == [c \in MCCache |-> 1]
MCTwo       == [c \in MCCache |-> 2]
MCLoadAddr  == (fetch :> {common}) @@ (data :> {common, own})
MCStoreAddr == (fetch :> {}) @@ (data :> {common, own})
MCPrefetch  == (L1I :> {}) @@ (L1D :> {own}) @@ (L2C :> {own})

\* The prefetches of this tree keep to what the proofs assume of them.
MCAsks       == (fetch :> {"A"}) @@ (data :> {"A", "P"}) @@ (L1I :> {"A"})
                @@ (L1D :> {"A", "P"}) @@ (L2C :> {"A", "P"})
MCPrefetches == (L1I :> {}) @@ (L1D :> {"P"}) @@ (L2C :> {"P"})

ASSUME ApartAssumption == PrefetchesApart(MCAsks, MCPrefetches)
=============================================================================
