---------------------------- MODULE VirtualMemory ----------------------------
(***************************************************************************)
(* VirtualMemory (src/vmem.cc): which physical page every virtual page and *)
(* every page table gets, in the order they are first asked for.           *)
(*                                                                         *)
(* A virtual address is its page number, and a page table entry is         *)
(* PTE_BYTES of a physical address; the byte within a data page plays no   *)
(* part.                                                                   *)
(***************************************************************************)
EXTENDS Integers, Sequences

CONSTANTS
    PAGE_SIZE,      \* of data, in bytes
    page_size,      \* of a page table
    PTE_BYTES,
    pt_levels,
    VPage,          \* the virtual pages in use
    FreeLists       \* the orders std::shuffle may leave the free pages in

Fanout == page_size \div PTE_BYTES

ASSUME SizeAssumption ==
    /\ {PAGE_SIZE, page_size, PTE_BYTES, pt_levels} \subseteq Nat \ {0}
    /\ Fanout >= 2
    /\ VPage \subseteq Nat
    \* Pages and page tables are both powers of two long.
    /\ PAGE_SIZE % page_size = 0 \/ page_size % PAGE_SIZE = 0
    \* Shifts are by 0 bits or more; the provers know nothing of powers.
    /\ \A level \in 0 .. 5 + pt_levels : Fanout ^ level \in Nat \ {0}

ASSUME FreeListAssumption ==
    \A f \in FreeLists :
        /\ f \in Seq(Nat) /\ f # <<>>
        /\ \A i, j \in DOMAIN f : i # j => f[i] # f[j]
        /\ \A i \in DOMAIN f : f[i] % PAGE_SIZE = 0

VARIABLES
    vpage_to_ppage_map, page_table,   \* std::map: functions on what was asked for
    next_pte_page,
    ppage_free_list

vmVars == <<vpage_to_ppage_map, page_table, next_pte_page, ppage_free_list>>

Level == 0 .. pt_levels

\* vaddr >> shamt(level), and the index of the entry in the table of a level.
Above(v, level)      == v \div Fanout ^ level
get_offset(v, level) == Above(v, level) % Fanout

\* splice_bits for an entry of the table at a physical address.
EntryIn(table, v, level) == (table \div page_size) * page_size + get_offset(v, level) * PTE_BYTES

TableKey(v, level) == <<Above(v, level + 1), level>>

VMInit ==
    /\ vpage_to_ppage_map = <<>>
    /\ page_table = <<>>
    /\ \E f \in FreeLists :
          /\ next_pte_page = Head(f)
          /\ ppage_free_list = Tail(f)

\* std::map::insert of a new key.
Insert(map, key, value) == [k \in DOMAIN map \cup {key} |-> IF k = key THEN value ELSE map[k]]

-----------------------------------------------------------------------------
\* va_to_pa and get_pte_pa tell by a fault that the mapping is new.
DataFault(v)         == v \notin DOMAIN vpage_to_ppage_map
TableFault(v, level) == TableKey(v, level) \notin DOMAIN page_table

\* Where get_pte_pa puts the table, and the address of the entry it returns.
Table(v, level)    == IF TableFault(v, level) THEN next_pte_page ELSE page_table[TableKey(v, level)]
PtePa(v, level)    == EntryIn(Table(v, level), v, level)

\* Mutant: the page is not taken off the free list.
va_to_pa_peek(v) ==
    /\ vpage_to_ppage_map' = Insert(vpage_to_ppage_map, v, Head(ppage_free_list))
    /\ UNCHANGED <<page_table, next_pte_page, ppage_free_list>>

va_to_pa(v) ==
    /\ IF DataFault(v)
       THEN /\ ppage_free_list # <<>>      \* not checked in the code
            /\ vpage_to_ppage_map' = Insert(vpage_to_ppage_map, v, Head(ppage_free_list))
            /\ ppage_free_list' = Tail(ppage_free_list)
       ELSE UNCHANGED <<vpage_to_ppage_map, ppage_free_list>>
    /\ UNCHANGED <<page_table, next_pte_page>>

get_pte_pa(v, level) ==
    LET next == next_pte_page + page_size
    IN  /\ IF ~ TableFault(v, level)
           THEN UNCHANGED <<page_table, next_pte_page, ppage_free_list>>
           ELSE /\ page_table' = Insert(page_table, TableKey(v, level), next_pte_page)
                /\ IF next % PAGE_SIZE # 0
                   THEN /\ ppage_free_list # <<>>
                        /\ next_pte_page' = Head(ppage_free_list)
                        /\ ppage_free_list' = Tail(ppage_free_list)
                   ELSE next_pte_page' = next /\ UNCHANGED ppage_free_list
        /\ UNCHANGED vpage_to_ppage_map

VMNext ==
    \/ \E v \in VPage : va_to_pa(v)
    \/ \E v \in VPage, level \in Level : get_pte_pa(v, level)

VMSpec == VMInit /\ [][VMNext]_vmVars

-----------------------------------------------------------------------------
\* What a physical page is used for: the virtual page it backs, and the tables
\* that lie in it.
Frame(a) == a \div PAGE_SIZE

\* No physical page backs two virtual pages, or one while it is still free.
DataPagesDistinct ==
    /\ \A u, v \in DOMAIN vpage_to_ppage_map :
          u # v => vpage_to_ppage_map[u] # vpage_to_ppage_map[v]
    /\ \A v \in DOMAIN vpage_to_ppage_map : \A i \in DOMAIN ppage_free_list :
          vpage_to_ppage_map[v] # ppage_free_list[i]

\* Two page tables never lie over each other, and when a table is smaller than a
\* page, none lies in a page of data either.  (Of the same size, as config.sh
\* writes them, tables take the pages after the first one without looking at the
\* free list, and data may get the same pages.)
TablesDistinct ==
    /\ \A k, l \in DOMAIN page_table : k # l => page_table[k] # page_table[l]
    /\ page_size < PAGE_SIZE =>
          \A k \in DOMAIN page_table, v \in DOMAIN vpage_to_ppage_map :
              Frame(page_table[k]) # Frame(vpage_to_ppage_map[v])

PagesHaveOneUse == DataPagesDistinct /\ TablesDistinct
=============================================================================
