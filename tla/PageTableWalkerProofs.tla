------------------------ MODULE PageTableWalkerProofs ------------------------
(***************************************************************************)
(* PageTableWalker for every size of pages and of page tables, every order *)
(* of the free pages, every shape of the paging structure caches and every *)
(* number of walks: no physical page is given out twice, the MSHR stays    *)
(* sorted, the caches hold what the page tables hold, and a walk that      *)
(* waits is owed an answer.                                                *)
(***************************************************************************)
EXTENDS PageTableWalker, WellFoundedInduction, TLAPS

Pages(f) == {f[i] : i \in 1 .. Len(f)}

Aligned(a) == a \in Nat /\ a % PAGE_SIZE = 0

\* A list of different pages.
Listed(f) ==
    /\ f \in Seq(Nat)
    /\ \A i \in 1 .. Len(f) : Aligned(f[i])
    /\ \A i, j \in 1 .. Len(f) : i # j => f[i] # f[j]

OneToOne(map) == \A k, l \in DOMAIN map : k # l => map[k] # map[l]

\* Where page tables do not fill whole pages each of them takes a page off the
\* free list, beginning with the one kept in next_pte_page; where they do, all
\* lie below next_pte_page.
TablesFromTheList ==
    /\ next_pte_page \notin Pages(ppage_free_list)
    /\ \A v \in DOMAIN vpage_to_ppage_map : vpage_to_ppage_map[v] # next_pte_page
    /\ \A k \in DOMAIN page_table :
          /\ page_table[k] \notin Pages(ppage_free_list)
          /\ page_table[k] # next_pte_page
          /\ \A v \in DOMAIN vpage_to_ppage_map : vpage_to_ppage_map[v] # page_table[k]

IInv ==
    /\ Listed(ppage_free_list)
    /\ Aligned(next_pte_page)
    /\ \A v \in DOMAIN vpage_to_ppage_map :
          Aligned(vpage_to_ppage_map[v]) /\ vpage_to_ppage_map[v] \notin Pages(ppage_free_list)
    /\ OneToOne(vpage_to_ppage_map)
    /\ \A k \in DOMAIN page_table : Aligned(page_table[k])
    /\ OneToOne(page_table)
    /\ page_size % PAGE_SIZE # 0 => TablesFromTheList
    /\ page_size % PAGE_SIZE = 0 => \A k \in DOMAIN page_table : page_table[k] < next_pte_page

-----------------------------------------------------------------------------
\* Arithmetic of pages.

LEMMA SizesAreNaturals == PAGE_SIZE \in Nat \ {0} /\ page_size \in Nat \ {0}
BY SizeAssumption

LEMMA Division ==
    ASSUME NEW a \in Nat, NEW p \in Nat \ {0}
    PROVE  a = p * (a \div p) + (a % p) /\ a \div p \in Nat /\ a % p \in 0 .. p - 1
OBVIOUS

\* A remainder is unique.
LEMMA Remainder ==
    ASSUME NEW p \in Nat \ {0}, NEW x \in Int, NEW y \in Int,
           NEW m \in 0 .. p - 1, NEW n \in 0 .. p - 1,
           p * x + m = p * y + n
    PROVE  m = n
<1>1. p * (x - y) = n - m
  BY SMT
<1>2. CASE x - y >= 1
  <2>1. p * (x - y) >= p
    BY <1>2, SMT
  <2> QED
    BY <1>1, <2>1, SMT
<1>3. CASE x - y <= -1
  <2>1. p * (x - y) <= -p
    BY <1>3, SMT
  <2> QED
    BY <1>1, <2>1, SMT
<1>4. CASE x - y = 0
  BY <1>1, <1>4, SMT
<1> QED
  BY <1>2, <1>3, <1>4

LEMMA AlignedSum ==
    ASSUME NEW a \in Nat, NEW b \in Nat, NEW p \in Nat \ {0}, a % p = 0
    PROVE  (a + b) % p = b % p
<1> DEFINE x == (a + b) \div p
           m == (a + b) % p
           q == a \div p
           r == b \div p
           n == b % p
<1>1. a + b = p * x + m /\ x \in Nat /\ m \in 0 .. p - 1
  <2>1. a + b \in Nat
    OBVIOUS
  <2> QED
    BY <2>1, Division
<1>2. a = p * q /\ q \in Nat
  BY Division
<1>3. b = p * r + n /\ r \in Nat /\ n \in 0 .. p - 1
  BY Division
<1> HIDE DEF x, m, q, r, n
<1>4. p * x + m = p * (q + r) + n
  <2>1. p * (q + r) = p * q + p * r
    BY <1>2, <1>3, SMT
  <2> QED
    BY <2>1, <1>1, <1>2, <1>3, SMT
<1>5. q + r \in Int /\ x \in Int
  BY <1>1, <1>2, <1>3
<1>6. m = n
  BY <1>1, <1>3, <1>4, <1>5, Remainder
<1> QED
  BY <1>6 DEF m, n

\* Different pages have different frames.
LEMMA FramesDiffer ==
    ASSUME NEW a, NEW b, Aligned(a), Aligned(b), a # b
    PROVE  Frame(a) # Frame(b)
<1>1. a = PAGE_SIZE * (a \div PAGE_SIZE) /\ b = PAGE_SIZE * (b \div PAGE_SIZE)
  BY Division, SizesAreNaturals DEF Aligned
<1> QED
  BY <1>1 DEF Frame

-----------------------------------------------------------------------------
\* What taking the first page off the free list leaves.
LEMMA TakeFirst ==
    ASSUME NEW f, Listed(f), f # <<>>
    PROVE  /\ Listed(Tail(f))
           /\ Aligned(Head(f))
           /\ Head(f) \in Pages(f)
           /\ Head(f) \notin Pages(Tail(f))
           /\ Pages(Tail(f)) \subseteq Pages(f)
<1>1. f \in Seq(Nat) /\ Len(f) \in Nat /\ Len(f) >= 1 /\ Head(f) = f[1]
  BY DEF Listed
<1>2. /\ Tail(f) \in Seq(Nat)
      /\ Len(Tail(f)) = Len(f) - 1
      /\ \A i \in 1 .. Len(f) - 1 : Tail(f)[i] = f[i + 1]
  BY <1>1
<1>3. \A i \in 1 .. Len(f) - 1 : i + 1 \in 1 .. Len(f) /\ i + 1 # 1
  BY <1>1
<1>4. 1 \in 1 .. Len(f)
  BY <1>1
<1>5. Listed(Tail(f))
  BY <1>1, <1>2, <1>3 DEF Listed
<1>6. Aligned(Head(f)) /\ Head(f) \in Pages(f)
  BY <1>1, <1>4 DEF Listed, Pages
<1>7. Head(f) \notin Pages(Tail(f))
  BY <1>1, <1>2, <1>3, <1>4 DEF Listed, Pages
<1>8. Pages(Tail(f)) \subseteq Pages(f)
  BY <1>2, <1>3 DEF Pages
<1> QED
  BY <1>5, <1>6, <1>7, <1>8

LEMMA FreeListIsListed ==
    ASSUME NEW f \in FreeLists
    PROVE  Listed(f) /\ f # <<>> /\ Tail(f) # <<>>
<1>1. f \in Seq(Nat) /\ Len(f) >= 2
  BY FreeListAssumption, WalkerAssumption
<1>2. DOMAIN f = 1 .. Len(f)
  BY <1>1
<1>3. Listed(f)
  BY <1>1, <1>2, FreeListAssumption, SMTT(60) DEF Listed, Aligned
<1>4. f # <<>>
  BY <1>1
<1>5. Tail(f) # <<>>
  <2>1. Len(Tail(f)) = Len(f) - 1
    BY <1>1, <1>4
  <2>2. Len(Tail(f)) # 0
    <3>1. Len(f) \in Nat
      BY <1>1
    <3>2. \A n \in Nat : n >= 2 => n - 1 # 0
      OBVIOUS
    <3> QED
      BY <3>1, <3>2, <2>1, <1>1, Zenon
  <2>3. Len(<<>>) = 0
    OBVIOUS
  <2> QED
    BY <2>2, <2>3, Zenon
<1> QED
  BY <1>3, <1>4, <1>5

-----------------------------------------------------------------------------
\* The constructor makes the table that CR3 points to: it takes the first page,
\* and the next table's page is the second or the one after the first.
LEMMA InitIInv == Init => IInv
<1> SUFFICES ASSUME Init PROVE IInv
  OBVIOUS
<1>1. PICK f \in FreeLists :
          LET next == Head(f) + page_size
              pop  == next % PAGE_SIZE # 0
          IN  /\ page_table = Insert(<<>>, TableKey(0, pt_levels), Head(f))
              /\ next_pte_page = IF pop THEN f[2] ELSE next
              /\ ppage_free_list = IF pop THEN Tail(Tail(f)) ELSE Tail(f)
  BY DEF Init
<1>2. Listed(f) /\ f # <<>> /\ Tail(f) # <<>>
  BY FreeListIsListed
<1>3. /\ Listed(Tail(f)) /\ Aligned(Head(f)) /\ Head(f) \notin Pages(Tail(f))
      /\ Listed(Tail(Tail(f))) /\ Aligned(Head(Tail(f)))
      /\ Head(Tail(f)) \in Pages(Tail(f)) /\ Head(Tail(f)) \notin Pages(Tail(Tail(f)))
      /\ Pages(Tail(Tail(f))) \subseteq Pages(Tail(f))
  BY <1>2, TakeFirst
<1>4. f[2] = Head(Tail(f))
  BY <1>2 DEF Listed
<1>5. DOMAIN page_table = {TableKey(0, pt_levels)}
      /\ page_table[TableKey(0, pt_levels)] = Head(f)
  BY <1>1 DEF Insert
<1>6. vpage_to_ppage_map = <<>> /\ DOMAIN vpage_to_ppage_map = {}
  BY DEF Init
<1>7. Head(f) \in Nat /\ page_size \in Nat \ {0} /\ PAGE_SIZE \in Nat \ {0}
  BY <1>3, SizesAreNaturals DEF Aligned
<1>8. (Head(f) + page_size) % PAGE_SIZE = page_size % PAGE_SIZE
  BY <1>3, <1>7, AlignedSum DEF Aligned
<1>9. OneToOne(vpage_to_ppage_map) /\ OneToOne(page_table)
  BY <1>5, <1>6 DEF OneToOne
<1>10. CASE page_size % PAGE_SIZE # 0
  <2>1. next_pte_page = Head(Tail(f)) /\ ppage_free_list = Tail(Tail(f))
    BY <1>1, <1>4, <1>8, <1>10
  <2>2. Head(f) # next_pte_page /\ Head(f) \notin Pages(ppage_free_list)
    BY <2>1, <1>3
  <2>3. TablesFromTheList
    BY <2>1, <2>2, <1>3, <1>5, <1>6 DEF TablesFromTheList
  <2> QED
    BY <2>1, <2>3, <1>3, <1>5, <1>6, <1>9, <1>10 DEF IInv
<1>11. CASE page_size % PAGE_SIZE = 0
  <2>1. next_pte_page = Head(f) + page_size /\ ppage_free_list = Tail(f)
    BY <1>1, <1>8, <1>11
  <2>2. Aligned(next_pte_page) /\ Head(f) < next_pte_page
    BY <2>1, <1>7, <1>8, <1>11 DEF Aligned
  <2> QED
    BY <2>1, <2>2, <1>3, <1>5, <1>6, <1>9, <1>11 DEF IInv
<1> QED
  BY <1>10, <1>11, <1>7

\* A page of data comes off the free list.
LEMMA DataKeepsIInv ==
    ASSUME IInv, NEW v, va_to_pa(v)
    PROVE  IInv'
<1>1. CASE ~ DataFault(v)
  BY <1>1 DEF va_to_pa, IInv, TablesFromTheList
<1>2. CASE DataFault(v)
  <2> DEFINE page == Head(ppage_free_list)
  <2>1. /\ ppage_free_list # <<>>
        /\ vpage_to_ppage_map' = Insert(vpage_to_ppage_map, v, page)
        /\ ppage_free_list' = Tail(ppage_free_list)
        /\ UNCHANGED <<page_table, next_pte_page>>
    BY <1>2 DEF va_to_pa
  <2>2. /\ Listed(ppage_free_list') /\ Aligned(page)
        /\ page \in Pages(ppage_free_list) /\ page \notin Pages(ppage_free_list')
        /\ Pages(ppage_free_list') \subseteq Pages(ppage_free_list)
    BY <2>1, TakeFirst DEF IInv
  <2> HIDE DEF page
  <2>3. \A u \in DOMAIN vpage_to_ppage_map : vpage_to_ppage_map[u] # page
    BY <2>2 DEF IInv
  <2>4. /\ OneToOne(vpage_to_ppage_map')
        /\ DOMAIN vpage_to_ppage_map' = DOMAIN vpage_to_ppage_map \cup {v}
        /\ vpage_to_ppage_map'[v] = page
        /\ \A u \in DOMAIN vpage_to_ppage_map : vpage_to_ppage_map'[u] = vpage_to_ppage_map[u]
    <3>0. OneToOne(vpage_to_ppage_map) /\ v \notin DOMAIN vpage_to_ppage_map
      BY <1>2 DEF IInv, DataFault
    <3>1. /\ OneToOne(Insert(vpage_to_ppage_map, v, page))
          /\ DOMAIN Insert(vpage_to_ppage_map, v, page) = DOMAIN vpage_to_ppage_map \cup {v}
          /\ Insert(vpage_to_ppage_map, v, page)[v] = page
          /\ \A u \in DOMAIN vpage_to_ppage_map :
                Insert(vpage_to_ppage_map, v, page)[u] = vpage_to_ppage_map[u]
      BY <3>0, <2>3 DEF Insert, OneToOne
    <3> QED
      BY <3>1, <2>1
  <2>5. \A u \in DOMAIN vpage_to_ppage_map' :
            Aligned(vpage_to_ppage_map'[u]) /\ vpage_to_ppage_map'[u] \notin Pages(ppage_free_list')
    BY <2>2, <2>4 DEF IInv
  <2>6. TablesFromTheList => TablesFromTheList'
    BY <2>1, <2>2, <2>4 DEF TablesFromTheList
  <2> QED
    BY <2>1, <2>2, <2>4, <2>5, <2>6 DEF IInv
<1> QED
  BY <1>1, <1>2

\* A page table takes next_pte_page, and the next table's page is the one after
\* it or comes off the free list.
LEMMA TableKeepsIInv ==
    ASSUME IInv, NEW v, NEW level, get_pte_pa(v, level)
    PROVE  IInv'
<1>1. CASE ~ TableFault(v, level)
  BY <1>1 DEF get_pte_pa, IInv, TablesFromTheList
<1>2. CASE TableFault(v, level)
  <2> DEFINE key  == TableKey(v, level)
             next == next_pte_page + page_size
  <2>1. /\ page_table' = Insert(page_table, key, next_pte_page)
        /\ IF next % PAGE_SIZE # 0
           THEN /\ ppage_free_list # <<>>
                /\ next_pte_page' = Head(ppage_free_list)
                /\ ppage_free_list' = Tail(ppage_free_list)
           ELSE next_pte_page' = next /\ UNCHANGED ppage_free_list
        /\ UNCHANGED vpage_to_ppage_map
    BY <1>2 DEF get_pte_pa
  <2>2. next_pte_page \in Nat /\ page_size \in Nat \ {0} /\ PAGE_SIZE \in Nat \ {0}
    BY SizesAreNaturals DEF IInv, Aligned
  <2>3. next % PAGE_SIZE = page_size % PAGE_SIZE
    BY <2>2, AlignedSum DEF IInv, Aligned
  <2>4. \A k \in DOMAIN page_table : page_table[k] # next_pte_page
    BY <2>2 DEF IInv, TablesFromTheList, Aligned
  <2>5. key \notin DOMAIN page_table
    BY <1>2 DEF TableFault
  <2> HIDE DEF key
  <2>6. /\ OneToOne(page_table')
        /\ DOMAIN page_table' = DOMAIN page_table \cup {key}
        /\ page_table'[key] = next_pte_page
        /\ \A k \in DOMAIN page_table : page_table'[k] = page_table[k]
    <3>0. OneToOne(page_table)
      BY DEF IInv
    <3>1. /\ OneToOne(Insert(page_table, key, next_pte_page))
          /\ DOMAIN Insert(page_table, key, next_pte_page) = DOMAIN page_table \cup {key}
          /\ Insert(page_table, key, next_pte_page)[key] = next_pte_page
          /\ \A k \in DOMAIN page_table : Insert(page_table, key, next_pte_page)[k] = page_table[k]
      BY <3>0, <2>4, <2>5 DEF Insert, OneToOne
    <3> QED
      BY <3>1, <2>1
  <2>7. \A k \in DOMAIN page_table' : Aligned(page_table'[k])
    BY <2>6 DEF IInv
  <2>8. CASE page_size % PAGE_SIZE # 0
    <3>1. /\ ppage_free_list # <<>>
          /\ next_pte_page' = Head(ppage_free_list)
          /\ ppage_free_list' = Tail(ppage_free_list)
      BY <2>1, <2>3, <2>8
    <3>2. /\ Listed(ppage_free_list') /\ Aligned(next_pte_page')
          /\ next_pte_page' \in Pages(ppage_free_list)
          /\ next_pte_page' \notin Pages(ppage_free_list')
          /\ Pages(ppage_free_list') \subseteq Pages(ppage_free_list)
      BY <3>1, TakeFirst DEF IInv
    <3>3. TablesFromTheList
      BY <2>8 DEF IInv
    <3>4. TablesFromTheList'
      <4>1. \A u \in DOMAIN vpage_to_ppage_map : vpage_to_ppage_map[u] # next_pte_page'
        BY <3>2 DEF IInv
      <4>2. next_pte_page \notin Pages(ppage_free_list') /\ next_pte_page # next_pte_page'
        BY <3>2, <3>3 DEF TablesFromTheList
      <4>3. \A k \in DOMAIN page_table :
                /\ page_table[k] \notin Pages(ppage_free_list')
                /\ page_table[k] # next_pte_page'
        BY <3>2, <3>3 DEF TablesFromTheList
      <4> QED
        BY <4>1, <4>2, <4>3, <3>2, <3>3, <2>1, <2>6 DEF TablesFromTheList
    <3>5. \A u \in DOMAIN vpage_to_ppage_map :
              Aligned(vpage_to_ppage_map[u])
              /\ vpage_to_ppage_map[u] \notin Pages(ppage_free_list')
      BY <3>2 DEF IInv
    <3> QED
      BY <3>2, <3>4, <3>5, <2>1, <2>6, <2>7, <2>8 DEF IInv
  <2>9. CASE page_size % PAGE_SIZE = 0
    <3>1. next_pte_page' = next /\ ppage_free_list' = ppage_free_list
      BY <2>1, <2>3, <2>9
    <3>2. next_pte_page < next /\ Aligned(next)
      BY <2>2, <2>3, <2>9 DEF Aligned
    <3>3. \A k \in DOMAIN page_table' : page_table'[k] < next
      <4>1. \A k \in DOMAIN page_table : page_table[k] \in Nat /\ page_table[k] < next_pte_page
        BY <2>9 DEF IInv, Aligned
      <4> QED
        BY <4>1, <3>2, <2>2, <2>6
    <3> HIDE DEF next
    <3> QED
      BY <3>1, <3>2, <3>3, <2>1, <2>6, <2>7, <2>9 DEF IInv
  <2> QED
    BY <2>8, <2>9
<1> QED
  BY <1>1, <1>2

LEMMA StepKeepsIInv == IInv /\ [Next]_vars => IInv'
<1> SUFFICES ASSUME IInv, [Next]_vars PROVE IInv'
  OBVIOUS
<1>1. CASE UNCHANGED vmVars
  BY <1>1 DEF vmVars, IInv, TablesFromTheList
<1>2. CASE Translate
  BY <1>2, DataKeepsIInv DEF Translate
<1>3. ASSUME NEW refused \in BOOLEAN, NextTable(refused) PROVE IInv'
  BY <1>3, TableKeepsIInv DEF NextTable
<1>4. CASE HandleRead \/ PenaltyOver \/ Answer \/ FinishWarmup \/ UNCHANGED vars
  BY <1>4, <1>1 DEF HandleRead, PenaltyOver, Answer, FinishWarmup, vars
<1>5. ASSUME NEW v \in VPage, AddRq(v) PROVE IInv'
  BY <1>5, <1>1 DEF AddRq
<1> QED
  BY <1>2, <1>3, <1>4, <1>5 DEF Next, Operate

LEMMA IInvSeparatesPages == IInv => PagesHaveOneUse
<1> SUFFICES ASSUME IInv PROVE PagesHaveOneUse
  OBVIOUS
<1>1. DataPagesDistinct
  <2>1. DOMAIN ppage_free_list = 1 .. Len(ppage_free_list)
    BY DEF IInv, Listed
  <2> QED
    BY <2>1 DEF IInv, OneToOne, Pages, DataPagesDistinct
<1>2. TablesDistinct
  <2>1. \A k, l \in DOMAIN page_table : k # l => page_table[k] # page_table[l]
    BY DEF IInv, OneToOne
  <2>2. ASSUME page_size < PAGE_SIZE,
               NEW k \in DOMAIN page_table, NEW v \in DOMAIN vpage_to_ppage_map
        PROVE  Frame(page_table[k]) # Frame(vpage_to_ppage_map[v])
    <3>1. page_size % PAGE_SIZE # 0
      BY <2>2, SizesAreNaturals
    <3>2. vpage_to_ppage_map[v] # page_table[k]
      BY <3>1 DEF IInv, TablesFromTheList
    <3> QED
      BY <3>2, FramesDiffer DEF IInv
  <2> QED
    BY <2>1, <2>2 DEF TablesDistinct
<1> QED
  BY <1>1, <1>2 DEF PagesHaveOneUse

\* VirtualMemory gives no physical page out twice, to data, page tables or both,
\* in whatever order walks ask for them; tables as large as a page are excepted,
\* as in the property.
THEOREM PtwPagesHaveOneUse == Spec => []PagesHaveOneUse
BY InitIInv, StepKeepsIInv, IInvSeparatesPages, PTL DEF Spec

-----------------------------------------------------------------------------
\* Subsequences of the list of walks.

LEMMA LeastNatural ==
    ASSUME NEW T \in SUBSET Nat, T # {}
    PROVE  \E i \in T : \A j \in T : i <= j
<1>1. PICK i \in T : \A j \in T : ~ (<<j, i>> \in OpToRel(<, Nat))
  BY NatLessThanWellFounded, WFMin
<1>2. \A j \in T : ~ (j < i)
  BY <1>1 DEF OpToRel
<1> QED
  BY <1>2

\* A set of naturals that has 0 and every successor has them all.
LEMMA AllNaturals ==
    ASSUME NEW T \in SUBSET Nat, 0 \in T, \A n \in T : n + 1 \in T
    PROVE  T = Nat
<1> SUFFICES ASSUME Nat \ T # {} PROVE FALSE
  OBVIOUS
<1>1. PICK k \in Nat \ T : \A j \in Nat \ T : k <= j
  BY LeastNatural
<1>2. k # 0 /\ k - 1 \in Nat
  OBVIOUS
<1>3. k - 1 \in T
  BY <1>1, <1>2
<1> QED
  BY <1>2, <1>3

\* The function by which Those is defined.
IsUpTo(g, m, I, n) ==
    g = [i \in 0 .. n |->
            IF i = 0 THEN <<>> ELSE IF i \in I THEN Append(g[i - 1], m[i]) ELSE g[i - 1]]

LEMMA UpToExists ==
    ASSUME NEW m, NEW I, NEW n \in Nat
    PROVE  \E g : IsUpTo(g, m, I, n)
<1> DEFINE T == {k \in Nat : \E g : IsUpTo(g, m, I, k)}
<1>1. 0 \in T
  <2>1. IsUpTo([i \in 0 .. 0 |-> <<>>], m, I, 0)
    BY DEF IsUpTo
  <2> QED
    BY <2>1
<1>2. ASSUME NEW k \in T PROVE k + 1 \in T
  <2>1. PICK g : IsUpTo(g, m, I, k)
    OBVIOUS
  <2> DEFINE last == IF k + 1 \in I THEN Append(g[k], m[k + 1]) ELSE g[k]
             h == [i \in 0 .. k + 1 |-> IF i = k + 1 THEN last ELSE g[i]]
  <2>2. \A i \in 0 .. k : g[i] = IF i = 0 THEN <<>> ELSE IF i \in I THEN Append(g[i - 1], m[i])
                                                        ELSE g[i - 1]
    BY <2>1 DEF IsUpTo
  <2>3. k \in Nat
    OBVIOUS
  <2> HIDE DEF last
  <2>4. \A i \in 0 .. k : h[i] = g[i]
    BY <2>3
  <2>5. h[k + 1] = last
    BY <2>3
  <2>6. \A i \in 0 .. k + 1 :
            h[i] = IF i = 0 THEN <<>> ELSE IF i \in I THEN Append(h[i - 1], m[i]) ELSE h[i - 1]
    <3> SUFFICES ASSUME NEW i \in 0 .. k + 1
                 PROVE  h[i] = IF i = 0 THEN <<>> ELSE IF i \in I THEN Append(h[i - 1], m[i])
                                                       ELSE h[i - 1]
      OBVIOUS
    <3>1. CASE i = 0
      BY <3>1, <2>2, <2>3, <2>4
    <3>2. CASE i \in 1 .. k
      <4>1. i - 1 \in 0 .. k /\ i \in 0 .. k /\ i # 0
        BY <3>2, <2>3
      <4> HIDE DEF h
      <4> QED
        BY <4>1, <2>2, <2>4
    <3>3. CASE i = k + 1
      <4>1. i - 1 = k /\ i # 0 /\ k \in 0 .. k
        BY <3>3, <2>3
      <4>2. h[k] = g[k]
        BY <4>1, <2>4
      <4> HIDE DEF h
      <4> QED
        BY <3>3, <4>1, <4>2, <2>5 DEF last
    <3> QED
      BY <3>1, <3>2, <3>3, <2>3
  <2>7. IsUpTo(h, m, I, k + 1)
    <3>1. h = [i \in 0 .. k + 1 |-> h[i]]
      OBVIOUS
    <3> HIDE DEF h
    <3> QED
      BY <3>1, <2>6 DEF IsUpTo
  <2> QED
    BY <2>3, <2>7
<1> HIDE DEF T
<1>3. T = Nat
  <2>1. T \in SUBSET Nat
    BY DEF T
  <2> QED
    BY <2>1, <1>1, <1>2, AllNaturals
<1> QED
  BY <1>3 DEF T

LEMMA ThoseUnfolds ==
    ASSUME NEW m, Len(m) \in Nat, NEW I
    PROVE  \E g : IsUpTo(g, m, I, Len(m)) /\ Those(m, I) = g[Len(m)]
<1> DEFINE g == CHOOSE upTo : upTo =
                    [i \in 0 .. Len(m) |->
                        IF i = 0 THEN <<>>
                        ELSE IF i \in I THEN Append(upTo[i - 1], m[i]) ELSE upTo[i - 1]]
<1>1. Those(m, I) = g[Len(m)]
  BY Zenon DEF Those
<1>2. PICK h : IsUpTo(h, m, I, Len(m))
  BY UpToExists
<1>3. IsUpTo(g, m, I, Len(m))
  BY <1>2, Zenon DEF IsUpTo
<1> QED
  BY <1>1, <1>3

\* What holds of the empty prefix of a list, and of every next one, holds of all.
LEMMA Prefixes ==
    ASSUME NEW n \in Nat, NEW T, 0 \in T,
           \A i \in T : i \in 0 .. n - 1 => i + 1 \in T
    PROVE  n \in T
<1> DEFINE U == {k \in Nat : k \in T \/ k > n}
<1>1. 0 \in U
  OBVIOUS
<1>2. ASSUME NEW k \in U PROVE k + 1 \in U
  OBVIOUS
<1>3. U \in SUBSET Nat
  OBVIOUS
<1> HIDE DEF U
<1>4. n \in U
  BY <1>1, <1>2, <1>3, AllNaturals
<1> QED
  BY <1>4 DEF U

\* What the function gives for a prefix one longer.
LEMMA OneMore ==
    ASSUME NEW S, NEW m \in Seq(S), NEW I, NEW g, IsUpTo(g, m, I, Len(m))
    PROVE  /\ g[0] = <<>>
           /\ \A i \in 0 .. Len(m) - 1 :
                 g[i + 1] = IF i + 1 \in I THEN Append(g[i], m[i + 1]) ELSE g[i]
<1>1. Len(m) \in Nat
  OBVIOUS
<1>2. \A i \in 0 .. Len(m) :
          g[i] = IF i = 0 THEN <<>> ELSE IF i \in I THEN Append(g[i - 1], m[i]) ELSE g[i - 1]
  BY <1>1 DEF IsUpTo
<1>3. \A i \in 0 .. Len(m) - 1 : i + 1 \in 0 .. Len(m) /\ i + 1 # 0 /\ (i + 1) - 1 = i
  BY <1>1
<1>4. 0 \in 0 .. Len(m)
  BY <1>1
<1>5. g[0] = <<>>
  BY <1>2, <1>4
<1>6. ASSUME NEW i \in 0 .. Len(m) - 1
      PROVE  g[i + 1] = IF i + 1 \in I THEN Append(g[i], m[i + 1]) ELSE g[i]
  BY <1>2, <1>3, <1>6
<1> QED
  BY <1>5, <1>6

\* s is what m has at some of the places 1 .. n that are in I, in order.
Embeds(s, m, I, n, pos) ==
    /\ pos \in [1 .. Len(s) -> 1 .. n]
    /\ \A k \in 1 .. Len(s) : pos[k] \in I /\ s[k] = m[pos[k]]
    /\ \A k, l \in 1 .. Len(s) : k < l => pos[k] < pos[l]

LEMMA EmbedOneMore ==
    ASSUME NEW S, NEW m \in Seq(S), NEW n \in 0 .. Len(m) - 1, NEW I, n + 1 \in I,
           NEW s \in Seq(S), NEW pos, Embeds(s, m, I, n, pos)
    PROVE  \E p : Embeds(Append(s, m[n + 1]), m, I, n + 1, p)
<1> DEFINE t == Append(s, m[n + 1])
           p == [k \in 1 .. Len(s) + 1 |-> IF k = Len(s) + 1 THEN n + 1 ELSE pos[k]]
<1>1. /\ Len(s) \in Nat /\ Len(m) \in Nat /\ n \in Nat /\ n + 1 \in 1 .. Len(m)
      /\ m[n + 1] \in S
  OBVIOUS
<1>2. /\ Len(t) = Len(s) + 1
      /\ t[Len(s) + 1] = m[n + 1]
      /\ \A k \in 1 .. Len(s) : t[k] = s[k]
  BY <1>1
<1>3. \A k \in 1 .. Len(s) : pos[k] \in 1 .. n
  BY DEF Embeds
<1>4. \A k \in 1 .. Len(s) + 1 : k \in 1 .. Len(s) \/ k = Len(s) + 1
  BY <1>1
<1>5. /\ p[Len(s) + 1] = n + 1
      /\ \A k \in 1 .. Len(s) : p[k] = pos[k]
  BY <1>1
<1>6. p \in [1 .. Len(t) -> 1 .. n + 1]
  <2>1. \A k \in 1 .. Len(s) + 1 : p[k] \in 1 .. n + 1
    BY <1>1, <1>3, <1>4, <1>5
  <2>2. DOMAIN p = 1 .. Len(t) /\ p = [k \in 1 .. Len(t) |-> p[k]]
    BY <1>2
  <2> HIDE DEF p, t
  <2> QED
    BY <2>1, <2>2, <1>2
<1> HIDE DEF p, t
<1>7. \A k \in 1 .. Len(t) : p[k] \in I /\ t[k] = m[p[k]]
  BY <1>1, <1>2, <1>4, <1>5 DEF Embeds
<1>8. ASSUME NEW k \in 1 .. Len(t), NEW l \in 1 .. Len(t), k < l PROVE p[k] < p[l]
  <2>1. k \in 1 .. Len(s)
    BY <1>8, <1>1, <1>2
  <2>2. CASE l = Len(s) + 1
    BY <2>1, <2>2, <1>1, <1>3, <1>5
  <2>3. CASE l \in 1 .. Len(s)
    BY <2>1, <2>3, <1>5, <1>8 DEF Embeds
  <2> QED
    BY <2>2, <2>3, <1>2, <1>4
<1>9. Embeds(t, m, I, n + 1, p)
  BY <1>6, <1>7, <1>8 DEF Embeds
<1> QED
  BY <1>9 DEF t

\* The chosen walks are walks of the list, in their order.
LEMMA ThoseEmbeds ==
    ASSUME NEW S, NEW m \in Seq(S), NEW I
    PROVE  Those(m, I) \in Seq(S) /\ \E p : Embeds(Those(m, I), m, I, Len(m), p)
<1>1. Len(m) \in Nat
  OBVIOUS
<1>2. PICK g : IsUpTo(g, m, I, Len(m)) /\ Those(m, I) = g[Len(m)]
  BY <1>1, ThoseUnfolds
<1>3. /\ g[0] = <<>>
      /\ \A i \in 0 .. Len(m) - 1 :
            g[i + 1] = IF i + 1 \in I THEN Append(g[i], m[i + 1]) ELSE g[i]
  BY <1>2, OneMore
<1> DEFINE T == {i \in 0 .. Len(m) : g[i] \in Seq(S) /\ \E p : Embeds(g[i], m, I, i, p)}
<1>4. 0 \in T
  <2>1. Len(<<>>) = 0 /\ <<>> \in Seq(S)
    OBVIOUS
  <2>2. Embeds(<<>>, m, I, 0, <<>>)
    BY <2>1 DEF Embeds
  <2>3. g[0] \in Seq(S) /\ Embeds(g[0], m, I, 0, <<>>)
    BY <2>1, <2>2, <1>3, Zenon
  <2>4. 0 \in 0 .. Len(m)
    BY <1>1
  <2> QED
    BY <2>3, <2>4
<1>5. ASSUME NEW i \in T, i \in 0 .. Len(m) - 1 PROVE i + 1 \in T
  <2>1. g[i] \in Seq(S) /\ i \in Nat /\ i + 1 \in 0 .. Len(m) /\ i + 1 \in 1 .. Len(m)
    BY <1>1, <1>5
  <2>2. PICK p : Embeds(g[i], m, I, i, p)
    OBVIOUS
  <2>3. m[i + 1] \in S
    BY <2>1
  <2>4. CASE i + 1 \in I
    <3>1. g[i + 1] = Append(g[i], m[i + 1])
      BY <1>3, <1>5, <2>4
    <3>2. \E q : Embeds(Append(g[i], m[i + 1]), m, I, i + 1, q)
      BY <2>1, <2>2, <2>4, <1>5, EmbedOneMore
    <3>3. Append(g[i], m[i + 1]) \in Seq(S)
      BY <2>1, <2>3
    <3> QED
      BY <3>1, <3>2, <3>3, <2>1
  <2>5. CASE i + 1 \notin I
    <3>1. g[i + 1] = g[i]
      BY <1>3, <1>5, <2>5
    <3>2. Embeds(g[i], m, I, i + 1, p)
      BY <2>1, <2>2 DEF Embeds
    <3> QED
      BY <3>1, <3>2, <2>1
  <2> QED
    BY <2>4, <2>5
<1> HIDE DEF T
<1>6. Len(m) \in T
  BY <1>1, <1>4, <1>5, Prefixes
<1> QED
  BY <1>2, <1>6 DEF T

\* Walks chosen at places that are apart are no more than there are in the list.
LEMMA ThoseApart ==
    ASSUME NEW S, NEW m \in Seq(S), NEW I, NEW J, NEW K, NEW L,
           \A i \in 1 .. Len(m) : /\ i \in I => i \notin J /\ i \notin K /\ i \notin L
                                  /\ i \in J => i \notin K /\ i \notin L
                                  /\ i \in K => i \notin L
    PROVE  Len(Those(m, I)) + Len(Those(m, J)) + Len(Those(m, K)) + Len(Those(m, L)) <= Len(m)
<1>1. Len(m) \in Nat
  OBVIOUS
<1>2. PICK a : IsUpTo(a, m, I, Len(m)) /\ Those(m, I) = a[Len(m)]
  BY <1>1, ThoseUnfolds
<1>3. PICK b : IsUpTo(b, m, J, Len(m)) /\ Those(m, J) = b[Len(m)]
  BY <1>1, ThoseUnfolds
<1>4. PICK c : IsUpTo(c, m, K, Len(m)) /\ Those(m, K) = c[Len(m)]
  BY <1>1, ThoseUnfolds
<1>5. PICK d : IsUpTo(d, m, L, Len(m)) /\ Those(m, L) = d[Len(m)]
  BY <1>1, ThoseUnfolds
<1> DEFINE Grows(g, i, A) ==
               /\ g[i + 1] \in Seq(S)
               /\ Len(g[i + 1]) = Len(g[i]) + (IF i + 1 \in A THEN 1 ELSE 0)
           T == {i \in 0 .. Len(m) :
                   /\ a[i] \in Seq(S) /\ b[i] \in Seq(S) /\ c[i] \in Seq(S) /\ d[i] \in Seq(S)
                   /\ Len(a[i]) + Len(b[i]) + Len(c[i]) + Len(d[i]) <= i}
<1>6. ASSUME NEW g, NEW A, IsUpTo(g, m, A, Len(m)), NEW i \in 0 .. Len(m) - 1, g[i] \in Seq(S)
      PROVE  Grows(g, i, A)
  <2>1. g[i + 1] = IF i + 1 \in A THEN Append(g[i], m[i + 1]) ELSE g[i]
    BY <1>6, OneMore
  <2>2. m[i + 1] \in S
    BY <1>1
  <2>3. /\ Append(g[i], m[i + 1]) \in Seq(S)
        /\ Len(Append(g[i], m[i + 1])) = Len(g[i]) + 1
        /\ Len(g[i]) \in Nat
    BY <2>2, <1>6
  <2>4. CASE i + 1 \in A
    BY <2>1, <2>3, <2>4
  <2>5. CASE i + 1 \notin A
    BY <2>1, <2>3, <2>5, <1>6
  <2> QED
    BY <2>4, <2>5
<1>7. 0 \in T
  <2>1. a[0] = <<>> /\ b[0] = <<>> /\ c[0] = <<>> /\ d[0] = <<>>
    BY <1>2, <1>3, <1>4, <1>5, OneMore
  <2>2. Len(<<>>) = 0 /\ <<>> \in Seq(S)
    OBVIOUS
  <2>3. /\ a[0] \in Seq(S) /\ b[0] \in Seq(S) /\ c[0] \in Seq(S) /\ d[0] \in Seq(S)
        /\ Len(a[0]) = 0 /\ Len(b[0]) = 0 /\ Len(c[0]) = 0 /\ Len(d[0]) = 0
    BY <2>1, <2>2, Zenon
  <2>4. 0 + 0 + 0 + 0 <= 0 /\ 0 \in 0 .. Len(m)
    BY <1>1
  <2>5. Len(a[0]) + Len(b[0]) + Len(c[0]) + Len(d[0]) <= 0
    BY <2>3, <2>4, Zenon
  <2> QED
    BY <2>3, <2>4, <2>5
<1>8. ASSUME NEW i \in T, i \in 0 .. Len(m) - 1 PROVE i + 1 \in T
  <2>1. /\ a[i] \in Seq(S) /\ b[i] \in Seq(S) /\ c[i] \in Seq(S) /\ d[i] \in Seq(S)
        /\ Len(a[i]) + Len(b[i]) + Len(c[i]) + Len(d[i]) <= i
    OBVIOUS
  <2>2. Grows(a, i, I) /\ Grows(b, i, J) /\ Grows(c, i, K) /\ Grows(d, i, L)
    <3> HIDE DEF T, Grows
    <3> QED
      BY <2>1, <1>2, <1>3, <1>4, <1>5, <1>6, <1>8
  <2>3. /\ Len(a[i]) \in Nat /\ Len(b[i]) \in Nat /\ Len(c[i]) \in Nat /\ Len(d[i]) \in Nat
        /\ i \in Nat /\ i + 1 \in 0 .. Len(m) /\ i + 1 \in 1 .. Len(m)
    BY <2>1, <1>1, <1>8
  <2>4. Len(a[i + 1]) + Len(b[i + 1]) + Len(c[i + 1]) + Len(d[i + 1]) <= i + 1
    <3> DEFINE One(A) == IF i + 1 \in A THEN 1 ELSE 0
    <3>1. One(I) + One(J) + One(K) + One(L) <= 1
      BY <2>3
    <3>2. One(I) \in Nat /\ One(J) \in Nat /\ One(K) \in Nat /\ One(L) \in Nat
      OBVIOUS
    <3>3. /\ Len(a[i + 1]) = Len(a[i]) + One(I) /\ Len(b[i + 1]) = Len(b[i]) + One(J)
          /\ Len(c[i + 1]) = Len(c[i]) + One(K) /\ Len(d[i + 1]) = Len(d[i]) + One(L)
      BY <2>2
    <3> HIDE DEF One, T, Grows
    <3>4. \A p, q, r, s \in Nat : \A x, y, z, u \in Nat :
              x + y + z + u <= 1 /\ p + q + r + s <= i
                  => (p + x) + (q + y) + (r + z) + (s + u) <= i + 1
      BY <2>3, SMT
    <3>5. (Len(a[i]) + One(I)) + (Len(b[i]) + One(J)) + (Len(c[i]) + One(K))
              + (Len(d[i]) + One(L)) <= i + 1
      BY <2>1, <2>3, <3>1, <3>2, <3>4
    <3> QED
      BY <3>3, <3>5, Zenon
  <2> QED
    BY <2>2, <2>3, <2>4
<1> HIDE DEF T
<1>9. Len(m) \in T
  BY <1>1, <1>7, <1>8, Prefixes
<1> QED
  BY <1>2, <1>3, <1>4, <1>5, <1>9 DEF T

-----------------------------------------------------------------------------
\* The list of walks as return_data and a page fault leave it.

Walks(m) == {m[i] : i \in 1 .. Len(m)}

AllDue(m)  == \A w \in Walks(m) : w.state = "due"
NoneDue(m) == \A w \in Walks(m) : w.state # "due"

DueSorted(m) ==
    \A i, j \in 1 .. Len(m) : i < j /\ m[j].state = "due" => m[i].state = "due"

LEMMA Joined ==
    ASSUME NEW p \in Seq(Walk), NEW q \in Seq(Walk)
    PROVE  /\ p \o q \in Seq(Walk)
           /\ Len(p \o q) = Len(p) + Len(q)
           /\ Walks(p \o q) = Walks(p) \cup Walks(q)
<1>1. /\ p \o q \in Seq(Walk) /\ Len(p \o q) = Len(p) + Len(q)
      /\ Len(p) \in Nat /\ Len(q) \in Nat
  OBVIOUS
<1>2. \A i \in 1 .. Len(p) : (p \o q)[i] = p[i] /\ i \in 1 .. Len(p \o q)
  BY <1>1
<1>3. \A i \in 1 .. Len(q) : (p \o q)[Len(p) + i] = q[i] /\ Len(p) + i \in 1 .. Len(p \o q)
  BY <1>1
<1>4. ASSUME NEW i \in 1 .. Len(p \o q)
      PROVE  i \in 1 .. Len(p) \/ (i - Len(p) \in 1 .. Len(q) /\ Len(p) + (i - Len(p)) = i)
  BY <1>1
<1>5. Walks(p) \subseteq Walks(p \o q)
  BY <1>2 DEF Walks
<1>6. Walks(q) \subseteq Walks(p \o q)
  BY <1>3 DEF Walks
<1>7. ASSUME NEW i \in 1 .. Len(p \o q) PROVE (p \o q)[i] \in Walks(p) \cup Walks(q)
  <2>1. CASE i \in 1 .. Len(p)
    BY <2>1, <1>2 DEF Walks
  <2>2. CASE i - Len(p) \in 1 .. Len(q) /\ Len(p) + (i - Len(p)) = i
    BY <2>2, <1>3 DEF Walks
  <2> QED
    BY <2>1, <2>2, <1>4
<1>8. Walks(p \o q) \subseteq Walks(p) \cup Walks(q)
  BY <1>7 DEF Walks
<1> QED
  BY <1>1, <1>5, <1>6, <1>8

LEMMA SortedThenNone ==
    ASSUME NEW p \in Seq(Walk), NEW q \in Seq(Walk), DueSorted(p), NoneDue(q)
    PROVE  DueSorted(p \o q)
<1>1. /\ Len(p \o q) = Len(p) + Len(q)
      /\ Len(p) \in Nat /\ Len(q) \in Nat
  OBVIOUS
<1>2. \A i \in 1 .. Len(p) : (p \o q)[i] = p[i]
  BY <1>1
<1>3. ASSUME NEW j \in 1 .. Len(p \o q), (p \o q)[j].state = "due" PROVE j \in 1 .. Len(p)
  <2>1. CASE j > Len(p)
    <3>1. (p \o q)[j] = q[j - Len(p)] /\ j - Len(p) \in 1 .. Len(q)
      BY <2>1, <1>1
    <3> QED
      BY <3>1, <1>3 DEF NoneDue, Walks
  <2> QED
    BY <2>1, <1>1
<1>4. ASSUME NEW i \in 1 .. Len(p \o q), NEW j \in 1 .. Len(p \o q), i < j,
             (p \o q)[j].state = "due"
      PROVE  (p \o q)[i].state = "due"
  <2>1. j \in 1 .. Len(p)
    BY <1>3, <1>4
  <2>2. i \in 1 .. Len(p)
    BY <2>1, <1>4, <1>1
  <2> QED
    BY <2>1, <2>2, <1>2, <1>4 DEF DueSorted
<1> QED
  BY <1>4 DEF DueSorted

\* Choosing walks keeps them apart and in order.
LEMMA ThoseWalks ==
    ASSUME NEW m \in Seq(Walk), NEW I
    PROVE  /\ Those(m, I) \in Seq(Walk)
           /\ \A w \in Walks(Those(m, I)) : \E i \in 1 .. Len(m) : i \in I /\ w = m[i]
           /\ DueSorted(m) => DueSorted(Those(m, I))
<1>1. PICK p : Embeds(Those(m, I), m, I, Len(m), p)
  BY ThoseEmbeds
<1>2. Those(m, I) \in Seq(Walk)
  BY ThoseEmbeds
<1>3. \A k \in 1 .. Len(Those(m, I)) :
          p[k] \in 1 .. Len(m) /\ p[k] \in I /\ Those(m, I)[k] = m[p[k]]
  BY <1>1 DEF Embeds
<1>4. \A w \in Walks(Those(m, I)) : \E i \in 1 .. Len(m) : i \in I /\ w = m[i]
  BY <1>3 DEF Walks
<1>5. ASSUME DueSorted(m) PROVE DueSorted(Those(m, I))
  BY <1>1, <1>3, <1>5, SMTT(60) DEF DueSorted, Embeds
<1> QED
  BY <1>2, <1>4, <1>5

LEMMA DueWalks ==
    ASSUME NEW m \in Seq(Walk)
    PROVE  LET woken == [i \in DOMAIN m |-> [m[i] EXCEPT !.state = "due"]]
           IN  woken \in Seq(Walk) /\ Len(woken) = Len(m) /\ AllDue(woken)
<1> DEFINE woken == [i \in DOMAIN m |-> [m[i] EXCEPT !.state = "due"]]
<1>1. Len(m) \in Nat /\ DOMAIN m = 1 .. Len(m) /\ \A i \in 1 .. Len(m) : m[i] \in Walk
  OBVIOUS
<1>2. \A w \in Walk : [w EXCEPT !.state = "due"] \in Walk /\ [w EXCEPT !.state = "due"].state = "due"
  BY DEF Walk, State
<1>3. \A i \in 1 .. Len(m) : woken[i] \in Walk /\ woken[i].state = "due"
  BY <1>1, <1>2
<1>4. woken \in [1 .. Len(m) -> Walk]
  BY <1>1, <1>3
<1> HIDE DEF woken
<1>5. woken \in Seq(Walk) /\ Len(woken) = Len(m)
  BY <1>1, <1>4
<1>6. AllDue(woken)
  BY <1>3, <1>5 DEF AllDue, Walks
<1> QED
  BY <1>5, <1>6 DEF woken

\* return_data leaves the list sorted, and no walk in it waits for the block.
LEMMA WokenList ==
    ASSUME NEW m \in Seq(Walk), NEW b
    PROVE  /\ Wake(m, b) \in Seq(Walk)
           /\ Len(Wake(m, b)) <= Len(m)
           /\ DueSorted(Wake(m, b))
           /\ \A w \in Walks(Wake(m, b)) :
                 w.state = "asked" => w \in Walks(m) /\ BlockOf(w.addr) # b
<1> DEFINE woken == {i \in DOMAIN m : BlockOf(m[i].addr) = b}
           At(state) == {i \in DOMAIN m \ woken : m[i].state = state}
           rest(state) == Those(m, At(state))
           due == Those(m, woken)
           now == [i \in DOMAIN due |-> [due[i] EXCEPT !.state = "due"]]
<1>1. Len(m) \in Nat /\ DOMAIN m = 1 .. Len(m)
  OBVIOUS
<1>2. Wake(m, b) = rest("due") \o now \o rest("penalty") \o rest("asked")
  BY DEF Wake
<1>3. ASSUME NEW state
      PROVE  /\ rest(state) \in Seq(Walk)
             /\ \A w \in Walks(rest(state)) :
                   w.state = state /\ w \in Walks(m) /\ BlockOf(w.addr) # b
  <2>1. \A w \in Walks(Those(m, At(state))) :
            \E i \in 1 .. Len(m) : i \in At(state) /\ w = m[i]
    BY ThoseWalks
  <2>2. \A i \in 1 .. Len(m) : i \in At(state) =>
            m[i].state = state /\ m[i] \in Walks(m) /\ BlockOf(m[i].addr) # b
    BY <1>1 DEF Walks
  <2>3. Those(m, At(state)) \in Seq(Walk)
    BY ThoseWalks
  <2> HIDE DEF At
  <2> QED
    BY <2>1, <2>2, <2>3
<1>4. due \in Seq(Walk)
  BY ThoseWalks
<1>5. Len(due) + Len(rest("due")) + Len(rest("penalty")) + Len(rest("asked")) <= Len(m)
  <2>1. \A i \in 1 .. Len(m) :
            /\ i \in woken => i \notin At("due") /\ i \notin At("penalty") /\ i \notin At("asked")
            /\ i \in At("due") => i \notin At("penalty") /\ i \notin At("asked")
            /\ i \in At("penalty") => i \notin At("asked")
    BY <1>1
  <2> HIDE DEF woken, At
  <2> QED
    BY <2>1, ThoseApart
<1> HIDE DEF rest, due
<1>6. now \in Seq(Walk) /\ Len(now) = Len(due) /\ AllDue(now)
  BY <1>4, DueWalks
<1> HIDE DEF now
<1> DEFINE first  == rest("due") \o now
           second == first \o rest("penalty")
<1>7. /\ first \in Seq(Walk) /\ Len(first) = Len(rest("due")) + Len(now)
      /\ Walks(first) = Walks(rest("due")) \cup Walks(now)
  BY <1>3, <1>6, Joined
<1>8. DueSorted(first)
  <2>1. \A w \in Walks(first) : w.state = "due"
    BY <1>3, <1>6, <1>7 DEF AllDue
  <2> HIDE DEF first
  <2> QED
    BY <2>1, <1>7 DEF Walks, DueSorted
<1> HIDE DEF first
<1>9. /\ second \in Seq(Walk) /\ Len(second) = Len(first) + Len(rest("penalty"))
      /\ Walks(second) = Walks(first) \cup Walks(rest("penalty"))
  BY <1>3, <1>7, Joined
<1>10. DueSorted(second)
  <2>1. NoneDue(rest("penalty"))
    BY <1>3 DEF NoneDue
  <2> QED
    BY <2>1, <1>3, <1>7, <1>8, SortedThenNone
<1>11. Wake(m, b) = second \o rest("asked")
  BY <1>2 DEF first
<1> HIDE DEF second
<1>12. /\ Wake(m, b) \in Seq(Walk) /\ Len(Wake(m, b)) = Len(second) + Len(rest("asked"))
       /\ Walks(Wake(m, b)) = Walks(second) \cup Walks(rest("asked"))
  BY <1>3, <1>9, <1>11, Joined
<1>13. DueSorted(Wake(m, b))
  <2>1. NoneDue(rest("asked"))
    BY <1>3 DEF NoneDue
  <2> QED
    BY <2>1, <1>3, <1>9, <1>10, <1>11, SortedThenNone
<1>14. Len(Wake(m, b)) <= Len(m)
  <2>1. /\ Len(due) \in Nat /\ Len(rest("due")) \in Nat /\ Len(rest("penalty")) \in Nat
        /\ Len(rest("asked")) \in Nat
    BY <1>3, <1>4
  <2> QED
    BY <2>1, <1>1, <1>5, <1>6, <1>7, <1>9, <1>12
<1>15. \A w \in Walks(Wake(m, b)) :
           w.state = "asked" => w \in Walks(m) /\ BlockOf(w.addr) # b
  BY <1>3, <1>6, <1>7, <1>9, <1>12 DEF AllDue
<1> QED
  BY <1>12, <1>13, <1>14, <1>15

\* So does a page fault, which sends the first walk back.
LEMMA PenalisedList ==
    ASSUME NEW m \in Seq(Walk), m # <<>>, DueSorted(m)
    PROVE  /\ Penalised(m) \in Seq(Walk)
           /\ Len(Penalised(m)) <= Len(m)
           /\ DueSorted(Penalised(m))
           /\ \A w \in Walks(Penalised(m)) : w.state = "asked" => w \in Walks(m)
<1> DEFINE e == [Head(m) EXCEPT !.state = "penalty"]
           others == Tail(m)
           At(S) == {i \in DOMAIN others : others[i].state \in S}
           rest(S) == Those(others, At(S))
           front == rest({"due", "penalty"})
           back == rest({"asked"})
<1>1. /\ Len(m) \in Nat /\ m[1] = Head(m) /\ Head(m) \in Walk
      /\ others \in Seq(Walk) /\ Len(others) \in Nat /\ Len(others) + 1 = Len(m)
      /\ DOMAIN others = 1 .. Len(others)
      /\ \A i \in 1 .. Len(others) : others[i] = m[i + 1] /\ i + 1 \in 1 .. Len(m)
  OBVIOUS
<1>2. e \in Walk /\ e.state = "penalty"
  BY <1>1 DEF Walk, State
<1>3. Penalised(m) = front \o <<e>> \o back
  BY DEF Penalised
<1>4. DueSorted(others)
  <2>1. \A i, j \in 1 .. Len(others) : i < j => i + 1 < j + 1
    BY <1>1
  <2> HIDE DEF others
  <2> QED
    BY <1>1, <2>1 DEF DueSorted
<1>5. Walks(others) \subseteq Walks(m)
  BY <1>1 DEF Walks
<1> HIDE DEF e, others
<1>6. front \in Seq(Walk) /\ DueSorted(front) /\ Walks(front) \subseteq Walks(m)
  <2>1. Walks(front) \subseteq Walks(others)
    <3>1. \A w \in Walks(front) : \E i \in 1 .. Len(others) : w = others[i]
      BY <1>1, ThoseWalks
    <3> HIDE DEF front
    <3> QED
      BY <3>1 DEF Walks
  <2> QED
    BY <2>1, <1>1, <1>4, <1>5, ThoseWalks
<1>7. back \in Seq(Walk) /\ NoneDue(back) /\ Walks(back) \subseteq Walks(m)
  <2>1. \A w \in Walks(back) : \E i \in 1 .. Len(others) : i \in At({"asked"}) /\ w = others[i]
    BY <1>1, ThoseWalks
  <2>2. back \in Seq(Walk)
    BY <1>1, ThoseWalks
  <2> HIDE DEF back
  <2>3. \A w \in Walks(back) : w.state = "asked" /\ w \in Walks(others)
    BY <2>1 DEF Walks
  <2> QED
    BY <2>2, <2>3, <1>5 DEF NoneDue
<1>8. Len(front) + Len(back) <= Len(others)
  <2>1. \A i \in 1 .. Len(others) :
            i \in At({"due", "penalty"}) => i \notin At({"asked"})
    OBVIOUS
  <2>2. Len(Those(others, {})) = 0
    <3>1. Those(others, {}) \in Seq(Walk)
      BY <1>1, ThoseWalks
    <3>2. Walks(Those(others, {})) = {}
      BY <1>1, ThoseWalks
    <3>3. Len(Those(others, {})) \in Nat
      BY <3>1
    <3>4. 1 \notin 1 .. Len(Those(others, {}))
      BY <3>2, Zenon DEF Walks
    <3> QED
      BY <3>3, <3>4
  <2>3. Len(front) + Len(back) + Len(Those(others, {})) + Len(Those(others, {})) <= Len(others)
    <3> HIDE DEF At
    <3> QED
      BY <2>1, <1>1, ThoseApart
  <2>4. Len(front) \in Nat /\ Len(back) \in Nat
    BY <1>6, <1>7
  <2> QED
    BY <2>2, <2>3, <2>4, <1>1
<1> HIDE DEF front, back
<1>9. <<e>> \in Seq(Walk) /\ Len(<<e>>) = 1 /\ <<e>>[1] = e
  BY <1>2
<1>10. Walks(<<e>>) = {e}
  BY <1>9 DEF Walks
<1>11. NoneDue(<<e>>)
  BY <1>2, <1>10 DEF NoneDue
<1> DEFINE some == front \o <<e>>
<1>12. /\ some \in Seq(Walk) /\ Len(some) = Len(front) + 1
       /\ Walks(some) = Walks(front) \cup {e}
  BY <1>6, <1>9, <1>10, Joined, ZenonT(60)
<1>13. DueSorted(some)
  BY <1>6, <1>9, <1>11, SortedThenNone
<1>14. Penalised(m) = some \o back
  BY <1>3
<1> HIDE DEF some
<1>15. /\ Penalised(m) \in Seq(Walk) /\ Len(Penalised(m)) = Len(some) + Len(back)
       /\ Walks(Penalised(m)) = Walks(some) \cup Walks(back)
  BY <1>7, <1>12, <1>14, Joined
<1>16. DueSorted(Penalised(m))
  BY <1>7, <1>12, <1>13, <1>14, SortedThenNone
<1>17. Len(Penalised(m)) <= Len(m)
  <2>1. Len(front) \in Nat /\ Len(back) \in Nat
    BY <1>6, <1>7
  <2> QED
    BY <2>1, <1>1, <1>8, <1>12, <1>15
<1>18. \A w \in Walks(Penalised(m)) : w.state = "asked" => w \in Walks(m)
  BY <1>2, <1>6, <1>7, <1>12, <1>15
<1> QED
  BY <1>15, <1>16, <1>17, <1>18

\* The list after a walk is added that waits for an answer.
LEMMA AddedList ==
    ASSUME NEW m \in Seq(Walk), DueSorted(m), NEW w \in Walk, w.state = "asked"
    PROVE  /\ Append(m, w) \in Seq(Walk)
           /\ Len(Append(m, w)) = Len(m) + 1
           /\ DueSorted(Append(m, w))
           /\ Walks(Append(m, w)) = Walks(m) \cup {w}
<1>1. <<w>> \in Seq(Walk) /\ Len(<<w>>) = 1 /\ <<w>>[1] = w /\ Append(m, w) = m \o <<w>>
  OBVIOUS
<1>2. Walks(<<w>>) = {w}
  BY <1>1 DEF Walks
<1>3. NoneDue(<<w>>)
  BY <1>2 DEF NoneDue
<1> QED
  BY <1>1, <1>2, <1>3, Joined, SortedThenNone

\* The list after its first walk has left.
LEMMA TailList ==
    ASSUME NEW m \in Seq(Walk), m # <<>>, DueSorted(m)
    PROVE  /\ Tail(m) \in Seq(Walk)
           /\ Len(Tail(m)) + 1 = Len(m)
           /\ DueSorted(Tail(m))
           /\ Walks(Tail(m)) \subseteq Walks(m)
<1>1. /\ Tail(m) \in Seq(Walk) /\ Len(m) \in Nat /\ Len(Tail(m)) \in Nat
      /\ Len(Tail(m)) + 1 = Len(m)
      /\ \A i \in 1 .. Len(Tail(m)) : Tail(m)[i] = m[i + 1] /\ i + 1 \in 1 .. Len(m)
  OBVIOUS
<1>2. \A i, j \in 1 .. Len(Tail(m)) : i < j => i + 1 < j + 1
  BY <1>1
<1> DEFINE t == Tail(m)
<1> HIDE DEF t
<1>3. DueSorted(t)
  BY <1>1, <1>2 DEF DueSorted, t
<1>4. Walks(t) \subseteq Walks(m)
  BY <1>1 DEF Walks, t
<1> QED
  BY <1>1, <1>3, <1>4 DEF t

\* The list after a penalty behind walks that are due has ended.
LEMMA ReleasedList ==
    ASSUME NEW m \in Seq(Walk), DueSorted(m), NEW i \in 1 .. Len(m),
           \A j \in 1 .. i - 1 : m[j].state = "due"
    PROVE  LET n == [m EXCEPT ![i].state = "due"]
           IN  /\ n \in Seq(Walk)
               /\ Len(n) = Len(m)
               /\ DueSorted(n)
               /\ \A w \in Walks(n) : w.state = "asked" => w \in Walks(m)
<1> DEFINE n == [m EXCEPT ![i].state = "due"]
<1>1. Len(m) \in Nat /\ DOMAIN m = 1 .. Len(m) /\ \A k \in 1 .. Len(m) : m[k] \in Walk
  OBVIOUS
<1>2. [m[i] EXCEPT !.state = "due"] \in Walk /\ [m[i] EXCEPT !.state = "due"].state = "due"
  BY <1>1 DEF Walk, State
<1>3. n[i].state = "due" /\ \A k \in 1 .. Len(m) : k # i => n[k] = m[k]
  BY <1>1, <1>2
<1>4. n \in Seq(Walk) /\ Len(n) = Len(m)
  BY <1>1, <1>2
<1> HIDE DEF n
<1>5. ASSUME NEW k \in 1 .. Len(n), NEW l \in 1 .. Len(n), k < l, n[l].state = "due"
      PROVE  n[k].state = "due"
  <2>1. CASE k = i
    BY <2>1, <1>3
  <2>2. CASE k < i
    <3>1. m[k].state = "due"
      BY <2>2, <1>1, <1>4
    <3> QED
      BY <2>2, <3>1, <1>3, <1>4
  <2>3. CASE k > i
    <3>1. n[l] = m[l] /\ n[k] = m[k]
      BY <2>3, <1>1, <1>3, <1>4, <1>5
    <3> QED
      BY <3>1, <1>4, <1>5 DEF DueSorted
  <2> QED
    BY <2>1, <2>2, <2>3, <1>1, <1>4
<1>6. DueSorted(n)
  BY <1>5 DEF DueSorted
<1>7. \A w \in Walks(n) : w.state = "asked" => w \in Walks(m)
  BY <1>3, <1>4 DEF Walks
<1> QED
  BY <1>4, <1>6, <1>7 DEF n

-----------------------------------------------------------------------------
\* Addresses of page table entries.

LEMMA Quotient ==
    ASSUME NEW p \in Nat \ {0}, NEW x \in Nat, NEW r \in 0 .. p - 1
    PROVE  (x * p + r) \div p = x
<1> DEFINE a == x * p + r
           y == a \div p
           m == a % p
<1>1. a \in Nat
  <2>1. x * p \in Nat
    BY SMT
  <2> QED
    BY <2>1
<1>2. a = p * y + m /\ y \in Nat /\ m \in 0 .. p - 1
  BY <1>1, Division
<1>3. a = x * p + r
  OBVIOUS
<1> HIDE DEF a, y, m
<1>4. p * (x - y) = m - r
  BY <1>2, <1>3, SMT
<1>5. CASE x - y >= 1
  <2>1. p * (x - y) >= p
    BY <1>2, <1>5, SMT
  <2> QED
    BY <1>2, <1>4, <2>1, SMT
<1>6. CASE x - y <= -1
  <2>1. p * (x - y) <= -p
    BY <1>2, <1>6, SMT
  <2> QED
    BY <1>2, <1>4, <2>1, SMT
<1>7. CASE x - y = 0
  BY <1>2, <1>7 DEF y, a
<1> QED
  BY <1>2, <1>5, <1>6, <1>7

LEMMA Product ==
    ASSUME NEW a \in Nat, NEW b \in Nat
    PROVE  a * b \in Nat
BY SMT

LEMMA Shifts ==
    ASSUME NEW v \in Nat, NEW level \in 0 .. 5 + pt_levels
    PROVE  Above(v, level) \in Nat /\ get_offset(v, level) \in 0 .. Fanout - 1 /\ Fanout \in Nat
<1>1. Fanout ^ level \in Nat \ {0}
  BY SizeAssumption
<1>2. Fanout \in Nat /\ Fanout >= 2
  BY SizeAssumption DEF Fanout
<1>3. Above(v, level) \in Nat
  <2> DEFINE f == Fanout ^ level
  <2>1. f \in Nat \ {0}
    BY <1>1
  <2> HIDE DEF f
  <2>2. v \div f \in Nat
    BY <2>1, Division
  <2> QED
    BY <2>2 DEF f, Above
<1> QED
  BY <1>2, <1>3 DEF get_offset

LEMMA SetsOfCaches ==
    ASSUME NEW v \in VPage, NEW l \in PSCLLevel
    PROVE  SetIdx(l, v) \in 0 .. PSCLSets[l] - 1
<1>1. v \in Nat /\ pt_levels \in Nat
  BY SizeAssumption
<1>2. l + 1 \in 0 .. 5 + pt_levels
  BY <1>1 DEF PSCLLevel
<1>3. Above(v, l + 1) \in Nat
  BY <1>1, <1>2, Shifts
<1>4. PSCLSets[l] \in Nat \ {0}
  BY WalkerAssumption
<1> QED
  BY <1>3, <1>4, Division DEF SetIdx

\* An entry of a table that begins a page.
LEMMA Entry ==
    ASSUME NEW t, Aligned(t), NEW v \in Nat, NEW level \in 0 .. 5 + pt_levels
    PROVE  /\ EntryIn(t, v, level) \in Nat
           /\ page_size < PAGE_SIZE => Frame(EntryIn(t, v, level)) = Frame(t)
<1> DEFINE o == get_offset(v, level)
           c == PAGE_SIZE \div page_size
           q == t \div PAGE_SIZE
           e == t \div page_size
<1>1. /\ t \in Nat /\ page_size \in Nat \ {0} /\ PAGE_SIZE \in Nat \ {0}
      /\ PTE_BYTES \in Nat \ {0}
  BY SizeAssumption DEF Aligned
<1>2. o \in 0 .. Fanout - 1 /\ Fanout \in Nat
  BY Shifts
<1>3. e \in Nat /\ q \in Nat /\ c \in Nat
  BY <1>1, Division
<1>4. EntryIn(t, v, level) = e * page_size + o * PTE_BYTES
  BY DEF EntryIn
<1>5. t = PAGE_SIZE * q
  BY <1>1, Division DEF Aligned
<1>6. Frame(t) = q
  BY DEF Frame
<1>7. page_size = PTE_BYTES * Fanout + (page_size % PTE_BYTES) /\ page_size % PTE_BYTES \in Nat
  <2>1. page_size % PTE_BYTES \in 0 .. PTE_BYTES - 1
    BY <1>1, Division
  <2> QED
    BY <1>1, <2>1, Division DEF Fanout
<1>8. page_size < PAGE_SIZE => PAGE_SIZE = page_size * c
  <2>1. page_size < PAGE_SIZE => page_size % PAGE_SIZE = page_size
    BY <1>1
  <2>2. page_size < PAGE_SIZE => PAGE_SIZE % page_size = 0
    BY <2>1, <1>1, SizeAssumption
  <2>3. PAGE_SIZE = page_size * c + (PAGE_SIZE % page_size)
    BY <1>1, Division
  <2>4. page_size * c \in Nat
    BY <1>1, <1>3, Product
  <2> QED
    BY <2>2, <2>3, <2>4
<1>9. ASSUME page_size < PAGE_SIZE PROVE e = c * q
  <2>1. t = (c * q) * page_size + 0
    <3> HIDE DEF c, q
    <3>1. (page_size * c) * q = (c * q) * page_size
      BY <1>1, <1>3, SMT
    <3>2. (c * q) * page_size \in Nat
      BY <1>1, <1>3, Product
    <3>3. t = (c * q) * page_size
      BY <3>1, <1>5, <1>8, <1>9, Zenon
    <3> QED
      BY <3>2, <3>3
  <2>2. c * q \in Nat
    BY <1>3, Product
  <2>3. 0 \in 0 .. page_size - 1
    BY <1>1
  <2>4. ((c * q) * page_size + 0) \div page_size = c * q
    BY <1>1, <2>2, <2>3, Quotient
  <2> QED
    BY <2>1, <2>4, Zenon DEF e
<1> HIDE DEF o, c, q, e
<1>10. e * page_size \in Nat /\ o * PTE_BYTES \in Nat
  BY <1>1, <1>2, <1>3, Product
<1>11. EntryIn(t, v, level) \in Nat
  BY <1>4, <1>10
<1>12. ASSUME page_size < PAGE_SIZE PROVE Frame(EntryIn(t, v, level)) = q
  <2>1. e * page_size = q * PAGE_SIZE
    BY <1>1, <1>3, <1>8, <1>9, <1>12, SMT
  <2>2. o * PTE_BYTES <= (Fanout - 1) * PTE_BYTES
    BY <1>1, <1>2, SMT
  <2>3. (Fanout - 1) * PTE_BYTES = PTE_BYTES * Fanout - PTE_BYTES
    BY <1>1, <1>2, SMT
  <2>4. PTE_BYTES * Fanout \in Nat
    BY <1>1, <1>2, Product
  <2>5. o * PTE_BYTES \in 0 .. PAGE_SIZE - 1
    BY <1>1, <1>7, <1>10, <1>12, <2>2, <2>3, <2>4
  <2>6. (q * PAGE_SIZE + o * PTE_BYTES) \div PAGE_SIZE = q
    BY <1>1, <1>3, <2>5, Quotient
  <2> QED
    BY <1>4, <2>1, <2>6, Zenon DEF Frame
<1> QED
  BY <1>6, <1>11, <1>12

\* splice_bits stays in the page of the table.
LEMMA SamePage ==
    ASSUME NEW t \in Nat, NEW x \in Nat
    PROVE  InPage(t, x) \in Nat /\ Frame(InPage(t, x)) = Frame(t)
<1>1. PAGE_SIZE \in Nat \ {0}
  BY SizesAreNaturals
<1>2. t \div PAGE_SIZE \in Nat /\ x % PAGE_SIZE \in 0 .. PAGE_SIZE - 1
  BY <1>1, Division
<1>3. (t \div PAGE_SIZE) * PAGE_SIZE \in Nat
  BY <1>1, <1>2, Product
<1>4. InPage(t, x) \in Nat
  BY <1>1, <1>2, <1>3 DEF InPage
<1>5. Frame(InPage(t, x)) = t \div PAGE_SIZE
  BY <1>1, <1>2, Quotient DEF InPage, Frame
<1> QED
  BY <1>4, <1>5 DEF Frame

-----------------------------------------------------------------------------
\* The paging structure caches.

Block == [valid : BOOLEAN, v : VPage \cup {0}, data : Nat, lru : Nat]

Sets(l) == 0 .. PSCLSets[l] - 1
Ways(l) == 1 .. PSCLWays[l]

Caches(p) ==
    /\ p = [l \in PSCLLevel |-> p[l]]
    /\ \A l \in PSCLLevel : p[l] \in [Sets(l) -> [Ways(l) -> Block]]

\* The pages that hold tables, of those in t.
InTables(t, a) == \E k \in DOMAIN t : Frame(a) = Frame(t[k])

\* What is known of a valid block of level l, from the page tables in t.
Known(t, l, b) ==
    /\ b.v \in VPage
    /\ l <= pt_levels
    /\ l # 2 => /\ TableKey(b.v, l) \in DOMAIN t
                /\ b.data = EntryIn(t[TableKey(b.v, l)], b.v, l)
    /\ page_size < PAGE_SIZE => InTables(t, b.data)

AllKnown(t, p) ==
    \A l \in PSCLLevel : \A s \in Sets(l) : \A w \in Ways(l) :
        p[l][s][w].valid => Known(t, l, p[l][s][w])

\* fill_cache writes one block; of the others only lru changes.
LEMMA FillOne ==
    ASSUME NEW p, Caches(p), NEW l \in PSCLLevel, NEW addr \in Nat, NEW v \in VPage
    PROVE  /\ Caches(FillCache(p, l, addr, v))
           /\ \A k \in PSCLLevel : \A s \in Sets(k) : \A w \in Ways(k) :
                 LET b == FillCache(p, l, addr, v)[k][s][w]
                     a == p[k][s][w]
                 IN  b.valid => \/ k = l /\ b.v = v /\ b.data = addr
                                \/ a.valid /\ b.v = a.v /\ b.data = a.data
<1> DEFINE z == SetIdx(l, v)
           ways == 1 .. PSCLWays[l]
           unused == {w \in ways : ~ p[l][z][w].valid}
           oldest == {w \in ways : \A x \in ways : p[l][z][x].lru <= p[l][z][w].lru}
           fill == IF unused # {} THEN Last(unused) ELSE First(oldest)
           val == p[l][z][fill].lru
           new == [valid |-> TRUE, v |-> v, data |-> addr, lru |-> val]
           block == [p[l][z] EXCEPT ![fill] = new]
           aged == [w \in ways |-> [block[w] EXCEPT !.lru = IF @ = val THEN 0 ELSE @ + 1]]
           q == FillCache(p, l, addr, v)
<1>1. q = [p EXCEPT ![l][z] = aged]
  BY DEF FillCache
<1>2. z \in Sets(l)
  BY SetsOfCaches DEF Sets
<1>3. /\ p = [k \in PSCLLevel |-> p[k]]
      /\ \A k \in PSCLLevel : p[k] \in [Sets(k) -> [Ways(k) -> Block]]
  BY DEF Caches
<1>4. p[l][z] \in [ways -> Block]
  BY <1>2, <1>3 DEF Ways
<1> HIDE DEF z, fill, val, q
<1>5. ASSUME NEW w \in ways
      PROVE  /\ aged[w] \in Block
             /\ aged[w].valid => \/ aged[w].v = v /\ aged[w].data = addr
                                 \/ /\ p[l][z][w].valid
                                    /\ aged[w].v = p[l][z][w].v
                                    /\ aged[w].data = p[l][z][w].data
  <2>1. aged[w] = [block[w] EXCEPT !.lru = IF @ = val THEN 0 ELSE @ + 1]
    OBVIOUS
  <2>2. CASE w = fill
    <3>1. block[w] = new
      BY <1>4, <2>2
    <3> DEFINE b == block[w]
    <3>2. /\ b = [valid |-> TRUE, v |-> v, data |-> addr, lru |-> val]
          /\ aged[w] = [b EXCEPT !.lru = IF @ = val THEN 0 ELSE @ + 1]
      BY <2>1, <3>1
    <3> HIDE DEF b, block, aged
    <3>3. aged[w] = [valid |-> TRUE, v |-> v, data |-> addr, lru |-> 0]
      BY <3>2
    <3>4. aged[w] \in Block /\ aged[w].v = v /\ aged[w].data = addr
      BY <3>3 DEF Block
    <3> QED
      BY <3>4
  <2>3. CASE w # fill
    <3>1. block[w] = p[l][z][w] /\ p[l][z][w] \in Block
      BY <1>4, <2>3
    <3> DEFINE a == p[l][z][w]
    <3>2. a \in Block /\ aged[w] = [a EXCEPT !.lru = IF @ = val THEN 0 ELSE @ + 1]
      BY <2>1, <3>1
    <3> HIDE DEF a, aged, block
    <3>3. aged[w] = [valid |-> a.valid, v |-> a.v, data |-> a.data,
                     lru |-> IF a.lru = val THEN 0 ELSE a.lru + 1]
      BY <3>2 DEF Block
    <3> QED
      BY <3>2, <3>3 DEF Block, a
  <2> QED
    BY <2>2, <2>3
<1>6. aged \in [Ways(l) -> Block]
  <2>1. aged = [w \in ways |-> aged[w]]
    OBVIOUS
  <2> HIDE DEF aged
  <2> QED
    BY <1>5, <2>1 DEF Ways
<1> HIDE DEF aged
<1>7. /\ q = [k \in PSCLLevel |-> q[k]]
      /\ \A k \in PSCLLevel : k # l => q[k] = p[k]
      /\ q[l] = [p[l] EXCEPT ![z] = aged]
  BY <1>1, <1>3
<1>8. q[l] \in [Sets(l) -> [Ways(l) -> Block]]
  BY <1>2, <1>3, <1>6, <1>7
<1>9. Caches(q)
  BY <1>3, <1>7, <1>8 DEF Caches
<1>10. ASSUME NEW k \in PSCLLevel, NEW s \in Sets(k), NEW w \in Ways(k), q[k][s][w].valid
       PROVE  \/ k = l /\ q[k][s][w].v = v /\ q[k][s][w].data = addr
              \/ /\ p[k][s][w].valid /\ q[k][s][w].v = p[k][s][w].v
                 /\ q[k][s][w].data = p[k][s][w].data
  <2>1. CASE k = l /\ s = z
    <3>1. q[k][s] = aged
      BY <2>1, <1>2, <1>3, <1>7
    <3> QED
      BY <2>1, <3>1, <1>5, <1>10 DEF Ways
  <2>2. CASE k = l /\ s # z
    <3>1. q[k][s] = p[k][s]
      BY <2>2, <1>3, <1>7
    <3> QED
      BY <3>1, <1>10
  <2>3. CASE k # l
    BY <2>3, <1>7, <1>10
  <2> QED
    BY <2>1, <2>2, <2>3
<1> QED
  BY <1>9, <1>10 DEF q

\* More tables leave it known.
LEMMA MoreTables ==
    ASSUME NEW t, NEW u, DOMAIN t \subseteq DOMAIN u, \A k \in DOMAIN t : u[k] = t[k]
    PROVE  /\ \A a : InTables(t, a) => InTables(u, a)
           /\ \A p : AllKnown(t, p) => AllKnown(u, p)
<1>1. \A a : InTables(t, a) => InTables(u, a)
  BY DEF InTables
<1>2. \A l, b : Known(t, l, b) => Known(u, l, b)
  BY <1>1 DEF Known
<1> QED
  BY <1>1, <1>2 DEF AllKnown

LEMMA FillKnown ==
    ASSUME NEW t, NEW p, Caches(p), AllKnown(t, p),
           NEW l \in PSCLLevel, l <= pt_levels, NEW addr \in Nat, NEW v \in VPage,
           l # 2 => TableKey(v, l) \in DOMAIN t /\ addr = EntryIn(t[TableKey(v, l)], v, l),
           page_size < PAGE_SIZE => InTables(t, addr)
    PROVE  Caches(FillCache(p, l, addr, v)) /\ AllKnown(t, FillCache(p, l, addr, v))
<1> DEFINE q == FillCache(p, l, addr, v)
<1>1. /\ Caches(q)
      /\ \A k \in PSCLLevel : \A s \in Sets(k) : \A w \in Ways(k) :
            q[k][s][w].valid => \/ k = l /\ q[k][s][w].v = v /\ q[k][s][w].data = addr
                                \/ /\ p[k][s][w].valid /\ q[k][s][w].v = p[k][s][w].v
                                   /\ q[k][s][w].data = p[k][s][w].data
  BY FillOne
<1> HIDE DEF q
<1>2. ASSUME NEW k \in PSCLLevel, NEW s \in Sets(k), NEW w \in Ways(k), q[k][s][w].valid
      PROVE  Known(t, k, q[k][s][w])
  <2>1. CASE k = l /\ q[k][s][w].v = v /\ q[k][s][w].data = addr
    BY <2>1 DEF Known
  <2>2. CASE /\ p[k][s][w].valid /\ q[k][s][w].v = p[k][s][w].v
             /\ q[k][s][w].data = p[k][s][w].data
    <3>1. Known(t, k, p[k][s][w])
      BY <2>2 DEF AllKnown
    <3> QED
      BY <2>2, <3>1 DEF Known
  <2> QED
    BY <1>1, <1>2, <2>1, <2>2
<1>3. AllKnown(t, q)
  BY <1>2 DEF AllKnown
<1> QED
  BY <1>1, <1>3 DEF q

\* handle_fill keeps it known.
LEMMA FillsKnown ==
    ASSUME NEW t, Caches(pscl), AllKnown(t, pscl),
           NEW level \in 1 .. pt_levels - 1, NEW addr \in Nat, NEW v \in VPage,
           TableKey(v, level) \in DOMAIN t, addr = EntryIn(t[TableKey(v, level)], v, level),
           page_size < PAGE_SIZE => InTables(t, addr)
    PROVE  Caches(FillCaches(level, addr, v)) /\ AllKnown(t, FillCaches(level, addr, v))
<1>0. pt_levels \in Nat
  BY SizeAssumption
<1>1. CASE level = 1
  <2> DEFINE p == FillCache(pscl, 2, addr, v)
  <2>1. 2 \in PSCLLevel /\ 2 <= pt_levels /\ 1 \in PSCLLevel /\ 1 <= pt_levels
    BY <1>0, <1>1 DEF PSCLLevel
  <2>2. Caches(p) /\ AllKnown(t, p)
    BY <2>1, FillKnown
  <2> HIDE DEF p
  <2>3. Caches(FillCache(p, 1, addr, v)) /\ AllKnown(t, FillCache(p, 1, addr, v))
    BY <1>1, <2>1, <2>2, FillKnown
  <2> QED
    BY <1>1, <2>3 DEF FillCaches, p
<1>2. CASE level \in {3, 4}
  <2>1. level \in PSCLLevel /\ level <= pt_levels /\ level # 1
    BY <1>0, <1>2 DEF PSCLLevel
  <2>2. Caches(FillCache(pscl, level, addr, v)) /\ AllKnown(t, FillCache(pscl, level, addr, v))
    BY <2>1, FillKnown
  <2> QED
    BY <1>2, <2>1, <2>2 DEF FillCaches
<1>3. CASE level # 1 /\ level \notin {3, 4}
  BY <1>3 DEF FillCaches
<1> QED
  BY <1>1, <1>2, <1>3

LEMMA FirstIn ==
    ASSUME NEW T \in SUBSET Nat, T # {}
    PROVE  First(T) \in T
<1>1. \E i \in T : \A j \in T : i <= j
  BY LeastNatural
<1> QED
  BY <1>1 DEF First

\* A walk starts in a page that holds a table.
LEMMA StartsInTable ==
    ASSUME Caches(pscl), AllKnown(page_table, pscl), NEW v \in VPage,
           CR3_addr \in Nat, page_size < PAGE_SIZE => InTables(page_table, CR3_addr)
    PROVE  /\ Start(v).addr \in Nat
           /\ Start(v).level \in 0 .. pt_levels - 1
           /\ page_size < PAGE_SIZE => InTables(page_table, Start(v).addr)
<1> DEFINE hits == {l \in PSCLLevel : HitWays(l, v) # {}}
           read(table, k) == InPage(table, get_offset(v, k) * PTE_BYTES)
<1>1. /\ v \in Nat /\ pt_levels \in Nat \ {0} /\ PTE_BYTES \in Nat
  BY SizeAssumption
<1>2. ASSUME NEW table \in Nat, NEW k \in 0 .. 5 + pt_levels
      PROVE  read(table, k) \in Nat /\ Frame(read(table, k)) = Frame(table)
  <2>1. get_offset(v, k) \in Nat
    BY <1>1, Shifts
  <2>2. get_offset(v, k) * PTE_BYTES \in Nat
    BY <1>1, <2>1, Product
  <2> QED
    BY <2>2, SamePage
<1> HIDE DEF read
<1>3. CASE hits = {}
  <2>1. Start(v) = [addr |-> read(CR3_addr, pt_levels - 1), level |-> pt_levels - 1]
    BY <1>3 DEF Start, read
  <2>2. pt_levels - 1 \in 0 .. 5 + pt_levels /\ pt_levels - 1 \in 0 .. pt_levels - 1
    BY <1>1
  <2>3. read(CR3_addr, pt_levels - 1) \in Nat
        /\ Frame(read(CR3_addr, pt_levels - 1)) = Frame(CR3_addr)
    BY <1>2, <2>2
  <2> QED
    BY <2>1, <2>2, <2>3 DEF InTables
<1>4. CASE hits # {}
  <2> DEFINE l == First(hits)
             s == SetIdx(l, v)
             w == First(HitWays(l, v))
             b == pscl[l][s][w]
  <2>1. l \in PSCLLevel /\ HitWays(l, v) # {}
    <3>1. hits \in SUBSET Nat
      BY DEF PSCLLevel
    <3>2. l \in hits
      BY <1>4, <3>1, FirstIn
    <3> QED
      BY <3>2
  <2>2. Start(v) = [addr |-> read(b.data, l), level |-> l - 1]
    BY <1>4 DEF Start, read
  <2> HIDE DEF l
  <2>3. w \in Ways(l) /\ b.valid
    <3>1. HitWays(l, v) \in SUBSET Nat
      BY DEF HitWays
    <3>2. w \in HitWays(l, v)
      BY <2>1, <3>1, FirstIn
    <3> HIDE DEF w
    <3> QED
      BY <3>2 DEF HitWays, Ways
  <2>4. s \in Sets(l)
    BY <2>1, SetsOfCaches DEF Sets
  <2> HIDE DEF w, s
  <2>5. b \in Block
    BY <2>1, <2>3, <2>4 DEF Caches
  <2>6. Known(page_table, l, b)
    BY <2>1, <2>3, <2>4 DEF AllKnown
  <2> HIDE DEF b
  <2>7. b.data \in Nat /\ l \in 0 .. 5 + pt_levels /\ l - 1 \in 0 .. pt_levels - 1
    BY <1>1, <2>1, <2>5, <2>6 DEF Block, Known, PSCLLevel
  <2>8. read(b.data, l) \in Nat /\ Frame(read(b.data, l)) = Frame(b.data)
    BY <1>2, <2>7
  <2> QED
    BY <2>2, <2>6, <2>7, <2>8 DEF InTables, Known
<1> QED
  BY <1>3, <1>4

-----------------------------------------------------------------------------
\* What is owed by the cache below.

Owed(bag) == IsABag(bag) /\ BagToSet(bag) \subseteq Nat

LEMMA OneMoreOwed ==
    ASSUME NEW bag, Owed(bag), NEW b \in Nat
    PROVE  /\ Owed(bag (+) SetToBag({b}))
           /\ BagIn(b, bag (+) SetToBag({b}))
           /\ \A c : BagIn(c, bag) => BagIn(c, bag (+) SetToBag({b}))
<1> DEFINE one == SetToBag({b})
           sum == bag (+) one
<1>1. /\ \A e \in DOMAIN bag : bag[e] \in Nat /\ bag[e] > 0
      /\ DOMAIN bag \subseteq Nat
  BY DEF Owed, IsABag, BagToSet
<1>2. DOMAIN one = {b} /\ one[b] = 1
  BY DEF SetToBag
<1> HIDE DEF one
<1>3. sum = [e \in DOMAIN bag \cup DOMAIN one |->
                (IF e \in DOMAIN bag THEN bag[e] ELSE 0)
                    + (IF e \in DOMAIN one THEN one[e] ELSE 0)]
  BY DEF (+)
<1> HIDE DEF sum
<1>4. DOMAIN sum = DOMAIN bag \cup {b}
  BY <1>2, <1>3
<1>5. ASSUME NEW e \in DOMAIN sum PROVE sum[e] \in Nat /\ sum[e] > 0
  <2>1. CASE e = b
    BY <2>1, <1>1, <1>2, <1>3
  <2>2. CASE e # b /\ e \in DOMAIN bag
    BY <2>2, <1>1, <1>2, <1>3
  <2> QED
    BY <2>1, <2>2, <1>4
<1>6. sum = [e \in DOMAIN sum |-> sum[e]]
  BY <1>3
<1>7. IsABag(sum)
  BY <1>5, <1>6 DEF IsABag
<1> QED
  BY <1>1, <1>4, <1>7 DEF Owed, BagToSet, BagIn, one, sum

LEMMA OneLessOwed ==
    ASSUME NEW bag, Owed(bag), NEW b
    PROVE  /\ Owed(bag (-) SetToBag({b}))
           /\ \A c : c # b /\ BagIn(c, bag) => BagIn(c, bag (-) SetToBag({b}))
<1> DEFINE one == SetToBag({b})
           left == [e \in DOMAIN bag |-> IF e \in DOMAIN one THEN bag[e] - one[e] ELSE bag[e]]
           diff == bag (-) one
<1>1. /\ \A e \in DOMAIN bag : bag[e] \in Nat /\ bag[e] > 0
      /\ DOMAIN bag \subseteq Nat
  BY DEF Owed, IsABag, BagToSet
<1>2. DOMAIN one = {b} /\ one[b] = 1
  BY DEF SetToBag
<1>3. diff = [e \in {d \in DOMAIN left : left[d] > 0} |-> left[e]]
  BY DEF (-)
<1> HIDE DEF one, diff
<1>4. DOMAIN left = DOMAIN bag /\ \A e \in DOMAIN bag : left[e] \in Int /\ (e # b => left[e] = bag[e])
  BY <1>1, <1>2
<1> HIDE DEF left
<1>5. /\ DOMAIN diff \subseteq DOMAIN bag
      /\ \A c : c # b /\ c \in DOMAIN bag => c \in DOMAIN diff
      /\ \A e \in DOMAIN diff : diff[e] \in Nat /\ diff[e] > 0
      /\ diff = [e \in DOMAIN diff |-> diff[e]]
  BY <1>1, <1>3, <1>4
<1>6. IsABag(diff)
  BY <1>5 DEF IsABag
<1> QED
  BY <1>1, <1>5, <1>6 DEF Owed, BagToSet, BagIn, one, diff

LEMMA Blocks ==
    ASSUME NEW a \in Nat
    PROVE  BlockOf(a) \in Nat
BY WalkerAssumption, Division DEF BlockOf

\* add_rq adds an answer that is owed, or joins one.
LEMMA Asking ==
    ASSUME Owed(asked), NEW a \in Nat, Ask(a)
    PROVE  /\ Owed(asked')
           /\ BagIn(BlockOf(a), asked')
           /\ \A c : BagIn(c, asked) => BagIn(c, asked')
<1>1. BlockOf(a) \in Nat
  BY Blocks
<1>2. CASE asked' = asked (+) SetToBag({BlockOf(a)})
  <2> DEFINE more == asked (+) SetToBag({BlockOf(a)})
  <2>1. /\ Owed(more) /\ BagIn(BlockOf(a), more)
        /\ \A c : BagIn(c, asked) => BagIn(c, more)
    BY <1>1, OneMoreOwed
  <2>2. asked' = more
    BY <1>2
  <2> HIDE DEF more
  <2> QED
    BY <2>1, <2>2
<1>3. CASE BagIn(BlockOf(a), asked) /\ UNCHANGED asked
  BY <1>3
<1> QED
  BY <1>2, <1>3 DEF Ask

-----------------------------------------------------------------------------
\* The inductive invariant of the walks.

ListInv ==
    /\ RQ \in Seq(VPage) /\ Len(RQ) <= RQ_SIZE
    /\ MSHR \in Seq(Walk) /\ Len(MSHR) <= MSHR_SIZE
    /\ DueSorted(MSHR)

CacheInv ==
    /\ Caches(pscl) /\ AllKnown(page_table, pscl)
    /\ CR3_addr \in Nat
    /\ page_size < PAGE_SIZE => InTables(page_table, CR3_addr)

\* A read of a table never finds a store of the same address below.
NeverForwards == page_size < PAGE_SIZE \/ ~ DataWrites

OwedInv ==
    /\ Owed(asked)
    /\ \A w \in Walks(MSHR) : w.state = "asked" => BagIn(BlockOf(w.addr), asked) \/ w.forwarded
    /\ NeverForwards => \A w \in Walks(MSHR) : w.state = "asked" => BagIn(BlockOf(w.addr), asked)

AboveInv ==
    /\ warm \in BOOLEAN
    /\ pending \subseteq VPage
    /\ requests \in 0 .. MaxRequests

WalkInv == IInv /\ ListInv /\ CacheInv /\ OwedInv /\ AboveInv

LEMMA InitWalkInv == Init => WalkInv
<1> SUFFICES ASSUME Init PROVE WalkInv
  OBVIOUS
<1>1. /\ {MSHR_SIZE, RQ_SIZE, BLOCK_SIZE, MaxRequests} \subseteq Nat \ {0}
      /\ {PSCLSets, PSCLWays} \subseteq [PSCLLevel -> Nat \ {0}]
  BY WalkerAssumption
<1>2. IInv
  BY InitIInv
<1>3. ListInv
  <2>1. RQ = <<>> /\ MSHR = <<>> /\ Len(<<>>) = 0
    BY DEF Init
  <2>2. \A S : <<>> \in Seq(S)
    OBVIOUS
  <2>3. DueSorted(<<>>)
    BY DEF DueSorted
  <2> QED
    BY <1>1, <2>1, <2>2, <2>3 DEF ListInv
<1>4. Caches(pscl) /\ \A l \in PSCLLevel : \A s \in Sets(l) : \A w \in Ways(l) :
                          ~ pscl[l][s][w].valid
  <2>1. pscl = [l \in PSCLLevel |-> [s \in 0 .. PSCLSets[l] - 1 |->
                                        [w \in 1 .. PSCLWays[l] |-> Unused]]]
    BY DEF Init
  <2>2. Unused \in Block /\ ~ Unused.valid
    BY DEF Unused, Block, InitialLru
  <2>3. ASSUME NEW l \in PSCLLevel
        PROVE  /\ pscl[l] = [s \in Sets(l) |-> [w \in Ways(l) |-> Unused]]
               /\ pscl[l] \in [Sets(l) -> [Ways(l) -> Block]]
    BY <2>1, <2>2 DEF Sets, Ways
  <2>4. pscl = [l \in PSCLLevel |-> pscl[l]]
    BY <2>1
  <2> QED
    BY <2>2, <2>3, <2>4 DEF Caches
<1>5. CacheInv
  <2>1. PICK f \in FreeLists : /\ CR3_addr = Head(f)
                               /\ page_table = Insert(<<>>, TableKey(0, pt_levels), Head(f))
    BY DEF Init
  <2>2. Listed(f) /\ f # <<>>
    BY FreeListIsListed
  <2>3. CR3_addr \in Nat
    BY <2>1, <2>2, TakeFirst DEF Aligned
  <2>4. /\ TableKey(0, pt_levels) \in DOMAIN page_table
        /\ page_table[TableKey(0, pt_levels)] = CR3_addr
    BY <2>1 DEF Insert
  <2>5. InTables(page_table, CR3_addr)
    BY <2>4 DEF InTables
  <2> QED
    BY <1>4, <2>3, <2>5 DEF CacheInv, AllKnown
<1>6. OwedInv
  <2>1. Owed(EmptyBag)
    <3>1. DOMAIN EmptyBag = {} /\ EmptyBag = [e \in {} |-> 1]
      BY DEF EmptyBag, SetToBag
    <3> QED
      BY <3>1 DEF Owed, IsABag, BagToSet
  <2>2. Walks(MSHR) = {}
    <3>1. MSHR = <<>> /\ Len(<<>>) = 0
      BY DEF Init
    <3> QED
      BY <3>1 DEF Walks
  <2> QED
    BY <2>1, <2>2 DEF Init, OwedInv
<1>7. AboveInv
  <2>1. 0 \in 0 .. MaxRequests
    BY <1>1
  <2> QED
    BY <2>1 DEF Init, AboveInv
<1> QED
  BY <1>2, <1>3, <1>5, <1>6, <1>7 DEF WalkInv

\* get_pte_pa makes the table, if it was not there, and returns its entry.
LEMMA TableMade ==
    ASSUME IInv, NEW v \in VPage, NEW level \in 0 .. pt_levels, get_pte_pa(v, level)
    PROVE  /\ DOMAIN page_table \subseteq DOMAIN page_table'
           /\ \A k \in DOMAIN page_table : page_table'[k] = page_table[k]
           /\ TableKey(v, level) \in DOMAIN page_table'
           /\ PtePa(v, level) = EntryIn(page_table'[TableKey(v, level)], v, level)
           /\ PtePa(v, level) \in Nat
           /\ page_size < PAGE_SIZE => InTables(page_table', PtePa(v, level))
<1> DEFINE key == TableKey(v, level)
           t == Table(v, level)
<1>1. /\ DOMAIN page_table \subseteq DOMAIN page_table'
      /\ \A k \in DOMAIN page_table : page_table'[k] = page_table[k]
      /\ key \in DOMAIN page_table' /\ page_table'[key] = t
      /\ Aligned(t)
  <2>1. CASE ~ TableFault(v, level)
    <3>1. page_table' = page_table /\ key \in DOMAIN page_table /\ t = page_table[key]
      BY <2>1 DEF get_pte_pa, TableFault, Table
    <3> HIDE DEF key, t
    <3> QED
      BY <3>1 DEF IInv
  <2>2. CASE TableFault(v, level)
    <3>1. /\ page_table' = Insert(page_table, key, next_pte_page)
          /\ key \notin DOMAIN page_table /\ t = next_pte_page
      BY <2>2 DEF get_pte_pa, TableFault, Table
    <3> HIDE DEF key, t
    <3> QED
      BY <3>1 DEF IInv, Insert
  <2> QED
    BY <2>1, <2>2
<1>2. PtePa(v, level) = EntryIn(t, v, level)
  BY DEF PtePa
<1>3. v \in Nat /\ level \in 0 .. 5 + pt_levels
  BY SizeAssumption
<1> HIDE DEF key, t
<1>4. /\ EntryIn(t, v, level) \in Nat
      /\ page_size < PAGE_SIZE => Frame(EntryIn(t, v, level)) = Frame(t)
  BY <1>1, <1>3, Entry
<1>5. page_size < PAGE_SIZE => InTables(page_table', PtePa(v, level))
  BY <1>1, <1>2, <1>4 DEF InTables
<1> QED
  BY <1>1, <1>2, <1>4, <1>5 DEF key

\* Where no page holds tables and data, or none is written, no store answers a
\* walk.
LEMMA NotForwarded ==
    ASSUME NeverForwards, NEW t, NEW a,
           page_size < PAGE_SIZE => InTables(t, a),
           page_size < PAGE_SIZE =>
               \A k \in DOMAIN t, v \in DOMAIN vpage_to_ppage_map :
                   Frame(t[k]) # Frame(vpage_to_ppage_map[v])
    PROVE  ~ Forwards(a)
<1>1. CASE DataWrites
  <2>1. page_size < PAGE_SIZE
    BY <1>1 DEF NeverForwards
  <2> QED
    BY <2>1 DEF InTables, Forwards
<1>2. CASE ~ DataWrites
  BY <1>2 DEF Forwards
<1> QED
  BY <1>1, <1>2

\* What a walk that asks and joins the list, or the answer that it gets at once,
\* leaves of what is owed.
LEMMA AskedOwed ==
    ASSUME OwedInv, NEW m \in Seq(Walk), Walks(m) \subseteq Walks(MSHR), DueSorted(m),
           NEW w \in Walk, w.state = "asked",
           \/ Ask(w.addr) /\ MSHR' = Append(m, w)
           \/ /\ Forwards(w.addr) /\ w.forwarded /\ UNCHANGED asked
              /\ MSHR' = Append(Wake(m, BlockOf(w.addr)), w),
           NeverForwards => ~ Forwards(w.addr)
    PROVE  /\ OwedInv'
           /\ MSHR' \in Seq(Walk) /\ Len(MSHR') <= Len(m) + 1
           /\ DueSorted(MSHR')
<1>0. w.addr \in Nat /\ Len(m) \in Nat
  BY DEF Walk
<1>1. CASE Ask(w.addr) /\ MSHR' = Append(m, w)
  <2> DEFINE n == Append(m, w)
  <2>1. /\ n \in Seq(Walk) /\ Len(n) = Len(m) + 1 /\ DueSorted(n)
        /\ Walks(n) = Walks(m) \cup {w}
    BY AddedList
  <2>2. /\ Owed(asked') /\ BagIn(BlockOf(w.addr), asked')
        /\ \A c : BagIn(c, asked) => BagIn(c, asked')
    BY <1>0, <1>1, Asking DEF OwedInv
  <2>3. MSHR' = n
    BY <1>1
  <2> HIDE DEF n
  <2>4. ASSUME NeverForwards, NEW x \in Walks(n), x.state = "asked"
        PROVE  BagIn(BlockOf(x.addr), asked')
    BY <2>1, <2>2, <2>4 DEF OwedInv
  <2>5. \A x \in Walks(MSHR') : NeverForwards /\ x.state = "asked" => BagIn(BlockOf(x.addr), asked')
    BY <2>3, <2>4
  <2>6. MSHR' \in Seq(Walk) /\ Len(MSHR') <= Len(m) + 1 /\ DueSorted(MSHR')
    BY <1>0, <2>1, <2>3
  <2>7. ASSUME NEW x \in Walks(n), x.state = "asked"
        PROVE  BagIn(BlockOf(x.addr), asked') \/ x.forwarded
    BY <2>1, <2>2, <2>7 DEF OwedInv
  <2>8. \A x \in Walks(MSHR') : x.state = "asked" => BagIn(BlockOf(x.addr), asked') \/ x.forwarded
    BY <2>3, <2>7
  <2> QED
    BY <2>2, <2>5, <2>6, <2>8 DEF OwedInv, NeverForwards
<1>2. CASE /\ Forwards(w.addr) /\ w.forwarded /\ UNCHANGED asked
           /\ MSHR' = Append(Wake(m, BlockOf(w.addr)), w)
  <2> DEFINE k == Wake(m, BlockOf(w.addr))
             n == Append(k, w)
  <2>1. /\ k \in Seq(Walk) /\ Len(k) <= Len(m) /\ DueSorted(k)
        /\ \A x \in Walks(k) : x.state = "asked" => x \in Walks(m)
    BY WokenList
  <2> HIDE DEF k
  <2>2. /\ n \in Seq(Walk) /\ Len(n) = Len(k) + 1 /\ DueSorted(n)
        /\ Walks(n) = Walks(k) \cup {w}
    BY <2>1, AddedList
  <2>3. MSHR' = n
    BY <1>2 DEF k
  <2>4. ~ NeverForwards
    BY <1>2
  <2>5. Len(k) \in Nat
    BY <2>1
  <2> HIDE DEF n
  <2>6. MSHR' \in Seq(Walk) /\ Len(MSHR') <= Len(m) + 1 /\ DueSorted(MSHR')
    BY <1>0, <2>1, <2>2, <2>3, <2>5
  <2>7. ASSUME NEW x \in Walks(n), x.state = "asked"
        PROVE  BagIn(BlockOf(x.addr), asked) \/ x.forwarded
    BY <1>2, <2>1, <2>2, <2>7 DEF OwedInv
  <2>8. \A x \in Walks(MSHR') : x.state = "asked" => BagIn(BlockOf(x.addr), asked) \/ x.forwarded
    BY <2>3, <2>7
  <2> QED
    BY <1>2, <2>4, <2>6, <2>8 DEF OwedInv, NeverForwards
<1> QED
  BY <1>1, <1>2

-----------------------------------------------------------------------------
\* One lemma per action.

LEMMA HeadWalk ==
    ASSUME ListInv, MSHR # <<>>
    PROVE  Head(MSHR) \in Walk /\ Head(MSHR) \in Walks(MSHR)
<1>1. /\ Len(MSHR) \in Nat /\ 1 \in 1 .. Len(MSHR) /\ Head(MSHR) = MSHR[1] /\ MSHR[1] \in Walk
  BY DEF ListInv
<1> QED
  BY <1>1 DEF Walks

LEMMA ReadKeeps ==
    ASSUME WalkInv, PagesHaveOneUse, HandleRead
    PROVE  ListInv' /\ CacheInv' /\ OwedInv' /\ AboveInv'
<1> DEFINE v == Head(RQ)
           read(f) == [v |-> v, addr |-> Start(v).addr, level |-> Start(v).level,
                       state |-> "asked", forwarded |-> f]
<1>1. /\ MSHR \in Seq(Walk) /\ Len(MSHR) \in Nat /\ MSHR_SIZE \in Nat
      /\ Len(MSHR) <= MSHR_SIZE /\ Len(MSHR) # MSHR_SIZE /\ DueSorted(MSHR)
      /\ RQ \in Seq(VPage) /\ RQ # <<>> /\ Len(RQ) <= RQ_SIZE
  BY WalkerAssumption DEF HandleRead, MSHRFull, WalkInv, ListInv
<1>2. v \in VPage /\ RQ' \in Seq(VPage) /\ Len(RQ') <= RQ_SIZE
  <2>1. RQ' = Tail(RQ) /\ RQ_SIZE \in Nat
    BY WalkerAssumption DEF HandleRead
  <2> QED
    BY <1>1, <2>1
<1>3. CacheInv' /\ AboveInv'
  BY DEF HandleRead, WalkInv, CacheInv, AboveInv, vmVars
<1>4. \E f \in BOOLEAN :
          \/ Ask(Start(v).addr) /\ MSHR' = Append(MSHR, read(f))
          \/ /\ Forwards(Start(v).addr) /\ f /\ UNCHANGED asked
             /\ MSHR' = Append(Wake(MSHR, BlockOf(Start(v).addr)), read(f))
  BY DEF HandleRead
<1> HIDE DEF v
<1>5. /\ Start(v).addr \in Nat /\ Start(v).level \in 0 .. pt_levels - 1
      /\ page_size < PAGE_SIZE => InTables(page_table, Start(v).addr)
  BY <1>2, StartsInTable DEF WalkInv, CacheInv
<1>6. PICK walk \in Walk :
          /\ walk.state = "asked" /\ walk.addr = Start(v).addr
          /\ \/ Ask(walk.addr) /\ MSHR' = Append(MSHR, walk)
             \/ /\ Forwards(walk.addr) /\ walk.forwarded /\ UNCHANGED asked
                /\ MSHR' = Append(Wake(MSHR, BlockOf(walk.addr)), walk)
  <2>1. PICK f \in BOOLEAN :
            \/ Ask(Start(v).addr) /\ MSHR' = Append(MSHR, read(f))
            \/ /\ Forwards(Start(v).addr) /\ f /\ UNCHANGED asked
               /\ MSHR' = Append(Wake(MSHR, BlockOf(Start(v).addr)), read(f))
    BY <1>4
  <2>2. /\ read(f) \in Walk /\ read(f).state = "asked" /\ read(f).addr = Start(v).addr
        /\ read(f).forwarded = f
    BY <1>2, <1>5 DEF Walk, State
  <2> HIDE DEF read
  <2> QED
    BY <2>1, <2>2
<1>7. NeverForwards => ~ Forwards(walk.addr)
  <2>1. page_size < PAGE_SIZE => InTables(page_table, walk.addr)
    BY <1>5, <1>6
  <2>2. page_size < PAGE_SIZE =>
            \A k \in DOMAIN page_table, u \in DOMAIN vpage_to_ppage_map :
                Frame(page_table[k]) # Frame(vpage_to_ppage_map[u])
    BY DEF PagesHaveOneUse, TablesDistinct
  <2> QED
    BY <2>1, <2>2, NotForwarded
<1>8. OwedInv
  BY DEF WalkInv
<1>9. OwedInv' /\ MSHR' \in Seq(Walk) /\ Len(MSHR') <= Len(MSHR) + 1 /\ DueSorted(MSHR')
  BY <1>1, <1>6, <1>7, <1>8, AskedOwed
<1>10. Len(MSHR') <= MSHR_SIZE
  <2>1. Len(MSHR') \in Nat
    BY <1>9
  <2> QED
    BY <2>1, <1>1, <1>9
<1> QED
  BY <1>2, <1>3, <1>9, <1>10 DEF ListInv

\* A step that leaves no walk waiting that did not wait before.
LEMMA FewerWait ==
    ASSUME OwedInv, UNCHANGED asked,
           \A w \in Walks(MSHR') : w.state = "asked" => w \in Walks(MSHR)
    PROVE  OwedInv'
BY DEF OwedInv, NeverForwards

LEMMA TranslateKeeps ==
    ASSUME WalkInv, Translate
    PROVE  ListInv' /\ CacheInv' /\ OwedInv' /\ AboveInv'
<1>1. /\ MSHR # <<>> /\ MSHR \in Seq(Walk) /\ DueSorted(MSHR)
      /\ Len(MSHR) \in Nat /\ Len(MSHR) <= MSHR_SIZE /\ MSHR_SIZE \in Nat
  BY WalkerAssumption DEF Translate, WalkInv, ListInv
<1>2. UNCHANGED <<RQ, pscl, CR3_addr, asked, warm, requests, page_table>>
  BY DEF Translate, va_to_pa
<1>3. CacheInv'
  BY <1>2 DEF WalkInv, CacheInv
<1>4. \/ MSHR' = Penalised(MSHR) /\ UNCHANGED pending
      \/ \E v : MSHR' = Tail(MSHR) /\ pending' = pending \ {v}
  BY DEF Translate
<1>5. AboveInv'
  BY <1>2, <1>4 DEF WalkInv, AboveInv
<1>6. /\ MSHR' \in Seq(Walk) /\ Len(MSHR') <= MSHR_SIZE /\ DueSorted(MSHR')
      /\ \A w \in Walks(MSHR') : w.state = "asked" => w \in Walks(MSHR)
  <2>1. CASE MSHR' = Penalised(MSHR)
    <3> DEFINE n == Penalised(MSHR)
    <3>1. /\ n \in Seq(Walk) /\ Len(n) <= Len(MSHR) /\ DueSorted(n)
          /\ \A w \in Walks(n) : w.state = "asked" => w \in Walks(MSHR)
      BY <1>1, PenalisedList
    <3>2. MSHR' = n
      BY <2>1
    <3> HIDE DEF n
    <3>3. Len(n) \in Nat
      BY <3>1
    <3> QED
      BY <1>1, <3>1, <3>2, <3>3
  <2>2. CASE MSHR' = Tail(MSHR)
    <3> DEFINE n == Tail(MSHR)
    <3>1. /\ n \in Seq(Walk) /\ Len(n) + 1 = Len(MSHR) /\ DueSorted(n)
          /\ Walks(n) \subseteq Walks(MSHR)
      BY <1>1, TailList
    <3>2. MSHR' = n
      BY <2>2
    <3> HIDE DEF n
    <3>3. Len(n) \in Nat
      BY <3>1
    <3> QED
      BY <1>1, <3>1, <3>2, <3>3
  <2> QED
    BY <1>4, <2>1, <2>2
<1>7. OwedInv'
  BY <1>2, <1>6, FewerWait DEF WalkInv
<1> QED
  BY <1>2, <1>3, <1>5, <1>6, <1>7 DEF WalkInv, ListInv

\* A walk goes on with the entry of the next table.
Lowered(e, b, f) ==
    [e EXCEPT !.addr = b, !.level = @ - 1, !.state = "asked", !.forwarded = f]

LEMMA LowerWalk ==
    ASSUME NEW e \in Walk, NEW b \in Nat, NEW f \in BOOLEAN,
           e.level \in 1 .. pt_levels - 1, pt_levels \in Nat
    PROVE  /\ Lowered(e, b, f) \in Walk /\ Lowered(e, b, f).state = "asked"
           /\ Lowered(e, b, f).addr = b /\ Lowered(e, b, f).forwarded = f
<1> DEFINE c == e.level - 1
           r == [v |-> e.v, addr |-> b, level |-> c, state |-> "asked", forwarded |-> f]
<1>1. [e EXCEPT !.addr = b, !.level = c, !.state = "asked", !.forwarded = f]
      = [[[[e EXCEPT !.addr = b] EXCEPT !.level = c] EXCEPT !.state = "asked"]
            EXCEPT !.forwarded = f]
  OBVIOUS
<1>2. c \in 0 .. pt_levels - 1
  OBVIOUS
<1> HIDE DEF c
<1>3. [e EXCEPT !.addr = b]
      = [v |-> e.v, addr |-> b, level |-> e.level, state |-> e.state, forwarded |-> e.forwarded]
  BY DEF Walk
<1>4. [[v |-> e.v, addr |-> b, level |-> e.level, state |-> e.state, forwarded |-> e.forwarded]
          EXCEPT !.level = c]
      = [v |-> e.v, addr |-> b, level |-> c, state |-> e.state, forwarded |-> e.forwarded]
  OBVIOUS
<1>5. [[v |-> e.v, addr |-> b, level |-> c, state |-> e.state, forwarded |-> e.forwarded]
          EXCEPT !.state = "asked"]
      = [v |-> e.v, addr |-> b, level |-> c, state |-> "asked", forwarded |-> e.forwarded]
  OBVIOUS
<1>6. [[v |-> e.v, addr |-> b, level |-> c, state |-> "asked", forwarded |-> e.forwarded]
          EXCEPT !.forwarded = f] = r
  OBVIOUS
<1>7. r \in Walk /\ r.state = "asked" /\ r.addr = b /\ r.forwarded = f
  BY <1>2 DEF Walk, State
<1> HIDE DEF r
<1>8. [e EXCEPT !.addr = b, !.level = c, !.state = "asked", !.forwarded = f] = r
  BY <1>1, <1>3, <1>4, <1>5, <1>6, Zenon
<1> QED
  BY <1>7, <1>8, Zenon DEF c, Lowered

LEMMA NextTableKeeps ==
    ASSUME WalkInv, PagesHaveOneUse', NEW refused \in BOOLEAN, NextTable(refused)
    PROVE  ListInv' /\ CacheInv' /\ OwedInv' /\ AboveInv'
<1> DEFINE e == Head(MSHR)
           addr == PtePa(e.v, e.level)
           others == Tail(MSHR)
<1>1. /\ MSHR # <<>> /\ MSHR \in Seq(Walk) /\ DueSorted(MSHR)
      /\ Len(MSHR) \in Nat /\ Len(MSHR) <= MSHR_SIZE /\ MSHR_SIZE \in Nat
  BY WalkerAssumption DEF NextTable, WalkInv, ListInv
<1>2. UNCHANGED <<RQ, CR3_addr, warm, pending, requests>>
  BY DEF NextTable
<1>3. AboveInv'
  BY <1>2 DEF WalkInv, AboveInv
<1>4. e \in Walk
  BY <1>1, HeadWalk DEF WalkInv
<1>5. e.level > 0 /\ get_pte_pa(e.v, e.level)
  BY DEF NextTable
<1>6. \/ MSHR' = Penalised(MSHR) /\ UNCHANGED <<pscl, asked>>
      \/ /\ pscl' = FillCaches(e.level, addr, e.v)
         /\ \/ UNCHANGED <<MSHR, asked>>
            \/ Ask(addr) /\ MSHR' = Append(others, Lowered(e, addr, FALSE))
            \/ /\ Forwards(addr) /\ UNCHANGED asked
               /\ MSHR' = Append(Wake(others, BlockOf(addr)), Lowered(e, addr, TRUE))
  BY Zenon DEF NextTable, Lowered
<1> HIDE DEF e
<1>7. pt_levels \in Nat /\ e.v \in VPage /\ e.level \in 1 .. pt_levels - 1 /\ e.level \in 0 .. pt_levels
  BY <1>4, <1>5, SizeAssumption DEF Walk
<1>8. /\ DOMAIN page_table \subseteq DOMAIN page_table'
      /\ \A k \in DOMAIN page_table : page_table'[k] = page_table[k]
      /\ TableKey(e.v, e.level) \in DOMAIN page_table'
      /\ addr = EntryIn(page_table'[TableKey(e.v, e.level)], e.v, e.level)
      /\ addr \in Nat
      /\ page_size < PAGE_SIZE => InTables(page_table', addr)
  BY <1>5, <1>7, TableMade DEF WalkInv
<1> HIDE DEF addr
<1>9. /\ page_size < PAGE_SIZE => InTables(page_table', CR3_addr)
      /\ AllKnown(page_table', pscl)
  BY <1>8, MoreTables DEF WalkInv, CacheInv
<1>10. CacheInv'
  <2>1. CASE UNCHANGED pscl
    BY <2>1, <1>2, <1>9 DEF WalkInv, CacheInv
  <2>2. CASE pscl' = FillCaches(e.level, addr, e.v)
    <3> DEFINE q == FillCaches(e.level, addr, e.v)
    <3>1. Caches(q) /\ AllKnown(page_table', q)
      BY <1>7, <1>8, <1>9, FillsKnown DEF WalkInv, CacheInv
    <3>2. pscl' = q
      BY <2>2
    <3> HIDE DEF q
    <3> QED
      BY <3>1, <3>2, <1>2, <1>9 DEF WalkInv, CacheInv
  <2> QED
    BY <1>6, <2>1, <2>2
<1>11. /\ others \in Seq(Walk) /\ Len(others) + 1 = Len(MSHR) /\ DueSorted(others)
       /\ Walks(others) \subseteq Walks(MSHR)
  BY <1>1, TailList
<1>12. \A f \in BOOLEAN :
           /\ Lowered(e, addr, f) \in Walk /\ Lowered(e, addr, f).state = "asked"
           /\ Lowered(e, addr, f).addr = addr /\ Lowered(e, addr, f).forwarded = f
  BY <1>4, <1>7, <1>8, LowerWalk
<1> HIDE DEF others
<1>13. NeverForwards => ~ Forwards(addr)
  <2>1. page_size < PAGE_SIZE => InTables(page_table', addr)
    BY <1>8
  <2>2. vpage_to_ppage_map' = vpage_to_ppage_map
    BY <1>5 DEF get_pte_pa
  <2>3. page_size < PAGE_SIZE =>
            \A k \in DOMAIN page_table', u \in DOMAIN vpage_to_ppage_map :
                Frame(page_table'[k]) # Frame(vpage_to_ppage_map[u])
    BY <2>2 DEF PagesHaveOneUse, TablesDistinct, Frame
  <2> QED
    BY <2>1, <2>3, NotForwarded
<1>14. OwedInv
  BY DEF WalkInv
<1>15. OwedInv' /\ MSHR' \in Seq(Walk) /\ Len(MSHR') <= MSHR_SIZE /\ DueSorted(MSHR')
  <2>1. CASE MSHR' = Penalised(MSHR) /\ UNCHANGED <<pscl, asked>>
    <3> DEFINE n == Penalised(MSHR)
    <3>1. /\ n \in Seq(Walk) /\ Len(n) <= Len(MSHR) /\ DueSorted(n)
          /\ \A w \in Walks(n) : w.state = "asked" => w \in Walks(MSHR)
      BY <1>1, PenalisedList
    <3>2. MSHR' = n
      BY <2>1
    <3> HIDE DEF n
    <3>3. Len(n) \in Nat
      BY <3>1
    <3> QED
      BY <1>1, <1>14, <2>1, <3>1, <3>2, <3>3, FewerWait
  <2>2. CASE UNCHANGED <<MSHR, asked>>
    BY <1>1, <1>14, <2>2 DEF OwedInv, NeverForwards
  <2>3. CASE \E walk \in Walk :
                 /\ walk.state = "asked" /\ walk.addr = addr
                 /\ \/ Ask(walk.addr) /\ MSHR' = Append(others, walk)
                    \/ /\ Forwards(walk.addr) /\ walk.forwarded /\ UNCHANGED asked
                       /\ MSHR' = Append(Wake(others, BlockOf(walk.addr)), walk)
    <3>1. /\ OwedInv' /\ MSHR' \in Seq(Walk) /\ Len(MSHR') <= Len(others) + 1
          /\ DueSorted(MSHR')
      BY <1>11, <1>13, <1>14, <2>3, AskedOwed
    <3>2. Len(MSHR') \in Nat
      BY <3>1
    <3> QED
      BY <1>1, <1>11, <3>1, <3>2
  <2>4. CASE Ask(addr) /\ MSHR' = Append(others, Lowered(e, addr, FALSE))
    BY <1>12, <2>3, <2>4
  <2>5. CASE /\ Forwards(addr) /\ UNCHANGED asked
             /\ MSHR' = Append(Wake(others, BlockOf(addr)), Lowered(e, addr, TRUE))
    BY <1>12, <2>3, <2>5
  <2> QED
    BY <1>6, <2>1, <2>2, <2>4, <2>5
<1> QED
  BY <1>2, <1>3, <1>10, <1>15 DEF WalkInv, ListInv

LEMMA PenaltyOverKeeps ==
    ASSUME WalkInv, PenaltyOver
    PROVE  ListInv' /\ CacheInv' /\ OwedInv' /\ AboveInv'
<1>1. /\ MSHR \in Seq(Walk) /\ DueSorted(MSHR) /\ DOMAIN MSHR = 1 .. Len(MSHR)
  BY DEF WalkInv, ListInv
<1>2. UNCHANGED <<vmVars, RQ, pscl, CR3_addr, asked, warm, pending, requests>>
  BY DEF PenaltyOver
<1>3. PICK i \in 1 .. Len(MSHR) :
          /\ \A j \in 1 .. i - 1 : MSHR[j].state = "due"
          /\ MSHR' = [MSHR EXCEPT ![i].state = "due"]
  BY <1>1 DEF PenaltyOver
<1> DEFINE n == [MSHR EXCEPT ![i].state = "due"]
<1>4. /\ n \in Seq(Walk) /\ Len(n) = Len(MSHR) /\ DueSorted(n)
      /\ \A w \in Walks(n) : w.state = "asked" => w \in Walks(MSHR)
  BY <1>1, <1>3, ReleasedList
<1>5. MSHR' = n
  BY <1>3
<1> HIDE DEF n
<1>6. OwedInv'
  BY <1>2, <1>4, <1>5, FewerWait DEF WalkInv
<1> QED
  BY <1>2, <1>4, <1>5, <1>6 DEF WalkInv, ListInv, CacheInv, AboveInv, vmVars

LEMMA AnswerKeeps ==
    ASSUME WalkInv, Answer
    PROVE  ListInv' /\ CacheInv' /\ OwedInv' /\ AboveInv'
<1>1. MSHR \in Seq(Walk) /\ Len(MSHR) \in Nat /\ Len(MSHR) <= MSHR_SIZE /\ MSHR_SIZE \in Nat
  BY WalkerAssumption DEF WalkInv, ListInv
<1>2. UNCHANGED <<vmVars, RQ, pscl, CR3_addr, warm, pending, requests>>
  BY DEF Answer
<1>3. PICK b : asked' = asked (-) SetToBag({b}) /\ MSHR' = Wake(MSHR, b)
  BY DEF Answer
<1> DEFINE n == Wake(MSHR, b)
           less == asked (-) SetToBag({b})
<1>4. /\ n \in Seq(Walk) /\ Len(n) <= Len(MSHR) /\ DueSorted(n)
      /\ \A w \in Walks(n) : w.state = "asked" => w \in Walks(MSHR) /\ BlockOf(w.addr) # b
  BY <1>1, WokenList
<1>5. Owed(less) /\ \A c : c # b /\ BagIn(c, asked) => BagIn(c, less)
  BY OneLessOwed DEF WalkInv, OwedInv
<1>6. MSHR' = n /\ asked' = less
  BY <1>3
<1> HIDE DEF n, less
<1>7. OwedInv'
  BY <1>4, <1>5, <1>6 DEF WalkInv, OwedInv, NeverForwards
<1>8. Len(n) \in Nat
  BY <1>4
<1> QED
  BY <1>1, <1>2, <1>4, <1>6, <1>7, <1>8 DEF WalkInv, ListInv, CacheInv, AboveInv, vmVars

LEMMA AddRqKeeps ==
    ASSUME WalkInv, NEW v \in VPage, AddRq(v)
    PROVE  ListInv' /\ CacheInv' /\ OwedInv' /\ AboveInv'
<1>1. UNCHANGED <<vmVars, MSHR, pscl, CR3_addr, asked, warm>>
  BY DEF AddRq
<1>2. RQ' \in Seq(VPage) /\ Len(RQ') <= RQ_SIZE
  <2>1. /\ RQ \in Seq(VPage) /\ Len(RQ) < RQ_SIZE /\ RQ_SIZE \in Nat /\ Len(RQ) \in Nat
        /\ RQ' = Append(RQ, v)
    BY WalkerAssumption DEF AddRq, WalkInv, ListInv
  <2> QED
    BY <2>1
<1>3. AboveInv'
  <2>1. /\ requests \in 0 .. MaxRequests /\ requests < MaxRequests /\ requests' = requests + 1
        /\ MaxRequests \in Nat
    BY WalkerAssumption DEF AddRq, WalkInv, AboveInv
  <2>2. requests' \in 0 .. MaxRequests
    BY <2>1
  <2> QED
    BY <1>1, <2>2 DEF AddRq, WalkInv, AboveInv
<1>4. OwedInv'
  BY <1>1 DEF WalkInv, OwedInv, NeverForwards
<1> QED
  BY <1>1, <1>2, <1>3, <1>4 DEF WalkInv, ListInv, CacheInv, vmVars

LEMMA StepKeepsWalkInv == WalkInv /\ PagesHaveOneUse /\ PagesHaveOneUse' /\ [Next]_vars => WalkInv'
<1> SUFFICES ASSUME WalkInv, PagesHaveOneUse, PagesHaveOneUse', [Next]_vars PROVE WalkInv'
  OBVIOUS
<1>1. IInv'
  BY StepKeepsIInv DEF WalkInv
<1>2. ListInv' /\ CacheInv' /\ OwedInv' /\ AboveInv'
  <2>1. CASE HandleRead
    BY <2>1, ReadKeeps
  <2>2. CASE Translate
    BY <2>2, TranslateKeeps
  <2>3. CASE \E refused \in BOOLEAN : NextTable(refused)
    BY <2>3, NextTableKeeps
  <2>4. CASE PenaltyOver
    BY <2>4, PenaltyOverKeeps
  <2>5. CASE Answer
    BY <2>5, AnswerKeeps
  <2>6. CASE \E v \in VPage : AddRq(v)
    BY <2>6, AddRqKeeps
  <2>7. CASE FinishWarmup
    <3>1. /\ UNCHANGED <<vmVars, RQ, MSHR, pscl, CR3_addr, asked, pending, requests>>
          /\ warm' = TRUE
      BY <2>7 DEF FinishWarmup
    <3> QED
      BY <3>1 DEF WalkInv, ListInv, CacheInv, OwedInv, AboveInv, vmVars, NeverForwards
  <2>8. CASE UNCHANGED vars
    BY <2>8 DEF WalkInv, ListInv, CacheInv, OwedInv, AboveInv, vars, vmVars, NeverForwards
  <2> QED
    BY <2>1, <2>2, <2>3, <2>4, <2>5, <2>6, <2>7, <2>8 DEF Next, Operate
<1> QED
  BY <1>1, <1>2 DEF WalkInv

-----------------------------------------------------------------------------
\* What the invariant says of the properties.

LEMMA WalkInvTyped == WalkInv => TypeOK
<1> SUFFICES ASSUME WalkInv PROVE TypeOK
  OBVIOUS
<1>1. ASSUME NEW l \in PSCLLevel, NEW s \in DOMAIN pscl[l]
      PROVE  pscl[l][s] \in [1 .. PSCLWays[l] ->
                 [valid : BOOLEAN, v : VPage \cup {0}, data : Nat, lru : Nat]]
  <2>1. pscl[l] \in [Sets(l) -> [Ways(l) -> Block]]
    BY DEF WalkInv, CacheInv, Caches
  <2>2. pscl[l][s] \in [Ways(l) -> Block]
    BY <2>1
  <2> QED
    BY <2>2 DEF Ways, Block
<1> QED
  BY <1>1 DEF WalkInv, ListInv, CacheInv, OwedInv, AboveInv, Owed, TypeOK

LEMMA WalkInvDueFirst == WalkInv => DueFirst
<1> SUFFICES ASSUME WalkInv PROVE DueFirst
  OBVIOUS
<1>1. DueSorted(MSHR) /\ DOMAIN MSHR = 1 .. Len(MSHR)
  BY DEF WalkInv, ListInv
<1> QED
  BY <1>1 DEF DueSorted, DueFirst

LEMMA WaitingWalks ==
    ASSUME WalkInv, NEW w \in Unowed
    PROVE  w \in Walks(MSHR) /\ w.state = "asked" /\ ~ BagIn(BlockOf(w.addr), asked)
<1>1. DOMAIN MSHR = 1 .. Len(MSHR)
  BY DEF WalkInv, ListInv
<1> QED
  BY <1>1 DEF Unowed, Walks

LEMMA WalkInvForwarded == WalkInv => OnlyForwardsAreLost
BY WaitingWalks DEF WalkInv, OwedInv, OnlyForwardsAreLost

LEMMA WalkInvOwed == WalkInv /\ NeverForwards => WaitersAreOwed
BY WaitingWalks DEF WalkInv, OwedInv, WaitersAreOwed

LEMMA WalkInvHolds == WalkInv => PagingCachesHoldTheTable
<1> SUFFICES ASSUME WalkInv, NEW l \in PSCLLevel \ {2}, NEW s \in DOMAIN pscl[l],
                    NEW w \in DOMAIN pscl[l][s], pscl[l][s][w].valid
             PROVE  /\ ~ TableFault(pscl[l][s][w].v, l)
                    /\ pscl[l][s][w].data =
                           EntryIn(page_table[TableKey(pscl[l][s][w].v, l)], pscl[l][s][w].v, l)
  BY DEF PagingCachesHoldTheTable, HoldsTheTable
<1>1. pscl[l] \in [Sets(l) -> [Ways(l) -> Block]]
  BY DEF WalkInv, CacheInv, Caches
<1>2. s \in Sets(l) /\ w \in Ways(l)
  BY <1>1
<1>3. Known(page_table, l, pscl[l][s][w])
  BY <1>2 DEF WalkInv, CacheInv, AllKnown
<1> QED
  BY <1>3 DEF Known, TableFault

LEMMA WalkInvAlways == Spec => []WalkInv
<1>1. WalkInv => PagesHaveOneUse
  BY IInvSeparatesPages DEF WalkInv
<1> QED
  BY <1>1, InitWalkInv, StepKeepsWalkInv, PtwPagesHaveOneUse, PTL DEF Spec

\* The walker's state is what its declarations say: the MSHR and the RQ never
\* hold more than they have room for, a walk's level is one of the table's, and
\* the paging structure caches keep their shape whatever fill_cache replaces.
THEOREM PtwTypeOK == Spec => []TypeOK
BY WalkInvAlways, WalkInvTyped, PTL

\* handle_fill may look at the head of the MSHR alone: return_data, a fault's
\* penalty and its end leave no walk that is due behind one that is not.
THEOREM PtwDueFirst == Spec => []DueFirst
BY WalkInvAlways, WalkInvDueFirst, PTL

\* The paging structure caches of levels 1, 3 and 4 hold what the page table of
\* their level holds, whichever entries handle_fill has replaced.
THEOREM PtwPagingCachesHoldTheTable == Spec => []PagingCachesHoldTheTable
BY WalkInvAlways, WalkInvHolds, PTL

\* A walk in the MSHR that waits is owed an answer by the cache below, or add_rq itself
\* answered its last read, from a store in the WQ below, before handle_read or
\* handle_fill had put the walk where return_data could find it.  No answer, merged
\* read, refusal, fault or re-sorting loses a walk in another way.
THEOREM PtwOnlyForwardsAreLost == Spec => []OnlyForwardsAreLost
BY WalkInvAlways, WalkInvForwarded, PTL

\* With tables smaller than pages, which then hold tables or data but not both, or
\* without stores, nothing is forwarded, and every walk that waits is owed an answer.
COROLLARY PtwApartNothingIsLost ==
    ASSUME page_size < PAGE_SIZE \/ ~ DataWrites
    PROVE  Spec => []WaitersAreOwed
<1>1. NeverForwards
  BY DEF NeverForwards
<1>2. WalkInv => WaitersAreOwed
  BY <1>1, WalkInvOwed
<1> QED
  BY <1>2, WalkInvAlways, PTL
=============================================================================
