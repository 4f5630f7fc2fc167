------------------------ MODULE DramControllerProofs ------------------------
(***************************************************************************)
(* DramController for every geometry, queue size and timing.               *)
(***************************************************************************)
EXTENDS DramController, FiniteSetTheorems, WellFoundedInduction, TLAPS

QueueOf(ch, write) == IF write THEN ch.WQ ELSE ch.RQ

ChannelState ==
    [RQ : SUBSET Packet(DRAM_RQ_SIZE), WQ : SUBSET Packet(DRAM_WQ_SIZE),
     busy : SUBSET BankRequest, row : [Bank -> 0 .. NoRow],
     active : Bank \cup {NoBank}, dbus : Nat, write : BOOLEAN]

\* A slot holds one packet, and a queue one packet of a block.
DistinctPackets(ch) ==
    \A write \in BOOLEAN : \A p, q \in QueueOf(ch, write) :
        p.slot = q.slot \/ p.block = q.block => p = q

OneRequestPerBank(ch) == \A r, x \in ch.busy : r.bank = x.bank => r = x

RequestsHavePackets(ch) ==
    \A r \in ch.busy : \E p \in QueueOf(ch, r.write) :
        /\ p.slot = r.slot /\ p.scheduled
        /\ OpIdx(p.block) = r.bank /\ Row(p.block) = ch.row[r.bank]

PacketsHaveRequests(ch) ==
    \A write \in BOOLEAN : \A p \in QueueOf(ch, write) :
        p.scheduled => \E r \in ch.busy : r.write = write /\ r.slot = p.slot

\* Only the request on the bus may belong to the other mode.
ModeOfRequests(ch) == \A r \in ch.busy : r.bank # ch.active => r.write = ch.write

ActiveIsBusy(ch) == ch.active # NoBank => OnBus(ch) # {}

Good(ch) ==
    /\ ch \in ChannelState
    /\ DistinctPackets(ch)
    /\ OneRequestPerBank(ch)
    /\ RequestsHavePackets(ch)
    /\ PacketsHaveRequests(ch)
    /\ ModeOfRequests(ch)
    /\ ActiveIsBusy(ch)

-----------------------------------------------------------------------------
\* The geometry: every block has its bank and its row.

LEMMA RemainderBounds ==
    ASSUME NEW a \in Nat, NEW n \in Nat \ {0}
    PROVE  a % n \in 0 .. n - 1
OBVIOUS

LEMMA DivisionNatural ==
    ASSUME NEW a \in Nat, NEW n \in Nat \ {0}
    PROVE  a \div n \in Nat
OBVIOUS

LEMMA ProductPositive ==
    ASSUME NEW a \in Nat \ {0}, NEW b \in Nat \ {0}
    PROVE  a * b \in Nat \ {0}
OBVIOUS

LEMMA GeometryOfBlock ==
    ASSUME NEW b \in Block
    PROVE  /\ b \in Nat
           /\ Channel(b) \in Channels
           /\ OpIdx(b) \in Bank
           /\ Row(b) \in 0 .. NoRow
<1>1. /\ DRAM_CHANNELS \in Nat \ {0} /\ DRAM_RANKS \in Nat \ {0} /\ DRAM_BANKS \in Nat \ {0}
      /\ DRAM_COLUMNS \in Nat \ {0} /\ DRAM_ROWS \in Nat \ {0} /\ b \in Nat
  BY GeometryAssumption
<1>2. Channel(b) \in Channels
  BY <1>1, RemainderBounds DEF Channel, Channels
<1>3. BankIn(b) \in 0 .. DRAM_BANKS - 1
  BY <1>1, RemainderBounds, DivisionNatural DEF BankIn
<1>4. /\ DRAM_CHANNELS * DRAM_BANKS \in Nat \ {0}
      /\ (DRAM_CHANNELS * DRAM_BANKS) * DRAM_COLUMNS \in Nat \ {0}
      /\ ((DRAM_CHANNELS * DRAM_BANKS) * DRAM_COLUMNS) * DRAM_RANKS \in Nat \ {0}
  BY <1>1, ProductPositive
<1>5. Rank(b) \in 0 .. DRAM_RANKS - 1
  BY <1>1, <1>4, RemainderBounds, DivisionNatural DEF Rank
<1>6. Row(b) \in 0 .. DRAM_ROWS - 1
  BY <1>1, <1>4, RemainderBounds, DivisionNatural DEF Row
<1>7. OpIdx(b) \in Bank
  <2>1. \A m, r, n, k \in Int : r >= 0 /\ m >= 0 /\ n >= 1 /\ k >= 0 /\ r <= m - 1 /\ k <= n - 1
            => 0 <= r * n + k /\ r * n + k <= m * n - 1
    <3> SUFFICES ASSUME NEW m \in Int, NEW r \in Int, NEW n \in Int, NEW k \in Int,
                        r >= 0, m >= 0, n >= 1, k >= 0, r <= m - 1, k <= n - 1
                 PROVE  0 <= r * n + k /\ r * n + k <= m * n - 1
      OBVIOUS
    <3>1. 0 <= r * n
      OBVIOUS
    <3>2. (m - 1 - r) * n >= 0
      OBVIOUS
    <3>3. (m - 1 - r) * n = m * n - n - r * n
      OBVIOUS
    <3> QED
      BY <3>1, <3>2, <3>3
  <2>2. 0 <= OpIdx(b) /\ OpIdx(b) <= DRAM_RANKS * DRAM_BANKS - 1
    BY <1>1, <1>3, <1>5, <2>1 DEF OpIdx
  <2>3. OpIdx(b) \in Int
    BY <1>1, <1>3, <1>5 DEF OpIdx
  <2> QED
    BY <2>2, <2>3, <1>1 DEF Bank
<1> QED
  BY <1>1, <1>2, <1>6, <1>7 DEF NoRow

LEMMA BanksAreNumbers ==
    /\ NoBank \in Nat /\ NoBank \notin Bank /\ Bank \subseteq Nat
    /\ NoRow \in 0 .. NoRow
BY GeometryAssumption, ProductPositive DEF NoBank, Bank, NoRow

\* Two requests never work on one packet: its block says which bank it needs.
LEMMA OneRequestPerPacket ==
    ASSUME NEW ch, Good(ch), NEW r \in ch.busy, NEW x \in ch.busy,
           r.write = x.write, r.slot = x.slot
    PROVE  r = x
<1>1. PICK p \in QueueOf(ch, r.write) : p.slot = r.slot /\ OpIdx(p.block) = r.bank
  BY DEF Good, RequestsHavePackets
<1>2. PICK q \in QueueOf(ch, r.write) : q.slot = r.slot /\ OpIdx(q.block) = x.bank
  BY DEF Good, RequestsHavePackets
<1>3. r.write \in BOOLEAN
  BY DEF Good, ChannelState, BankRequest
<1>4. p = q
  BY <1>1, <1>2, <1>3 DEF Good, DistinctPackets
<1> QED
  BY <1>1, <1>2, <1>4 DEF Good, OneRequestPerBank

-----------------------------------------------------------------------------
\* The steps of a cycle, one by one.

LEMMA FinishFields ==
    ASSUME NEW ch \in ChannelState
    PROVE  LET d == Finish(ch)
           IN  /\ \A write \in BOOLEAN :
                     QueueOf(d, write)
                        = QueueOf(ch, write) \ Released(ch, QueueOf(ch, write), write)
               /\ d.busy = ch.busy \ Finishing(ch)
               /\ d.row = ch.row /\ d.dbus = ch.dbus /\ d.write = ch.write
               /\ d.active = IF Finishing(ch) = {} THEN ch.active ELSE NoBank
               /\ d \in ChannelState
BY DEF Finish, QueueOf, ChannelState

LEMMA FinishGood ==
    ASSUME NEW ch, Good(ch)
    PROVE  Good(Finish(ch))
<1> DEFINE d == Finish(ch)
<1>1. /\ \A write \in BOOLEAN :
            QueueOf(d, write) = QueueOf(ch, write) \ Released(ch, QueueOf(ch, write), write)
      /\ d.busy = ch.busy \ Finishing(ch)
      /\ d.row = ch.row /\ d.dbus = ch.dbus /\ d.write = ch.write
      /\ d.active = IF Finishing(ch) = {} THEN ch.active ELSE NoBank
      /\ d \in ChannelState
  BY FinishFields DEF Good
<1>2. \A r \in ch.busy : r \in BankRequest /\ r.write \in BOOLEAN
  BY DEF Good, ChannelState, BankRequest
<1>3. \A r \in Finishing(ch) : r \in ch.busy /\ r.bank = ch.active
  BY DEF Finishing, OnBus
<1> HIDE DEF d
<1>4. DistinctPackets(d)
  BY <1>1 DEF Good, DistinctPackets
<1>5. OneRequestPerBank(d)
  BY <1>1 DEF Good, OneRequestPerBank
<1>6. RequestsHavePackets(d)
  <2> SUFFICES ASSUME NEW r \in d.busy
               PROVE  \E p \in QueueOf(d, r.write) :
                         /\ p.slot = r.slot /\ p.scheduled
                         /\ OpIdx(p.block) = r.bank /\ Row(p.block) = d.row[r.bank]
    BY DEF RequestsHavePackets
  <2>1. r \in ch.busy /\ r \notin Finishing(ch) /\ r.write \in BOOLEAN
    BY <1>1, <1>2
  <2>2. PICK p \in QueueOf(ch, r.write) :
            /\ p.slot = r.slot /\ p.scheduled
            /\ OpIdx(p.block) = r.bank /\ Row(p.block) = ch.row[r.bank]
    BY <2>1 DEF Good, RequestsHavePackets
  <2>3. p \notin Released(ch, QueueOf(ch, r.write), r.write)
    <3> SUFFICES ASSUME NEW x \in Finishing(ch), PointsTo(x, p, r.write) PROVE FALSE
      BY DEF Released
    <3>1. x = r
      BY <1>3, <2>1, <2>2, OneRequestPerPacket DEF PointsTo
    <3> QED
      BY <3>1, <2>1
  <2> QED
    BY <1>1, <2>1, <2>2, <2>3
<1>7. PacketsHaveRequests(d)
  <2> SUFFICES ASSUME NEW write \in BOOLEAN, NEW p \in QueueOf(d, write), p.scheduled
               PROVE  \E r \in d.busy : r.write = write /\ r.slot = p.slot
    BY DEF PacketsHaveRequests
  <2>1. p \in QueueOf(ch, write) /\ p \notin Released(ch, QueueOf(ch, write), write)
    BY <1>1
  <2>2. PICK r \in ch.busy : r.write = write /\ r.slot = p.slot
    BY <2>1 DEF Good, PacketsHaveRequests
  <2>3. r \notin Finishing(ch)
    BY <2>1, <2>2 DEF Released, PointsTo
  <2> QED
    BY <2>2, <2>3, <1>1
<1>8. ModeOfRequests(d)
  <2> SUFFICES ASSUME NEW r \in d.busy, r.bank # d.active PROVE r.write = ch.write
    BY <1>1 DEF ModeOfRequests
  <2>1. r.bank # ch.active
    <3>1. CASE Finishing(ch) = {}
      BY <3>1, <1>1
    <3>2. CASE Finishing(ch) # {}
      BY <3>2, <1>1, <1>3 DEF Good, OneRequestPerBank
    <3> QED
      BY <3>1, <3>2
  <2> QED
    BY <2>1, <1>1 DEF Good, ModeOfRequests
<1>9. ActiveIsBusy(d)
  <2> SUFFICES ASSUME d.active # NoBank PROVE OnBus(d) # {}
    BY DEF ActiveIsBusy
  <2>1. Finishing(ch) = {} /\ d.active = ch.active /\ d.busy = ch.busy
    BY <1>1
  <2> QED
    BY <2>1 DEF Good, ActiveIsBusy, OnBus
<1> QED
  BY <1>1, <1>4, <1>5, <1>6, <1>7, <1>8, <1>9 DEF Good, d

\* Nothing is left to finish once a transfer has been finished.
LEMMA NothingLeftToFinish ==
    ASSUME NEW ch, Good(ch)
    PROVE  Finishing(Finish(ch)) = {}
<1> DEFINE d == Finish(ch)
<1>1. /\ d.busy = ch.busy \ Finishing(ch)
      /\ d.active = IF Finishing(ch) = {} THEN ch.active ELSE NoBank
  BY FinishFields DEF Good
<1>2. \A r \in ch.busy : r.bank # NoBank
  BY BanksAreNumbers DEF Good, ChannelState, BankRequest
<1> HIDE DEF d
<1>3. CASE Finishing(ch) = {}
  BY <1>1, <1>3 DEF Finishing, OnBus, d
<1>4. CASE Finishing(ch) # {}
  BY <1>1, <1>2, <1>4 DEF Finishing, OnBus, d
<1> QED
  BY <1>3, <1>4

-----------------------------------------------------------------------------
LEMMA RequestFields ==
    ASSUME NEW ch, Good(ch), NEW r \in ch.busy
    PROVE  r.bank \in Bank /\ r.write \in BOOLEAN /\ r.slot \in Nat /\ r.event \in Int
BY DEF Good, ChannelState, BankRequest

LEMMA PacketFields ==
    ASSUME NEW ch, Good(ch), NEW write \in BOOLEAN, NEW p \in QueueOf(ch, write)
    PROVE  /\ p.slot \in Nat /\ p.block \in Block /\ p.names \subseteq Name
           /\ p.scheduled \in BOOLEAN /\ p.event \in Int
           /\ p \in Packet(DRAM_RQ_SIZE) \/ p \in Packet(DRAM_WQ_SIZE)
<1>1. p \in Packet(DRAM_RQ_SIZE) \/ p \in Packet(DRAM_WQ_SIZE)
  BY DEF Good, ChannelState, QueueOf
<1> QED
  BY <1>1 DEF Packet

\* What happens to a packet when the mode is switched.
UnscheduledPacket(ch, p, write) ==
    IF \E r \in Undone(ch) : PointsTo(r, p, write)
    THEN [p EXCEPT !.scheduled = FALSE, !.event = 0] ELSE p

LEMMA UnscheduledFields ==
    ASSUME NEW ch, NEW write, NEW n, NEW p \in Packet(n)
    PROVE  LET u == UnscheduledPacket(ch, p, write)
           IN  /\ u \in Packet(n)
               /\ u.slot = p.slot /\ u.block = p.block /\ u.names = p.names
               /\ u.scheduled <=> (p.scheduled /\ \A r \in Undone(ch) : ~ PointsTo(r, p, write))
<1> DEFINE u == UnscheduledPacket(ch, p, write)
<1>1. /\ p.slot \in 1 .. n /\ p.block \in Block /\ p.names \in SUBSET Name
      /\ p.scheduled \in BOOLEAN /\ p.event \in Int
  BY DEF Packet
<1>2. CASE \E r \in Undone(ch) : PointsTo(r, p, write)
  <2>1. u = [p EXCEPT !.scheduled = FALSE, !.event = 0]
    BY <1>2 DEF UnscheduledPacket
  <2> HIDE DEF u
  <2>2. /\ u \in Packet(n) /\ u.scheduled = FALSE
        /\ u.slot = p.slot /\ u.block = p.block /\ u.names = p.names
    <3>1. u = [slot |-> p.slot, block |-> p.block, names |-> p.names,
               scheduled |-> FALSE, event |-> 0]
      BY <2>1 DEF Packet
    <3> QED
      BY <3>1, <1>1 DEF Packet
  <2> QED
    BY <1>2, <2>2 DEF u
<1>3. CASE ~ \E r \in Undone(ch) : PointsTo(r, p, write)
  <2>1. u = p
    BY <1>3 DEF UnscheduledPacket
  <2> HIDE DEF u
  <2> QED
    BY <1>3, <2>1 DEF u
<1> QED
  BY <1>2, <1>3

LEMMA TurnedNatural ==
    ASSUME NEW ch, Good(ch), Finishing(ch) = {}
    PROVE  Turned(ch) \in Nat
<1>1. DRAM_DBUS_TURN_AROUND_TIME \in Nat
  BY TimingAssumption
<1>2. CASE OnBus(ch) = {}
  BY <1>1, <1>2 DEF Turned
<1>3. CASE OnBus(ch) # {}
  <2> DEFINE r == CHOOSE r \in OnBus(ch) : TRUE
  <2>1. r \in OnBus(ch)
    BY <1>3
  <2>2. r.event \in Int /\ ~ (r.event <= 0)
    BY <2>1, RequestFields DEF OnBus, Finishing
  <2>3. Turned(ch) = DRAM_DBUS_TURN_AROUND_TIME + r.event
    BY <1>3 DEF Turned
  <2> QED
    BY <1>1, <2>2, <2>3
<1> QED
  BY <1>2, <1>3

LEMMA SwitchFields ==
    ASSUME NEW ch, Good(ch), Finishing(ch) = {}, Unbalanced(ch)
    PROVE  LET d == SwitchMode(ch)
           IN  /\ \A write \in BOOLEAN :
                     QueueOf(d, write) = {UnscheduledPacket(ch, p, write) : p \in QueueOf(ch, write)}
               /\ d.busy = ch.busy \ Undone(ch)
               /\ d.row = [b \in Bank |-> IF \E r \in Undone(ch) : r.bank = b /\ r.event < tCAS
                                          THEN NoRow ELSE ch.row[b]]
               /\ d.dbus = Turned(ch) /\ d.write = ~ ch.write /\ d.active = ch.active
               /\ d \in ChannelState
<1> DEFINE d == SwitchMode(ch)
           row == [b \in Bank |-> IF \E r \in Undone(ch) : r.bank = b /\ r.event < tCAS
                                  THEN NoRow ELSE ch.row[b]]
<1>1. ch \in ChannelState
  BY DEF Good
<1>2. /\ d.RQ = {UnscheduledPacket(ch, p, FALSE) : p \in ch.RQ}
      /\ d.WQ = {UnscheduledPacket(ch, p, TRUE) : p \in ch.WQ}
      /\ d.busy = ch.busy \ Undone(ch)
      /\ d.row = row
      /\ d.dbus = Turned(ch) /\ d.write = ~ ch.write /\ d.active = ch.active
      /\ d = [RQ |-> d.RQ, WQ |-> d.WQ, busy |-> d.busy, row |-> d.row, active |-> d.active,
              dbus |-> d.dbus, write |-> d.write]
  BY <1>1 DEF SwitchMode, ChannelState, Unscheduled, UnscheduledPacket
<1> HIDE DEF d
<1>3. d.RQ \subseteq Packet(DRAM_RQ_SIZE)
  <2>1. \A p \in ch.RQ : p \in Packet(DRAM_RQ_SIZE)
    BY <1>1 DEF ChannelState
  <2>2. \A p \in ch.RQ : UnscheduledPacket(ch, p, FALSE) \in Packet(DRAM_RQ_SIZE)
    BY <2>1, UnscheduledFields
  <2> QED
    BY <1>2, <2>2
<1>4. d.WQ \subseteq Packet(DRAM_WQ_SIZE)
  <2>1. \A p \in ch.WQ : p \in Packet(DRAM_WQ_SIZE)
    BY <1>1 DEF ChannelState
  <2>2. \A p \in ch.WQ : UnscheduledPacket(ch, p, TRUE) \in Packet(DRAM_WQ_SIZE)
    BY <2>1, UnscheduledFields
  <2> QED
    BY <1>2, <2>2
<1>5. row \in [Bank -> 0 .. NoRow]
  BY <1>1, BanksAreNumbers DEF ChannelState
<1>6. d.busy \subseteq BankRequest /\ d.active \in Bank \cup {NoBank} /\ d.write \in BOOLEAN
  BY <1>1, <1>2 DEF ChannelState
<1>7. d.dbus \in Nat
  BY <1>2, TurnedNatural
<1> HIDE DEF row
<1>8. d \in ChannelState
  BY <1>2, <1>3, <1>4, <1>5, <1>6, <1>7 DEF ChannelState
<1>9. \A write \in BOOLEAN :
          QueueOf(d, write) = {UnscheduledPacket(ch, p, write) : p \in QueueOf(ch, write)}
  BY <1>2 DEF QueueOf
<1> QED
  BY <1>2, <1>8, <1>9 DEF d, row

\* A switch of modes undoes what waits for the bus and nothing else.
LEMMA SwitchGood ==
    ASSUME NEW ch, Good(ch), Finishing(ch) = {}
    PROVE  Good(SwitchMode(ch))
<1> DEFINE d == SwitchMode(ch)
<1>0. CASE ~ Unbalanced(ch)
  BY <1>0 DEF SwitchMode
<1>a. CASE Unbalanced(ch)
  <2>1. /\ \A write \in BOOLEAN :
              QueueOf(d, write) = {UnscheduledPacket(ch, p, write) : p \in QueueOf(ch, write)}
        /\ d.busy = ch.busy \ Undone(ch)
        /\ d.row = [b \in Bank |-> IF \E r \in Undone(ch) : r.bank = b /\ r.event < tCAS
                                   THEN NoRow ELSE ch.row[b]]
        /\ d.active = ch.active
        /\ d \in ChannelState
    BY <1>a, SwitchFields
  <2>2. \A r \in d.busy : r \in ch.busy /\ r.bank = ch.active /\ r \notin Undone(ch)
    BY <2>1 DEF Undone, OnBus
  <2>3. \A r \in Undone(ch) : r \in ch.busy
    BY DEF Undone
  <2>4. \A write \in BOOLEAN : \A p \in QueueOf(ch, write) :
            LET u == UnscheduledPacket(ch, p, write)
            IN  /\ u.slot = p.slot /\ u.block = p.block
                /\ u.scheduled <=> (p.scheduled /\ \A r \in Undone(ch) : ~ PointsTo(r, p, write))
    BY PacketFields, UnscheduledFields
  <2> HIDE DEF d
  <2>5. DistinctPackets(d)
    <3> SUFFICES ASSUME NEW write \in BOOLEAN,
                        NEW u \in QueueOf(d, write), NEW v \in QueueOf(d, write),
                        u.slot = v.slot \/ u.block = v.block
                 PROVE  u = v
      BY DEF DistinctPackets
    <3>1. PICK p \in QueueOf(ch, write) : u = UnscheduledPacket(ch, p, write)
      BY <2>1
    <3>2. PICK q \in QueueOf(ch, write) : v = UnscheduledPacket(ch, q, write)
      BY <2>1
    <3>3. p = q
      BY <2>4, <3>1, <3>2 DEF Good, DistinctPackets
    <3> QED
      BY <3>1, <3>2, <3>3
  <2>6. OneRequestPerBank(d)
    BY <2>1 DEF Good, OneRequestPerBank
  <2>7. RequestsHavePackets(d)
    <3> SUFFICES ASSUME NEW r \in d.busy
                 PROVE  \E p \in QueueOf(d, r.write) :
                           /\ p.slot = r.slot /\ p.scheduled
                           /\ OpIdx(p.block) = r.bank /\ Row(p.block) = d.row[r.bank]
      BY DEF RequestsHavePackets
    <3>1. r \in ch.busy /\ r \notin Undone(ch)
      BY <2>2
    <3>2. PICK p \in QueueOf(ch, r.write) :
              /\ p.slot = r.slot /\ p.scheduled
              /\ OpIdx(p.block) = r.bank /\ Row(p.block) = ch.row[r.bank]
      BY <3>1 DEF Good, RequestsHavePackets
    <3>3. r.write \in BOOLEAN /\ r.bank \in Bank
      BY <3>1, RequestFields
    <3>4. \A x \in Undone(ch) : ~ PointsTo(x, p, r.write)
      <4> SUFFICES ASSUME NEW x \in Undone(ch), PointsTo(x, p, r.write) PROVE FALSE
        OBVIOUS
      <4>1. x = r
        BY <2>3, <3>1, <3>2, OneRequestPerPacket DEF PointsTo
      <4> QED
        BY <4>1, <3>1
    <3>5. \A x \in Undone(ch) : x.bank # r.bank
      BY <2>3, <3>1 DEF Good, OneRequestPerBank
    <3>6. d.row[r.bank] = ch.row[r.bank]
      BY <2>1, <3>3, <3>5
    <3> DEFINE u == UnscheduledPacket(ch, p, r.write)
    <3>7. u \in QueueOf(d, r.write) /\ u.slot = p.slot /\ u.block = p.block /\ u.scheduled
      BY <2>1, <2>4, <3>2, <3>3, <3>4
    <3> QED
      BY <3>2, <3>6, <3>7
  <2>8. PacketsHaveRequests(d)
    <3> SUFFICES ASSUME NEW write \in BOOLEAN, NEW u \in QueueOf(d, write), u.scheduled
                 PROVE  \E r \in d.busy : r.write = write /\ r.slot = u.slot
      BY DEF PacketsHaveRequests
    <3>1. PICK p \in QueueOf(ch, write) : u = UnscheduledPacket(ch, p, write)
      BY <2>1
    <3>2. p.scheduled /\ u.slot = p.slot /\ \A r \in Undone(ch) : ~ PointsTo(r, p, write)
      BY <2>4, <3>1
    <3>3. PICK r \in ch.busy : r.write = write /\ r.slot = p.slot
      BY <3>2 DEF Good, PacketsHaveRequests
    <3>4. r \notin Undone(ch)
      BY <3>2, <3>3 DEF PointsTo
    <3> QED
      BY <2>1, <3>2, <3>3, <3>4
  <2>9. ModeOfRequests(d)
    BY <2>1, <2>2 DEF ModeOfRequests
  <2>10. ActiveIsBusy(d)
    <3>1. OnBus(d) = OnBus(ch)
      BY <2>1 DEF OnBus, Undone
    <3> QED
      BY <2>1, <3>1 DEF Good, ActiveIsBusy
  <2> QED
    BY <2>1, <2>5, <2>6, <2>7, <2>8, <2>9, <2>10 DEF Good, d
<1> QED
  BY <1>0, <1>a

-----------------------------------------------------------------------------
\* A change of times and of names keeps the requests and their packets together.
SamePacket(u, p)  == u.slot = p.slot /\ u.block = p.block /\ u.scheduled = p.scheduled
SameRequest(x, r) == x.bank = r.bank /\ x.write = r.write /\ x.slot = r.slot

LEMMA Retimed ==
    ASSUME NEW ch, NEW d, Good(ch), d \in ChannelState, d.row = ch.row,
           \A write \in BOOLEAN : \A u \in QueueOf(d, write) :
               \E p \in QueueOf(ch, write) : SamePacket(u, p),
           \A write \in BOOLEAN : \A p \in QueueOf(ch, write) :
               \E u \in QueueOf(d, write) : SamePacket(u, p),
           \A x \in d.busy : \E r \in ch.busy : SameRequest(x, r),
           \A r \in ch.busy : \E x \in d.busy : SameRequest(x, r)
    PROVE  RequestsHavePackets(d) /\ PacketsHaveRequests(d)
<1>1. RequestsHavePackets(d)
  <2> SUFFICES ASSUME NEW x \in d.busy
               PROVE  \E u \in QueueOf(d, x.write) :
                         /\ u.slot = x.slot /\ u.scheduled
                         /\ OpIdx(u.block) = x.bank /\ Row(u.block) = d.row[x.bank]
    BY DEF RequestsHavePackets
  <2>1. PICK r \in ch.busy : SameRequest(x, r)
    OBVIOUS
  <2>2. PICK p \in QueueOf(ch, r.write) :
            /\ p.slot = r.slot /\ p.scheduled
            /\ OpIdx(p.block) = r.bank /\ Row(p.block) = ch.row[r.bank]
    BY DEF Good, RequestsHavePackets
  <2>3. PICK u \in QueueOf(d, r.write) : SamePacket(u, p)
    BY RequestFields
  <2>4. x.write = r.write /\ x.bank = r.bank /\ x.slot = r.slot
    BY <2>1 DEF SameRequest
  <2>5. u.slot = p.slot /\ u.block = p.block /\ u.scheduled
    BY <2>2, <2>3 DEF SamePacket
  <2>6. u \in QueueOf(d, x.write) /\ u.slot = x.slot /\ u.scheduled
    BY <2>2, <2>4, <2>5
  <2>7. OpIdx(u.block) = x.bank /\ Row(u.block) = d.row[x.bank]
    BY <2>2, <2>4, <2>5
  <2> QED
    BY <2>6, <2>7
<1>2. PacketsHaveRequests(d)
  <2> SUFFICES ASSUME NEW write \in BOOLEAN, NEW u \in QueueOf(d, write), u.scheduled
               PROVE  \E x \in d.busy : x.write = write /\ x.slot = u.slot
    BY DEF PacketsHaveRequests
  <2>1. PICK p \in QueueOf(ch, write) : SamePacket(u, p)
    OBVIOUS
  <2>2. PICK r \in ch.busy : r.write = write /\ r.slot = p.slot
    BY <2>1 DEF Good, PacketsHaveRequests, SamePacket
  <2>3. PICK x \in d.busy : SameRequest(x, r)
    OBVIOUS
  <2> QED
    BY <2>1, <2>2, <2>3 DEF SamePacket, SameRequest
<1> QED
  BY <1>1, <1>2

LEMMA RequestRetimed ==
    ASSUME NEW r \in BankRequest, NEW e \in Int
    PROVE  /\ [r EXCEPT !.event = e] \in BankRequest
           /\ SameRequest([r EXCEPT !.event = e], r)
           /\ [r EXCEPT !.event = e].event = e
BY DEF BankRequest, SameRequest

LEMMA UseBusFields ==
    ASSUME NEW ch, Good(ch), BusTakers(ch) # {}
    PROVE  LET d == UseBus(ch)
           IN  \E r \in ch.busy :
                  /\ r \in BusTakers(ch)
                  /\ d.RQ = ch.RQ /\ d.WQ = ch.WQ /\ d.row = ch.row
                  /\ d.busy = (ch.busy \ {r}) \cup {[r EXCEPT !.event = DRAM_DBUS_RETURN_TIME]}
                  /\ d.active = r.bank /\ d.dbus = ch.dbus /\ d.write = ch.write
                  /\ d \in ChannelState
<1> DEFINE d == UseBus(ch)
           r == CHOOSE r \in BusTakers(ch) : TRUE
           x == [r EXCEPT !.event = DRAM_DBUS_RETURN_TIME]
<1>1. r \in BusTakers(ch) /\ r \in ch.busy
  BY DEF BusTakers, Soonest
<1>2. ch \in ChannelState /\ r \in BankRequest /\ r.bank \in Bank
  BY <1>1, RequestFields DEF Good, ChannelState
<1>3. x \in BankRequest
  BY <1>2, RequestRetimed, TimingAssumption
<1>4. d = [ch EXCEPT !.busy = (@ \ {r}) \cup {x}, !.active = r.bank]
  BY DEF UseBus
<1> HIDE DEF d, x, r
<1>5. /\ d.RQ = ch.RQ /\ d.WQ = ch.WQ /\ d.row = ch.row
      /\ d.busy = (ch.busy \ {r}) \cup {x}
      /\ d.active = r.bank /\ d.dbus = ch.dbus /\ d.write = ch.write
      /\ d \in ChannelState
  BY <1>2, <1>3, <1>4 DEF ChannelState
<1> QED
  BY <1>1, <1>5 DEF d, x

LEMMA UseBusGood ==
    ASSUME NEW ch, Good(ch)
    PROVE  Good(UseBus(ch))
<1> DEFINE d == UseBus(ch)
<1>1. CASE BusTakers(ch) = {}
  BY <1>1 DEF UseBus
<1>2. CASE BusTakers(ch) # {}
  <2>1. PICK r \in ch.busy :
            /\ r \in BusTakers(ch)
            /\ d.RQ = ch.RQ /\ d.WQ = ch.WQ /\ d.row = ch.row
            /\ d.busy = (ch.busy \ {r}) \cup {[r EXCEPT !.event = DRAM_DBUS_RETURN_TIME]}
            /\ d.active = r.bank /\ d.dbus = ch.dbus /\ d.write = ch.write
            /\ d \in ChannelState
    BY <1>2, UseBusFields
  <2> DEFINE x == [r EXCEPT !.event = DRAM_DBUS_RETURN_TIME]
  <2>2. SameRequest(x, r)
    BY RequestRetimed, TimingAssumption DEF Good, ChannelState
  <2>3. d.busy = (ch.busy \ {r}) \cup {x} /\ x \in d.busy
    BY <2>1
  <2>4. ch.active = NoBank
    BY <2>1 DEF BusTakers
  <2> HIDE DEF x, d
  <2>5. \A write \in BOOLEAN : QueueOf(d, write) = QueueOf(ch, write)
    BY <2>1 DEF QueueOf
  <2>6. DistinctPackets(d)
    BY <2>5 DEF Good, DistinctPackets
  <2>7. OneRequestPerBank(d)
    BY <2>2, <2>3 DEF Good, OneRequestPerBank, SameRequest
  <2>8. /\ \A y \in d.busy : \E z \in ch.busy : SameRequest(y, z)
        /\ \A z \in ch.busy : \E y \in d.busy : SameRequest(y, z)
    <3>1. \A y : SameRequest(y, y)
      BY DEF SameRequest
    <3> QED
      BY <3>1, <2>2, <2>3
  <2>9. RequestsHavePackets(d) /\ PacketsHaveRequests(d)
    <3>1. \A p : SamePacket(p, p)
      BY DEF SamePacket
    <3>2. /\ \A write \in BOOLEAN : \A u \in QueueOf(d, write) :
                 \E p \in QueueOf(ch, write) : SamePacket(u, p)
          /\ \A write \in BOOLEAN : \A p \in QueueOf(ch, write) :
                 \E u \in QueueOf(d, write) : SamePacket(u, p)
      BY <3>1, <2>5
    <3> QED
      BY <3>2, <2>1, <2>8, Retimed
  <2>10. ModeOfRequests(d)
    <3>1. \A y \in ch.busy : y.bank # ch.active
      BY <2>4, RequestFields, BanksAreNumbers
    <3> QED
      BY <3>1, <2>1, <2>2, <2>3 DEF Good, ModeOfRequests, SameRequest
  <2>11. ActiveIsBusy(d)
    BY <2>1, <2>2, <2>3 DEF ActiveIsBusy, OnBus, SameRequest
  <2> QED
    BY <2>1, <2>6, <2>7, <2>9, <2>10, <2>11 DEF Good, d
<1> QED
  BY <1>1, <1>2

-----------------------------------------------------------------------------
\* What the scheduler picks.
LEMMA NextScheduleFields ==
    ASSUME NEW ch, Good(ch), NEW p \in NextSchedule(ch)
    PROVE  /\ p \in QueueOf(ch, ch.write) /\ ~ p.scheduled
           /\ p.slot \in Nat /\ p.block \in Block /\ ch.write \in BOOLEAN
           /\ OpIdx(p.block) \in Bank /\ Row(p.block) \in 0 .. NoRow
<1>1. p \in QueueOf(ch, ch.write) /\ ~ p.scheduled
  BY DEF NextSchedule, Soonest, QueueOf
<1>2. ch.write \in BOOLEAN
  BY DEF Good, ChannelState
<1>3. p.slot \in Nat /\ p.block \in Block
  BY <1>1, <1>2, PacketFields
<1> QED
  BY <1>1, <1>2, <1>3, GeometryOfBlock

Scheduled(p) == [p EXCEPT !.scheduled = TRUE, !.event = 0]

LEMMA ScheduledFields ==
    ASSUME NEW n, NEW p \in Packet(n)
    PROVE  /\ Scheduled(p) \in Packet(n)
           /\ Scheduled(p).slot = p.slot /\ Scheduled(p).block = p.block
           /\ Scheduled(p).names = p.names /\ Scheduled(p).scheduled
<1>1. /\ p.slot \in 1 .. n /\ p.block \in Block /\ p.names \in SUBSET Name
      /\ p.scheduled \in BOOLEAN /\ p.event \in Int
  BY DEF Packet
<1> DEFINE u == Scheduled(p)
<1>2. u = [p EXCEPT !.scheduled = TRUE, !.event = 0]
  BY DEF Scheduled
<1> HIDE DEF u
<1>3. u = [slot |-> p.slot, block |-> p.block, names |-> p.names,
           scheduled |-> TRUE, event |-> 0]
  BY <1>2 DEF Packet
<1>4. /\ u \in Packet(n) /\ u.scheduled
      /\ u.slot = p.slot /\ u.block = p.block /\ u.names = p.names
  BY <1>1, <1>3 DEF Packet
<1> QED
  BY <1>4 DEF u

\* The request that a packet gets: its bank works on it, from a closed or an open row.
RequestFor(ch, p) ==
    [bank |-> OpIdx(p.block), write |-> ch.write, slot |-> p.slot,
     event |-> tCAS + IF ch.row[OpIdx(p.block)] = Row(p.block) THEN 0 ELSE tRP + tRCD]

LEMMA ScheduleFields ==
    ASSUME NEW ch, Good(ch), ~ \A p \in NextSchedule(ch) : ~ BankFree(ch, OpIdx(p.block))
    PROVE  LET d == Schedule(ch)
           IN  \E p \in NextSchedule(ch) :
                  /\ \A write \in BOOLEAN :
                        QueueOf(d, write) =
                            IF write = ch.write
                            THEN (QueueOf(ch, write) \ {p}) \cup {Scheduled(p)}
                            ELSE QueueOf(ch, write)
                  /\ d.busy = ch.busy \cup {RequestFor(ch, p)}
                  /\ d.row = [ch.row EXCEPT ![OpIdx(p.block)] = Row(p.block)]
                  /\ d.active = ch.active /\ d.dbus = ch.dbus /\ d.write = ch.write
                  /\ d \in ChannelState
<1> DEFINE d == Schedule(ch)
           p == CHOOSE p \in NextSchedule(ch) : TRUE
           b == OpIdx(p.block)
           now(S) == (S \ {p}) \cup {Scheduled(p)}
<1>1. p \in NextSchedule(ch)
  OBVIOUS
<1>2. /\ p \in QueueOf(ch, ch.write) /\ p.slot \in Nat
      /\ b \in Bank /\ Row(p.block) \in 0 .. NoRow
  BY <1>1, NextScheduleFields
<1>3. ch \in ChannelState
  BY DEF Good
<1>4. d = [ch EXCEPT !.RQ = IF ch.write THEN @ ELSE now(@),
                     !.WQ = IF ch.write THEN now(@) ELSE @,
                     !.row[b] = Row(p.block),
                     !.busy = @ \cup {RequestFor(ch, p)}]
  BY DEF Schedule, RequestFor, Scheduled
<1>5. RequestFor(ch, p) \in BankRequest
  <2>1. tCAS \in Int /\ tRP \in Int /\ tRCD \in Int
    BY TimingAssumption
  <2> QED
    BY <1>2, <1>3, <2>1 DEF RequestFor, BankRequest, ChannelState
<1>6. /\ ch.write => Scheduled(p) \in Packet(DRAM_WQ_SIZE)
      /\ ~ ch.write => Scheduled(p) \in Packet(DRAM_RQ_SIZE)
  BY <1>2, <1>3, ScheduledFields DEF ChannelState, QueueOf
<1> DEFINE q == RequestFor(ch, p)
           s == Scheduled(p)
           w == Row(p.block)
<1> HIDE DEF d, p, b, q, s, w
<1>7. /\ d.RQ = (IF ch.write THEN ch.RQ ELSE (ch.RQ \ {p}) \cup {s})
      /\ d.WQ = (IF ch.write THEN (ch.WQ \ {p}) \cup {s} ELSE ch.WQ)
      /\ d.busy = ch.busy \cup {q}
      /\ d.row = [ch.row EXCEPT ![b] = w]
      /\ d.active = ch.active /\ d.dbus = ch.dbus /\ d.write = ch.write
      /\ d = [RQ |-> d.RQ, WQ |-> d.WQ, busy |-> d.busy, row |-> d.row, active |-> d.active,
              dbus |-> d.dbus, write |-> d.write]
  BY <1>3, <1>4 DEF ChannelState, q, s, w
<1>8. d \in ChannelState
  <2>1. d.RQ \subseteq Packet(DRAM_RQ_SIZE) /\ d.WQ \subseteq Packet(DRAM_WQ_SIZE)
    BY <1>3, <1>6, <1>7 DEF ChannelState, s
  <2>2. d.busy \subseteq BankRequest
    BY <1>3, <1>5, <1>7 DEF ChannelState, q
  <2>3. d.row \in [Bank -> 0 .. NoRow]
    BY <1>2, <1>3, <1>7 DEF ChannelState, w
  <2>4. d.active \in Bank \cup {NoBank} /\ d.dbus \in Nat /\ d.write \in BOOLEAN
    BY <1>3, <1>7 DEF ChannelState
  <2> QED
    BY <1>7, <2>1, <2>2, <2>3, <2>4 DEF ChannelState
<1>9. \A write \in BOOLEAN :
         QueueOf(d, write) = IF write = ch.write THEN (QueueOf(ch, write) \ {p}) \cup {s}
                             ELSE QueueOf(ch, write)
  BY <1>3, <1>7 DEF QueueOf, ChannelState
<1> QED
  BY <1>1, <1>7, <1>8, <1>9 DEF d, b, q, s, w

\* The packet that has waited longest is one, as a queue has one packet in a slot.
LEMMA NextScheduleUnique ==
    ASSUME NEW ch, Good(ch), NEW p \in NextSchedule(ch), NEW q \in NextSchedule(ch)
    PROVE  p = q
<1> DEFINE S == {x \in IF ch.write THEN ch.WQ ELSE ch.RQ : ~ x.scheduled}
           place == [x \in S |-> x.slot]
<1>1. p \in Soonest(S, place) /\ q \in Soonest(S, place)
  BY DEF NextSchedule
<1>2. /\ p \in S /\ q \in S
      /\ p.event < q.event \/ (p.event = q.event /\ place[p] <= place[q])
      /\ q.event < p.event \/ (q.event = p.event /\ place[q] <= place[p])
  BY <1>1 DEF Soonest
<1>3. ch.write \in BOOLEAN /\ p \in QueueOf(ch, ch.write) /\ q \in QueueOf(ch, ch.write)
  BY NextScheduleFields
<1>4. p.event \in Int /\ q.event \in Int /\ p.slot \in Nat /\ q.slot \in Nat
  BY <1>3, PacketFields
<1>5. place[p] = p.slot /\ place[q] = q.slot
  BY <1>2
<1>6. p.slot = q.slot
  <2> HIDE DEF place, S
  <2>1. p.event = q.event
    BY <1>2, <1>4
  <2> QED
    BY <1>2, <1>4, <1>5, <2>1
<1> QED
  BY <1>3, <1>6 DEF Good, DistinctPackets

LEMMA ScheduleGood ==
    ASSUME NEW ch, Good(ch)
    PROVE  Good(Schedule(ch))
<1> DEFINE d == Schedule(ch)
<1>0. CASE \A p \in NextSchedule(ch) : ~ BankFree(ch, OpIdx(p.block))
  BY <1>0 DEF Schedule
<1>a. CASE ~ \A p \in NextSchedule(ch) : ~ BankFree(ch, OpIdx(p.block))
  <2>1. PICK p \in NextSchedule(ch) :
            /\ \A write \in BOOLEAN :
                  QueueOf(d, write) =
                      IF write = ch.write
                      THEN (QueueOf(ch, write) \ {p}) \cup {Scheduled(p)}
                      ELSE QueueOf(ch, write)
            /\ d.busy = ch.busy \cup {RequestFor(ch, p)}
            /\ d.row = [ch.row EXCEPT ![OpIdx(p.block)] = Row(p.block)]
            /\ d.active = ch.active /\ d.dbus = ch.dbus /\ d.write = ch.write
            /\ d \in ChannelState
    BY <1>a, ScheduleFields
  <2>2. BankFree(ch, OpIdx(p.block))
    BY <1>a, NextScheduleUnique
  <2>3. /\ p \in QueueOf(ch, ch.write) /\ ~ p.scheduled
        /\ p.slot \in Nat /\ p.block \in Block /\ ch.write \in BOOLEAN
        /\ OpIdx(p.block) \in Bank
    BY NextScheduleFields
  <2> DEFINE s == Scheduled(p)
             q == RequestFor(ch, p)
             b == OpIdx(p.block)
  <2>4. s.slot = p.slot /\ s.block = p.block /\ s.scheduled
    BY <2>3, PacketFields, ScheduledFields
  <2>5. q.bank = b /\ q.write = ch.write /\ q.slot = p.slot
    BY DEF RequestFor
  <2>6. \A r \in ch.busy : r.bank # b /\ r.bank \in Bank /\ r.write \in BOOLEAN
    BY <2>2, RequestFields DEF BankFree
  <2>7. /\ \A write \in BOOLEAN :
              QueueOf(d, write) = IF write = ch.write THEN (QueueOf(ch, write) \ {p}) \cup {s}
                                  ELSE QueueOf(ch, write)
        /\ d.busy = ch.busy \cup {q}
        /\ d.row = [ch.row EXCEPT ![b] = Row(p.block)]
    BY <2>1
  <2>8. ch.row \in [Bank -> 0 .. NoRow]
    BY DEF Good, ChannelState
  <2> HIDE DEF d, s, q, b
  <2>9. DistinctPackets(d)
    <3> SUFFICES ASSUME NEW write \in BOOLEAN,
                        NEW u \in QueueOf(d, write), NEW v \in QueueOf(d, write),
                        u.slot = v.slot \/ u.block = v.block
                 PROVE  u = v
      BY DEF DistinctPackets
    <3>1. CASE write # ch.write
      BY <3>1, <2>7 DEF Good, DistinctPackets
    <3>2. CASE write = ch.write
      <4>1. \A x \in QueueOf(ch, write) :
                x.slot = p.slot \/ x.block = p.block => x = p
        BY <2>3, <3>2 DEF Good, DistinctPackets
      <4>2. CASE u = s /\ v = s
        BY <4>2
      <4>3. CASE u = s /\ v # s
        BY <4>1, <4>3, <2>4, <2>7, <3>2
      <4>4. CASE u # s /\ v = s
        BY <4>1, <4>4, <2>4, <2>7, <3>2
      <4>5. CASE u # s /\ v # s
        BY <4>5, <2>7, <3>2 DEF Good, DistinctPackets
      <4> QED
        BY <4>2, <4>3, <4>4, <4>5
    <3> QED
      BY <3>1, <3>2
  <2>10. OneRequestPerBank(d)
    BY <2>5, <2>6, <2>7 DEF Good, OneRequestPerBank
  <2>11. RequestsHavePackets(d)
    <3> SUFFICES ASSUME NEW r \in d.busy
                 PROVE  \E u \in QueueOf(d, r.write) :
                           /\ u.slot = r.slot /\ u.scheduled
                           /\ OpIdx(u.block) = r.bank /\ Row(u.block) = d.row[r.bank]
      BY DEF RequestsHavePackets
    <3>1. CASE r = q
      <4>1. s \in QueueOf(d, r.write) /\ s.slot = r.slot /\ s.scheduled
        BY <3>1, <2>3, <2>4, <2>5, <2>7
      <4>2. OpIdx(s.block) = r.bank
        BY <3>1, <2>4, <2>5 DEF b
      <4>3. Row(s.block) = d.row[r.bank]
        BY <3>1, <2>3, <2>4, <2>5, <2>7, <2>8 DEF b
      <4> QED
        BY <4>1, <4>2, <4>3
    <3>2. CASE r \in ch.busy
      <4>1. PICK u \in QueueOf(ch, r.write) :
                /\ u.slot = r.slot /\ u.scheduled
                /\ OpIdx(u.block) = r.bank /\ Row(u.block) = ch.row[r.bank]
        BY <3>2 DEF Good, RequestsHavePackets
      <4>2. d.row[r.bank] = ch.row[r.bank]
        BY <3>2, <2>6, <2>7, <2>8
      <4>3. u \in QueueOf(d, r.write)
        BY <4>1, <3>2, <2>3, <2>6, <2>7
      <4> QED
        BY <4>1, <4>2, <4>3
    <3> QED
      BY <3>1, <3>2, <2>7
  <2>12. PacketsHaveRequests(d)
    <3> SUFFICES ASSUME NEW write \in BOOLEAN, NEW u \in QueueOf(d, write), u.scheduled
                 PROVE  \E r \in d.busy : r.write = write /\ r.slot = u.slot
      BY DEF PacketsHaveRequests
    <3>1. CASE u \in QueueOf(ch, write)
      BY <3>1, <2>7 DEF Good, PacketsHaveRequests
    <3>2. CASE u \notin QueueOf(ch, write)
      <4>1. write = ch.write /\ u = s
        BY <3>2, <2>7
      <4> QED
        BY <4>1, <2>4, <2>5, <2>7
    <3> QED
      BY <3>1, <3>2
  <2>13. ModeOfRequests(d)
    BY <2>1, <2>5, <2>7 DEF Good, ModeOfRequests
  <2>14. ActiveIsBusy(d)
    BY <2>1, <2>7 DEF Good, ActiveIsBusy, OnBus
  <2> QED
    BY <2>1, <2>9, <2>10, <2>11, <2>12, <2>13, <2>14 DEF Good, d
<1> QED
  BY <1>0, <1>a

-----------------------------------------------------------------------------
AgedPacket(p) == IF p.scheduled THEN p ELSE [p EXCEPT !.event = @ - 1]

LEMMA AgedFields ==
    ASSUME NEW n, NEW p \in Packet(n)
    PROVE  /\ AgedPacket(p) \in Packet(n)
           /\ SamePacket(AgedPacket(p), p) /\ AgedPacket(p).names = p.names
<1> DEFINE u == AgedPacket(p)
<1>1. /\ p.slot \in 1 .. n /\ p.block \in Block /\ p.names \in SUBSET Name
      /\ p.scheduled \in BOOLEAN /\ p.event \in Int /\ p.event - 1 \in Int
  BY DEF Packet
<1>2. CASE p.scheduled
  BY <1>2 DEF AgedPacket, SamePacket
<1>3. CASE ~ p.scheduled
  <2>1. u = [p EXCEPT !.event = @ - 1]
    BY <1>3 DEF AgedPacket
  <2> HIDE DEF u
  <2>2. u = [slot |-> p.slot, block |-> p.block, names |-> p.names,
             scheduled |-> p.scheduled, event |-> p.event - 1]
    BY <2>1 DEF Packet
  <2>3. /\ u \in Packet(n)
        /\ u.slot = p.slot /\ u.block = p.block /\ u.scheduled = p.scheduled
        /\ u.names = p.names
    BY <1>1, <2>2 DEF Packet
  <2> QED
    BY <2>3 DEF u, SamePacket
<1> QED
  BY <1>2, <1>3

LEMMA TickFields ==
    ASSUME NEW ch, ch \in ChannelState
    PROVE  LET d == Tick(ch)
           IN  /\ \A write \in BOOLEAN :
                     QueueOf(d, write) = {AgedPacket(p) : p \in QueueOf(ch, write)}
               /\ d.busy = {[r EXCEPT !.event = @ - 1] : r \in ch.busy}
               /\ d.row = ch.row /\ d.active = ch.active /\ d.write = ch.write
               /\ d.dbus = IF ch.dbus > 0 THEN ch.dbus - 1 ELSE 0
               /\ d \in ChannelState
<1> DEFINE d == Tick(ch)
           busy == {[r EXCEPT !.event = @ - 1] : r \in ch.busy}
           dbus == IF ch.dbus > 0 THEN ch.dbus - 1 ELSE 0
<1>1. /\ d.RQ = {AgedPacket(p) : p \in ch.RQ}
      /\ d.WQ = {AgedPacket(p) : p \in ch.WQ}
      /\ d.busy = busy
      /\ d.row = ch.row /\ d.dbus = dbus /\ d.write = ch.write /\ d.active = ch.active
      /\ d = [RQ |-> d.RQ, WQ |-> d.WQ, busy |-> d.busy, row |-> d.row, active |-> d.active,
              dbus |-> d.dbus, write |-> d.write]
  <2>1. d = [ch EXCEPT !.RQ = Aged(ch.RQ), !.WQ = Aged(ch.WQ), !.busy = busy, !.dbus = dbus]
    BY DEF Tick
  <2>2. Aged(ch.RQ) = {AgedPacket(p) : p \in ch.RQ} /\ Aged(ch.WQ) = {AgedPacket(p) : p \in ch.WQ}
    BY DEF Aged, AgedPacket
  <2> HIDE DEF d, busy, dbus
  <2>3. /\ d.RQ = Aged(ch.RQ) /\ d.WQ = Aged(ch.WQ) /\ d.busy = busy
        /\ d.row = ch.row /\ d.dbus = dbus /\ d.write = ch.write /\ d.active = ch.active
        /\ d = [RQ |-> d.RQ, WQ |-> d.WQ, busy |-> d.busy, row |-> d.row, active |-> d.active,
                dbus |-> d.dbus, write |-> d.write]
    BY <2>1 DEF ChannelState
  <2> QED
    BY <2>2, <2>3
<1>2. dbus \in Nat
  BY DEF ChannelState
<1>3. busy \subseteq BankRequest
  <2>1. \A r \in ch.busy : r \in BankRequest /\ r.event - 1 \in Int
    BY DEF ChannelState, BankRequest
  <2>2. \A r \in ch.busy : [r EXCEPT !.event = r.event - 1] \in BankRequest
    BY <2>1, RequestRetimed
  <2> QED
    BY <2>2
<1>4. d.RQ \subseteq Packet(DRAM_RQ_SIZE)
  <2>1. \A p \in ch.RQ : p \in Packet(DRAM_RQ_SIZE)
    BY DEF ChannelState
  <2>2. \A p \in ch.RQ : AgedPacket(p) \in Packet(DRAM_RQ_SIZE)
    BY <2>1, AgedFields
  <2> QED
    BY <1>1, <2>2
<1>5. d.WQ \subseteq Packet(DRAM_WQ_SIZE)
  <2>1. \A p \in ch.WQ : p \in Packet(DRAM_WQ_SIZE)
    BY DEF ChannelState
  <2>2. \A p \in ch.WQ : AgedPacket(p) \in Packet(DRAM_WQ_SIZE)
    BY <2>1, AgedFields
  <2> QED
    BY <1>1, <2>2
<1> HIDE DEF d, busy, dbus
<1>6. d \in ChannelState
  BY <1>1, <1>2, <1>3, <1>4, <1>5 DEF ChannelState
<1>7. \A write \in BOOLEAN : QueueOf(d, write) = {AgedPacket(p) : p \in QueueOf(ch, write)}
  BY <1>1 DEF QueueOf
<1> QED
  BY <1>1, <1>6, <1>7 DEF d, busy, dbus

LEMMA TickGood ==
    ASSUME NEW ch, Good(ch)
    PROVE  Good(Tick(ch))
<1> DEFINE d == Tick(ch)
           later(r) == [r EXCEPT !.event = @ - 1]
<1>1. /\ \A write \in BOOLEAN : QueueOf(d, write) = {AgedPacket(p) : p \in QueueOf(ch, write)}
      /\ d.busy = {later(r) : r \in ch.busy}
      /\ d.row = ch.row /\ d.active = ch.active /\ d.write = ch.write
      /\ d \in ChannelState
  BY TickFields DEF Good
<1>2. \A write \in BOOLEAN : \A p \in QueueOf(ch, write) : SamePacket(AgedPacket(p), p)
  BY PacketFields, AgedFields
<1>3. \A r \in ch.busy : SameRequest(later(r), r)
  <2>1. \A r \in ch.busy : r \in BankRequest /\ r.event - 1 \in Int
    BY RequestFields DEF Good, ChannelState
  <2> QED
    BY <2>1, RequestRetimed
<1> HIDE DEF d, later
<1>4. DistinctPackets(d)
  <2> SUFFICES ASSUME NEW write \in BOOLEAN,
                      NEW u \in QueueOf(d, write), NEW v \in QueueOf(d, write),
                      u.slot = v.slot \/ u.block = v.block
               PROVE  u = v
    BY DEF DistinctPackets
  <2>1. PICK p \in QueueOf(ch, write) : u = AgedPacket(p)
    BY <1>1
  <2>2. PICK q \in QueueOf(ch, write) : v = AgedPacket(q)
    BY <1>1
  <2>3. p = q
    BY <1>2, <2>1, <2>2 DEF Good, DistinctPackets, SamePacket
  <2> QED
    BY <2>1, <2>2, <2>3
<1>5. OneRequestPerBank(d)
  <2> SUFFICES ASSUME NEW x \in d.busy, NEW y \in d.busy, x.bank = y.bank PROVE x = y
    BY DEF OneRequestPerBank
  <2>1. PICK r \in ch.busy : x = later(r)
    BY <1>1
  <2>2. PICK q \in ch.busy : y = later(q)
    BY <1>1
  <2>3. r = q
    BY <1>3, <2>1, <2>2 DEF Good, OneRequestPerBank, SameRequest
  <2> QED
    BY <2>1, <2>2, <2>3
<1>6. RequestsHavePackets(d) /\ PacketsHaveRequests(d)
  <2>1. /\ \A write \in BOOLEAN : \A u \in QueueOf(d, write) :
              \E p \in QueueOf(ch, write) : SamePacket(u, p)
        /\ \A write \in BOOLEAN : \A p \in QueueOf(ch, write) :
              \E u \in QueueOf(d, write) : SamePacket(u, p)
    BY <1>1, <1>2
  <2>2. /\ \A x \in d.busy : \E r \in ch.busy : SameRequest(x, r)
        /\ \A r \in ch.busy : \E x \in d.busy : SameRequest(x, r)
    BY <1>1, <1>3
  <2> QED
    BY <2>1, <2>2, <1>1, Retimed
<1>7. ModeOfRequests(d)
  BY <1>1, <1>3 DEF Good, ModeOfRequests, SameRequest
<1>8. ActiveIsBusy(d)
  BY <1>1, <1>3 DEF Good, ActiveIsBusy, OnBus, SameRequest
<1> QED
  BY <1>1, <1>4, <1>5, <1>6, <1>7, <1>8 DEF Good, d

\* A whole cycle of a channel.
LEMMA OperatedGood ==
    ASSUME NEW ch, Good(ch)
    PROVE  Good(Operated(ch))
<1>1. Good(Finish(ch)) /\ Finishing(Finish(ch)) = {}
  BY FinishGood, NothingLeftToFinish
<1>2. Good(Switched(ch))
  BY <1>1, SwitchGood DEF Switched
<1> QED
  BY <1>2, UseBusGood, ScheduleGood, TickGood DEF Operated

-----------------------------------------------------------------------------
\* New packets.
LEMMA LeastNatural ==
    ASSUME NEW T \in SUBSET Nat, T # {}
    PROVE  \E i \in T : \A j \in T : i <= j
<1>1. PICK i \in T : \A j \in T : ~ (<<j, i>> \in OpToRel(<, Nat))
  BY NatLessThanWellFounded, WFMin
<1>2. \A j \in T : ~ (j < i)
  BY <1>1 DEF OpToRel
<1> QED
  BY <1>2

NewPacket(i, b, who) ==
    [slot |-> i, block |-> b, names |-> who, scheduled |-> FALSE, event |-> 0]

LEMMA QueuedFields ==
    ASSUME NEW S, NEW n \in Nat, NEW b, NEW who, FreeSlots(S, n) # {}
    PROVE  \E i \in 1 .. n :
              /\ \A p \in S : p.slot # i
              /\ Queued(S, n, b, who) = S \cup {NewPacket(i, b, who)}
<1>1. FreeSlots(S, n) \in SUBSET Nat
  BY DEF FreeSlots
<1>2. PICK i \in FreeSlots(S, n) : \A j \in FreeSlots(S, n) : i <= j
  BY <1>1, LeastNatural
<1>3. {k \in FreeSlots(S, n) : \A j \in FreeSlots(S, n) : k <= j} = {i}
  BY <1>1, <1>2
<1>4. Queued(S, n, b, who) = S \cup {NewPacket(i, b, who)}
  BY <1>3 DEF Queued, NewPacket
<1> QED
  BY <1>2, <1>4 DEF FreeSlots

LEMMA NewPacketType ==
    ASSUME NEW n \in Nat, NEW i \in 1 .. n, NEW b \in Block, NEW who \in SUBSET Name
    PROVE  NewPacket(i, b, who) \in Packet(n)
BY DEF NewPacket, Packet

\* A new packet is not scheduled, so that no bank is concerned.
LEMMA AddedGood ==
    ASSUME NEW ch, Good(ch), NEW d, d \in ChannelState, NEW write \in BOOLEAN, NEW u,
           \A w \in BOOLEAN : QueueOf(d, w) = IF w = write THEN QueueOf(ch, w) \cup {u}
                                              ELSE QueueOf(ch, w),
           ~ u.scheduled,
           \A p \in QueueOf(ch, write) : p.slot # u.slot /\ p.block # u.block,
           d.busy = ch.busy, d.row = ch.row, d.active = ch.active, d.write = ch.write
    PROVE  Good(d)
<1>1. DistinctPackets(d)
  BY DEF Good, DistinctPackets
<1>2. OneRequestPerBank(d) /\ ModeOfRequests(d) /\ ActiveIsBusy(d)
  BY DEF Good, OneRequestPerBank, ModeOfRequests, ActiveIsBusy, OnBus
<1>3. RequestsHavePackets(d)
  <2>1. \A r \in ch.busy : QueueOf(ch, r.write) \subseteq QueueOf(d, r.write)
    BY RequestFields
  <2> QED
    BY <2>1 DEF Good, RequestsHavePackets
<1>4. PacketsHaveRequests(d)
  BY DEF Good, PacketsHaveRequests
<1> QED
  BY <1>1, <1>2, <1>3, <1>4 DEF Good

Gains(S, T, b, who) == \E i : S = T \cup {NewPacket(i, b, who)}

\* add_rq and add_wq find a place.
LEMMA AddReadGood ==
    ASSUME NEW ch, Good(ch), NEW b \in Block, NEW who \in SUBSET Name,
           Of(ch.RQ, b) = {}, FreeSlots(ch.RQ, DRAM_RQ_SIZE) # {},
           NEW d, d = [ch EXCEPT !.RQ = Queued(ch.RQ, DRAM_RQ_SIZE, b, who)]
    PROVE  Good(d) /\ Gains(d.RQ, ch.RQ, b, who)
<1> DEFINE q == Queued(ch.RQ, DRAM_RQ_SIZE, b, who)
<1>1. DRAM_RQ_SIZE \in Nat /\ ch \in ChannelState
  BY GeometryAssumption DEF Good
<1>2. PICK i \in 1 .. DRAM_RQ_SIZE :
          (\A p \in ch.RQ : p.slot # i) /\ q = ch.RQ \cup {NewPacket(i, b, who)}
  BY <1>1, QueuedFields
<1> DEFINE u == NewPacket(i, b, who)
<1>3. u \in Packet(DRAM_RQ_SIZE) /\ u.slot = i /\ u.block = b /\ ~ u.scheduled
  BY <1>1, NewPacketType DEF NewPacket
<1>a. d = [ch EXCEPT !.RQ = q]
  OBVIOUS
<1> HIDE DEF u, q
<1>4. q = ch.RQ \cup {u}
  BY <1>2 DEF u
<1>5. /\ d \in ChannelState /\ d.RQ = ch.RQ \cup {u} /\ d.WQ = ch.WQ
      /\ d.busy = ch.busy /\ d.row = ch.row /\ d.active = ch.active /\ d.write = ch.write
  BY <1>a, <1>1, <1>3, <1>4 DEF ChannelState
<1>6. \A p \in ch.RQ : p.slot # u.slot /\ p.block # u.block
  BY <1>2, <1>3 DEF Of
<1>7. \A w \in BOOLEAN : QueueOf(d, w) = IF w = FALSE THEN QueueOf(ch, w) \cup {u}
                                         ELSE QueueOf(ch, w)
  BY <1>5 DEF QueueOf
<1>8. \A p \in QueueOf(ch, FALSE) : p.slot # u.slot /\ p.block # u.block
  BY <1>6 DEF QueueOf
<1>9. Good(d)
  BY <1>3, <1>5, <1>7, <1>8, AddedGood
<1> QED
  BY <1>5, <1>9 DEF u, Gains

LEMMA AddWriteGood ==
    ASSUME NEW ch, Good(ch), NEW b \in Block,
           Of(ch.WQ, b) = {}, FreeSlots(ch.WQ, DRAM_WQ_SIZE) # {}
    PROVE  LET d == [ch EXCEPT !.WQ = Queued(ch.WQ, DRAM_WQ_SIZE, b, {})]
           IN  Good(d) /\ Gains(d.WQ, ch.WQ, b, {})
<1> DEFINE q == Queued(ch.WQ, DRAM_WQ_SIZE, b, {})
           d == [ch EXCEPT !.WQ = q]
<1>1. DRAM_WQ_SIZE \in Nat /\ ch \in ChannelState
  BY GeometryAssumption DEF Good
<1>2. PICK i \in 1 .. DRAM_WQ_SIZE :
          (\A p \in ch.WQ : p.slot # i) /\ q = ch.WQ \cup {NewPacket(i, b, {})}
  BY <1>1, QueuedFields
<1> DEFINE u == NewPacket(i, b, {})
<1>3. u \in Packet(DRAM_WQ_SIZE) /\ u.slot = i /\ u.block = b /\ ~ u.scheduled
  BY <1>1, NewPacketType DEF NewPacket
<1> HIDE DEF u, q
<1>4. q = ch.WQ \cup {u}
  BY <1>2 DEF u
<1>5. /\ d \in ChannelState /\ d.WQ = ch.WQ \cup {u} /\ d.RQ = ch.RQ
      /\ d.busy = ch.busy /\ d.row = ch.row /\ d.active = ch.active /\ d.write = ch.write
  BY <1>1, <1>3, <1>4 DEF ChannelState
<1> HIDE DEF d
<1>6. \A p \in ch.WQ : p.slot # u.slot /\ p.block # u.block
  BY <1>2, <1>3 DEF Of
<1>7. \A w \in BOOLEAN : QueueOf(d, w) = IF w = TRUE THEN QueueOf(ch, w) \cup {u}
                                         ELSE QueueOf(ch, w)
  BY <1>5 DEF QueueOf
<1>8. \A p \in QueueOf(ch, TRUE) : p.slot # u.slot /\ p.block # u.block
  BY <1>6 DEF QueueOf
<1>9. Good(d)
  BY <1>3, <1>5, <1>7, <1>8, AddedGood
<1> QED
  BY <1>5, <1>9 DEF d, q, u, Gains

JoinedPacket(p, b, n) == IF p.block = b THEN [p EXCEPT !.names = @ \cup {n}] ELSE p

Joined(S, b, n) == {JoinedPacket(p, b, n) : p \in S}

LEMMA JoinedFields ==
    ASSUME NEW m, NEW p \in Packet(m), NEW b, NEW n \in Name
    PROVE  LET u == JoinedPacket(p, b, n)
           IN  /\ u \in Packet(m) /\ SamePacket(u, p)
               /\ u.names = IF p.block = b THEN p.names \cup {n} ELSE p.names
<1> DEFINE u == JoinedPacket(p, b, n)
<1>1. /\ p.slot \in 1 .. m /\ p.block \in Block /\ p.names \in SUBSET Name
      /\ p.scheduled \in BOOLEAN /\ p.event \in Int /\ p.names \cup {n} \in SUBSET Name
  BY DEF Packet
<1>2. CASE p.block # b
  BY <1>2 DEF JoinedPacket, SamePacket
<1>3. CASE p.block = b
  <2>1. u = [p EXCEPT !.names = @ \cup {n}]
    BY <1>3 DEF JoinedPacket
  <2> HIDE DEF u
  <2>2. u = [slot |-> p.slot, block |-> p.block, names |-> p.names \cup {n},
             scheduled |-> p.scheduled, event |-> p.event]
    BY <2>1 DEF Packet
  <2>3. /\ u \in Packet(m)
        /\ u.slot = p.slot /\ u.block = p.block /\ u.scheduled = p.scheduled
        /\ u.names = p.names \cup {n}
    BY <1>1, <2>2 DEF Packet
  <2> QED
    BY <1>3, <2>3 DEF u, SamePacket
<1> QED
  BY <1>2, <1>3

LEMMA JoinGood ==
    ASSUME NEW ch, Good(ch), NEW b \in Block, NEW n \in Name
    PROVE  LET same == Of(ch.RQ, b)
               d == [ch EXCEPT !.RQ = (ch.RQ \ same) \cup
                                          {[p EXCEPT !.names = @ \cup {n}] : p \in same}]
           IN  Good(d) /\ d.RQ = Joined(ch.RQ, b, n)
<1> DEFINE same == Of(ch.RQ, b)
           q == (ch.RQ \ same) \cup {[p EXCEPT !.names = @ \cup {n}] : p \in same}
           d == [ch EXCEPT !.RQ = q]
<1>1. q = {JoinedPacket(p, b, n) : p \in ch.RQ}
  BY Zenon DEF Of, JoinedPacket
<1>2. \A p \in ch.RQ : p \in Packet(DRAM_RQ_SIZE)
  BY DEF Good, ChannelState
<1>3. \A p \in ch.RQ : /\ JoinedPacket(p, b, n) \in Packet(DRAM_RQ_SIZE)
                       /\ SamePacket(JoinedPacket(p, b, n), p)
  BY <1>2, JoinedFields
<1> HIDE DEF q
<1>4. /\ d \in ChannelState /\ d.RQ = q /\ d.WQ = ch.WQ
      /\ d.busy = ch.busy /\ d.row = ch.row /\ d.active = ch.active /\ d.write = ch.write
  BY <1>1, <1>3 DEF Good, ChannelState
<1> HIDE DEF d
<1>5. /\ QueueOf(d, TRUE) = QueueOf(ch, TRUE)
      /\ QueueOf(d, FALSE) = {JoinedPacket(p, b, n) : p \in QueueOf(ch, FALSE)}
      /\ \A p \in QueueOf(ch, FALSE) : SamePacket(JoinedPacket(p, b, n), p)
  BY <1>1, <1>3, <1>4 DEF QueueOf
<1>6. DistinctPackets(d)
  <2> SUFFICES ASSUME NEW w \in BOOLEAN, NEW u \in QueueOf(d, w), NEW v \in QueueOf(d, w),
                      u.slot = v.slot \/ u.block = v.block
               PROVE  u = v
    BY DEF DistinctPackets
  <2>1. CASE w = TRUE
    BY <2>1, <1>5 DEF Good, DistinctPackets
  <2>2. CASE w = FALSE
    <3>1. PICK p \in QueueOf(ch, FALSE) : u = JoinedPacket(p, b, n)
      BY <2>2, <1>5
    <3>2. PICK r \in QueueOf(ch, FALSE) : v = JoinedPacket(r, b, n)
      BY <2>2, <1>5
    <3>3. p = r
      BY <1>5, <3>1, <3>2, ZenonT(60) DEF Good, DistinctPackets, SamePacket
    <3> QED
      BY <3>1, <3>2, <3>3
  <2> QED
    BY <2>1, <2>2
<1>7. RequestsHavePackets(d) /\ PacketsHaveRequests(d)
  <2>1. \A p : SamePacket(p, p) /\ SameRequest(p, p)
    BY DEF SamePacket, SameRequest
  <2>2. /\ \A w \in BOOLEAN : \A u \in QueueOf(d, w) :
              \E p \in QueueOf(ch, w) : SamePacket(u, p)
        /\ \A w \in BOOLEAN : \A p \in QueueOf(ch, w) :
              \E u \in QueueOf(d, w) : SamePacket(u, p)
    <3>1. \A w \in BOOLEAN : w = TRUE \/ w = FALSE
      OBVIOUS
    <3>2. /\ \A u \in QueueOf(d, FALSE) : \E p \in QueueOf(ch, FALSE) : SamePacket(u, p)
          /\ \A p \in QueueOf(ch, FALSE) : \E u \in QueueOf(d, FALSE) : SamePacket(u, p)
      BY <1>5
    <3>3. /\ \A u \in QueueOf(d, TRUE) : \E p \in QueueOf(ch, TRUE) : SamePacket(u, p)
          /\ \A p \in QueueOf(ch, TRUE) : \E u \in QueueOf(d, TRUE) : SamePacket(u, p)
      BY <1>5, <2>1
    <3> QED
      BY <3>1, <3>2, <3>3
  <2>3. /\ \A x \in d.busy : \E r \in ch.busy : SameRequest(x, r)
        /\ \A r \in ch.busy : \E x \in d.busy : SameRequest(x, r)
    BY <1>4, <2>1
  <2> QED
    BY <2>2, <2>3, <1>4, Retimed
<1>8. OneRequestPerBank(d) /\ ModeOfRequests(d) /\ ActiveIsBusy(d)
  BY <1>4 DEF Good, OneRequestPerBank, ModeOfRequests, ActiveIsBusy, OnBus
<1>9. Good(d) /\ d.RQ = Joined(ch.RQ, b, n)
  BY <1>1, <1>4, <1>6, <1>7, <1>8 DEF Good, Joined
<1> QED
  BY <1>9 DEF d, q

-----------------------------------------------------------------------------
\* What the bus carried last (lastTransfer) against the state of the channel: a
\* transfer ends when its event is due, and with the mode the other way round
\* dbus keeps the bus for the turn-around time after that end.
BusRemembered(ch, h) ==
    /\ \A r \in OnBus(ch) : r.event = - h.since
    /\ ch.active = NoBank => h.since >= 0
    /\ ch.write # h.write => ch.dbus + h.since >= DRAM_DBUS_TURN_AROUND_TIME

LEMMA FinishRemembers ==
    ASSUME NEW ch, Good(ch), NEW h, h.since \in Int, BusRemembered(ch, h)
    PROVE  BusRemembered(Finish(ch), h)
<1> DEFINE d == Finish(ch)
<1>1. /\ d.busy = ch.busy \ Finishing(ch)
      /\ d.dbus = ch.dbus /\ d.write = ch.write
      /\ d.active = IF Finishing(ch) = {} THEN ch.active ELSE NoBank
  BY FinishFields DEF Good
<1>2. \A r \in ch.busy : r.bank # NoBank /\ r.event \in Int
  BY RequestFields, BanksAreNumbers
<1> HIDE DEF d
<1>3. \A r \in OnBus(d) : r \in OnBus(ch)
  <2>1. CASE Finishing(ch) = {}
    BY <1>1, <2>1 DEF OnBus
  <2>2. CASE Finishing(ch) # {}
    BY <1>1, <1>2, <2>2 DEF OnBus
  <2> QED
    BY <2>1, <2>2
<1>4. ASSUME NEW r \in Finishing(ch) PROVE h.since >= 0
  <2>1. r \in OnBus(ch) /\ r.event <= 0 /\ r.event \in Int
    BY <1>2 DEF Finishing, OnBus
  <2>2. r.event = - h.since
    BY <2>1 DEF BusRemembered
  <2> QED
    BY <2>1, <2>2
<1> QED
  BY <1>1, <1>3, <1>4 DEF BusRemembered, d

LEMMA SwitchRemembers ==
    ASSUME NEW ch, Good(ch), Finishing(ch) = {}, NEW h, h.since \in Int, BusRemembered(ch, h)
    PROVE  BusRemembered(SwitchMode(ch), h) /\ Finishing(SwitchMode(ch)) = {}
<1> DEFINE d == SwitchMode(ch)
<1>1. CASE ~ Unbalanced(ch)
  BY <1>1 DEF SwitchMode
<1>2. CASE Unbalanced(ch)
  <2>1. /\ d.busy = ch.busy \ Undone(ch)
        /\ d.dbus = Turned(ch) /\ d.write = ~ ch.write /\ d.active = ch.active
    BY <1>2, SwitchFields
  <2>2. DRAM_DBUS_TURN_AROUND_TIME \in Nat
    BY TimingAssumption
  <2> HIDE DEF d
  <2>3. OnBus(d) = OnBus(ch)
    BY <2>1 DEF OnBus, Undone
  <2>4. d.dbus + h.since >= DRAM_DBUS_TURN_AROUND_TIME
    <3>1. CASE OnBus(ch) = {}
      <4>1. h.since >= 0
        BY <3>1 DEF Good, ActiveIsBusy, BusRemembered
      <4>2. d.dbus = DRAM_DBUS_TURN_AROUND_TIME
        BY <3>1, <2>1, <2>2 DEF Turned
      <4> QED
        BY <4>1, <4>2, <2>2
    <3>2. CASE OnBus(ch) # {}
      <4> DEFINE r == CHOOSE r \in OnBus(ch) : TRUE
      <4>1. r \in OnBus(ch)
        BY <3>2
      <4>2. d.dbus = DRAM_DBUS_TURN_AROUND_TIME + r.event
        BY <3>2, <2>1 DEF Turned
      <4>3. r.event = - h.since
        BY <4>1 DEF BusRemembered
      <4> HIDE DEF r
      <4> QED
        BY <4>2, <4>3, <2>2
    <3> QED
      BY <3>1, <3>2
  <2> QED
    BY <2>1, <2>3, <2>4 DEF BusRemembered, Finishing, d
<1> QED
  BY <1>1, <1>2

\* The bus is taken: the transfer ends DRAM_DBUS_RETURN_TIME from now.
Carried(h, ch) ==
    IF BusTakers(ch) # {} THEN [write |-> ch.write, since |-> - DRAM_DBUS_RETURN_TIME] ELSE h

LEMMA UseBusRemembers ==
    ASSUME NEW ch, Good(ch), Finishing(ch) = {}, NEW h, h.since \in Int, BusRemembered(ch, h)
    PROVE  BusRemembered(UseBus(ch), Carried(h, ch)) /\ Finishing(UseBus(ch)) = {}
<1> DEFINE d == UseBus(ch)
<1>1. CASE BusTakers(ch) = {}
  BY <1>1 DEF UseBus, Carried
<1>2. CASE BusTakers(ch) # {}
  <2>1. PICK r \in ch.busy :
            /\ d.busy = (ch.busy \ {r}) \cup {[r EXCEPT !.event = DRAM_DBUS_RETURN_TIME]}
            /\ d.active = r.bank /\ d.write = ch.write
    BY <1>2, UseBusFields
  <2> DEFINE x == [r EXCEPT !.event = DRAM_DBUS_RETURN_TIME]
  <2>2. DRAM_DBUS_RETURN_TIME \in Nat \ {0}
    BY TimingAssumption
  <2>3. SameRequest(x, r) /\ x.event = DRAM_DBUS_RETURN_TIME
    BY <2>2, RequestRetimed DEF Good, ChannelState
  <2>4. r.bank \in Bank
    BY RequestFields
  <2>5. d.busy = (ch.busy \ {r}) \cup {x}
    BY <2>1
  <2> HIDE DEF x, d
  <2>6. OnBus(d) = {x}
    BY <2>1, <2>3, <2>5 DEF OnBus, SameRequest, Good, OneRequestPerBank
  <2>7. /\ Carried(h, ch).write = ch.write
        /\ Carried(h, ch).since = - DRAM_DBUS_RETURN_TIME
    BY <1>2 DEF Carried
  <2>8. x.event = - Carried(h, ch).since /\ ~ (x.event <= 0)
    BY <2>2, <2>3, <2>7
  <2>9. d.active # NoBank
    BY <2>1, <2>4, BanksAreNumbers
  <2> QED
    BY <2>1, <2>6, <2>7, <2>8, <2>9 DEF BusRemembered, Finishing, d
<1> QED
  BY <1>1, <1>2

LEMMA ScheduleRemembers ==
    ASSUME NEW ch, Good(ch), Finishing(ch) = {}, NEW h, BusRemembered(ch, h)
    PROVE  BusRemembered(Schedule(ch), h) /\ Finishing(Schedule(ch)) = {}
<1> DEFINE d == Schedule(ch)
<1>1. CASE \A p \in NextSchedule(ch) : ~ BankFree(ch, OpIdx(p.block))
  BY <1>1 DEF Schedule
<1>2. CASE ~ \A p \in NextSchedule(ch) : ~ BankFree(ch, OpIdx(p.block))
  <2>1. PICK p \in NextSchedule(ch) :
            /\ d.busy = ch.busy \cup {RequestFor(ch, p)}
            /\ d.active = ch.active /\ d.dbus = ch.dbus /\ d.write = ch.write
    BY <1>2, ScheduleFields
  <2>2. BankFree(ch, OpIdx(p.block)) /\ OpIdx(p.block) \in Bank
    BY <1>2, NextScheduleUnique, NextScheduleFields
  <2>3. RequestFor(ch, p).bank = OpIdx(p.block)
    BY DEF RequestFor
  <2>4. OpIdx(p.block) # ch.active
    BY <2>2, BanksAreNumbers DEF BankFree, Good, ActiveIsBusy, OnBus
  <2> HIDE DEF d
  <2>5. OnBus(d) = OnBus(ch)
    BY <2>1, <2>3, <2>4 DEF OnBus
  <2> QED
    BY <2>1, <2>5 DEF BusRemembered, Finishing, d
<1> QED
  BY <1>1, <1>2

LEMMA TickRemembers ==
    ASSUME NEW ch, Good(ch), Finishing(ch) = {},
           NEW h, h.since \in Int, BusRemembered(ch, h),
           NEW e, e.write = h.write,
           e.since = IF h.since < DRAM_DBUS_TURN_AROUND_TIME THEN h.since + 1 ELSE h.since
    PROVE  BusRemembered(Tick(ch), e)
<1> DEFINE d == Tick(ch)
<1>1. /\ d.busy = {[r EXCEPT !.event = @ - 1] : r \in ch.busy}
      /\ d.active = ch.active /\ d.write = ch.write
      /\ d.dbus = IF ch.dbus > 0 THEN ch.dbus - 1 ELSE 0
      /\ ch.dbus \in Nat
  BY TickFields DEF Good, ChannelState
<1>2. DRAM_DBUS_TURN_AROUND_TIME \in Nat \ {0}
  BY TimingAssumption
<1> HIDE DEF d
<1>3. ASSUME NEW x \in OnBus(d) PROVE x.event = - e.since
  <2>1. PICK r \in ch.busy : x = [r EXCEPT !.event = @ - 1]
    BY <1>1 DEF OnBus
  <2>2. r \in BankRequest /\ r.event \in Int /\ r.event - 1 \in Int
    BY RequestFields DEF Good, ChannelState
  <2>3. x = [r EXCEPT !.event = r.event - 1]
    BY <2>1
  <2>4. x.bank = r.bank /\ x.event = r.event - 1
    BY <2>2, <2>3, RequestRetimed DEF SameRequest
  <2>5. r \in OnBus(ch)
    BY <2>4, <1>1 DEF OnBus
  <2>6. r.event = - h.since /\ ~ (r.event <= 0)
    BY <2>5 DEF BusRemembered, Finishing
  <2> QED
    BY <1>2, <2>2, <2>4, <2>6
<1>4. d.active = NoBank => e.since >= 0
  <2> SUFFICES ASSUME ch.active = NoBank PROVE e.since >= 0
    BY <1>1
  <2>1. h.since >= 0
    BY DEF BusRemembered
  <2> QED
    BY <2>1, <1>2
<1>5. d.write # e.write => d.dbus + e.since >= DRAM_DBUS_TURN_AROUND_TIME
  <2> SUFFICES ASSUME ch.write # h.write
               PROVE  d.dbus + e.since >= DRAM_DBUS_TURN_AROUND_TIME
    BY <1>1
  <2>1. ch.dbus + h.since >= DRAM_DBUS_TURN_AROUND_TIME
    BY DEF BusRemembered
  <2> QED
    BY <2>1, <1>1, <1>2
<1> QED
  BY <1>3, <1>4, <1>5 DEF BusRemembered, d

Transfer == [write : BOOLEAN, since : 1 - DRAM_DBUS_RETURN_TIME .. DRAM_DBUS_TURN_AROUND_TIME]

\* A cycle keeps the memory of the bus, and the bus turned around only when it
\* might.
LEMMA OperatedRemembers ==
    ASSUME NEW ch, Good(ch), NEW h \in Transfer, BusRemembered(ch, h)
    PROVE  LET e == Recorded(h, Switched(ch))
           IN  /\ e \in Transfer
               /\ BusRemembered(Operated(ch), e)
               /\ e.write # h.write => h.since >= DRAM_DBUS_TURN_AROUND_TIME
<1> DEFINE s == Switched(ch)
           k == Carried(h, s)
           e == Recorded(h, s)
<1>1. h.since \in Int /\ h.write \in BOOLEAN
  BY DEF Transfer
<1>2. /\ DRAM_DBUS_TURN_AROUND_TIME \in Nat \ {0}
      /\ DRAM_DBUS_RETURN_TIME \in Nat \ {0}
  BY TimingAssumption
<1>3. Good(s) /\ Finishing(s) = {} /\ BusRemembered(s, h)
  <2>1. /\ Good(Finish(ch)) /\ Finishing(Finish(ch)) = {}
        /\ BusRemembered(Finish(ch), h)
    BY <1>1, FinishGood, NothingLeftToFinish, FinishRemembers
  <2> QED
    BY <1>1, <2>1, SwitchGood, SwitchRemembers DEF Switched
<1> HIDE DEF s
<1>4. s.write \in BOOLEAN /\ s.dbus \in Int
  BY <1>3 DEF Good, ChannelState
<1>5. /\ e \in Transfer /\ k.since \in Int /\ e.write = k.write
      /\ e.since = IF k.since < DRAM_DBUS_TURN_AROUND_TIME THEN k.since + 1 ELSE k.since
  <2>1. CASE BusTakers(s) # {}
    <3>1. /\ e = [write |-> s.write, since |-> 1 - DRAM_DBUS_RETURN_TIME]
          /\ k = [write |-> s.write, since |-> - DRAM_DBUS_RETURN_TIME]
      BY <2>1 DEF Recorded, Carried
    <3> QED
      BY <3>1, <1>2, <1>4 DEF Transfer
  <2>2. CASE BusTakers(s) = {}
    <3>1. k = h
      BY <2>2 DEF Carried
    <3>2. e = [h EXCEPT !.since =
                 IF h.since < DRAM_DBUS_TURN_AROUND_TIME THEN h.since + 1 ELSE h.since]
      BY <2>2 DEF Recorded
    <3> HIDE DEF k, e
    <3>3. e = [write |-> h.write, since |->
                 IF h.since < DRAM_DBUS_TURN_AROUND_TIME THEN h.since + 1 ELSE h.since]
      BY <3>2 DEF Transfer
    <3> QED
      BY <3>1, <3>3, <1>1, <1>2 DEF Transfer
  <2> QED
    BY <2>1, <2>2
<1>6. Good(UseBus(s)) /\ BusRemembered(UseBus(s), k) /\ Finishing(UseBus(s)) = {}
  BY <1>1, <1>3, UseBusGood, UseBusRemembers
<1>7. /\ Good(Schedule(UseBus(s))) /\ BusRemembered(Schedule(UseBus(s)), k)
      /\ Finishing(Schedule(UseBus(s))) = {}
  BY <1>6, ScheduleGood, ScheduleRemembers
<1>8. BusRemembered(Operated(ch), e)
  <2> HIDE DEF e, k
  <2> QED
    BY <1>5, <1>7, TickRemembers DEF Operated, s
<1>9. e.write # h.write => h.since >= DRAM_DBUS_TURN_AROUND_TIME
  <2> SUFFICES ASSUME e.write # h.write PROVE h.since >= DRAM_DBUS_TURN_AROUND_TIME
    OBVIOUS
  <2>1. BusTakers(s) # {} /\ e.write = s.write
    <3>1. CASE BusTakers(s) # {}
      BY <3>1 DEF Recorded
    <3>2. CASE BusTakers(s) = {}
      <4>1. k = h
        BY <3>2 DEF Carried
      <4> QED
        BY <4>1, <1>5
    <3> QED
      BY <3>1, <3>2
  <2>2. s.dbus <= 0
    BY <2>1 DEF BusTakers
  <2>3. s.dbus + h.since >= DRAM_DBUS_TURN_AROUND_TIME
    BY <1>3, <2>1 DEF BusRemembered
  <2> QED
    BY <2>2, <2>3, <1>1, <1>2, <1>4
<1> QED
  BY <1>5, <1>8, <1>9 DEF s

-----------------------------------------------------------------------------
\* Who waits for which block: only Finish changes that in a cycle.
Contents(S) == {<<p.block, p.names>> : p \in S}

SameContents(d, ch) ==
    \A write \in BOOLEAN : Contents(QueueOf(d, write)) = Contents(QueueOf(ch, write))

LEMMA SwitchContents ==
    ASSUME NEW ch, Good(ch), Finishing(ch) = {}
    PROVE  SameContents(SwitchMode(ch), ch)
<1>1. CASE ~ Unbalanced(ch)
  BY <1>1 DEF SwitchMode, SameContents
<1>2. CASE Unbalanced(ch)
  <2> DEFINE d == SwitchMode(ch)
  <2>0. \A w \in BOOLEAN : QueueOf(d, w) = {UnscheduledPacket(ch, p, w) : p \in QueueOf(ch, w)}
    BY <1>2, SwitchFields
  <2> HIDE DEF d
  <2> SUFFICES ASSUME NEW w \in BOOLEAN
               PROVE  Contents(QueueOf(d, w)) = Contents(QueueOf(ch, w))
    BY DEF SameContents, d
  <2>1. QueueOf(d, w) = {UnscheduledPacket(ch, p, w) : p \in QueueOf(ch, w)}
    BY <2>0
  <2>2. \A p \in QueueOf(ch, w) : /\ UnscheduledPacket(ch, p, w).block = p.block
                                  /\ UnscheduledPacket(ch, p, w).names = p.names
    BY PacketFields, UnscheduledFields
  <2> QED
    BY <2>1, <2>2 DEF Contents
<1> QED
  BY <1>1, <1>2

LEMMA UseBusContents ==
    ASSUME NEW ch, Good(ch)
    PROVE  SameContents(UseBus(ch), ch)
<1>1. CASE BusTakers(ch) = {}
  BY <1>1 DEF UseBus, SameContents
<1>2. CASE BusTakers(ch) # {}
  BY <1>2, UseBusFields DEF SameContents, QueueOf
<1> QED
  BY <1>1, <1>2

LEMMA ScheduleContents ==
    ASSUME NEW ch, Good(ch)
    PROVE  SameContents(Schedule(ch), ch)
<1> DEFINE d == Schedule(ch)
<1>1. CASE \A p \in NextSchedule(ch) : ~ BankFree(ch, OpIdx(p.block))
  BY <1>1 DEF Schedule, SameContents
<1>2. CASE ~ \A p \in NextSchedule(ch) : ~ BankFree(ch, OpIdx(p.block))
  <2>1. PICK p \in NextSchedule(ch) :
            \A write \in BOOLEAN :
                QueueOf(d, write) = IF write = ch.write
                                    THEN (QueueOf(ch, write) \ {p}) \cup {Scheduled(p)}
                                    ELSE QueueOf(ch, write)
    BY <1>2, ScheduleFields
  <2>2. p \in QueueOf(ch, ch.write) /\ ch.write \in BOOLEAN
    BY NextScheduleFields
  <2>3. Scheduled(p).block = p.block /\ Scheduled(p).names = p.names
    BY <2>2, PacketFields, ScheduledFields
  <2> DEFINE s == Scheduled(p)
  <2> HIDE DEF s, d
  <2>4. Contents((QueueOf(ch, ch.write) \ {p}) \cup {s}) = Contents(QueueOf(ch, ch.write))
    <3> DEFINE Q == QueueOf(ch, ch.write)
    <3>1. p \in Q /\ s.block = p.block /\ s.names = p.names
      BY <2>2, <2>3 DEF s
    <3> HIDE DEF Q
    <3>2. ASSUME NEW x \in Contents((Q \ {p}) \cup {s}) PROVE x \in Contents(Q)
      BY <3>1 DEF Contents
    <3>3. ASSUME NEW x \in Contents(Q) PROVE x \in Contents((Q \ {p}) \cup {s})
      <4>1. PICK q \in Q : x = <<q.block, q.names>>
        BY DEF Contents
      <4>2. CASE q = p
        BY <4>1, <4>2, <3>1 DEF Contents
      <4>3. CASE q # p
        BY <4>1, <4>3 DEF Contents
      <4> QED
        BY <4>2, <4>3
    <3> QED
      BY <3>2, <3>3 DEF Q
  <2> QED
    BY <2>1, <2>4 DEF SameContents, s, d
<1> QED
  BY <1>1, <1>2

LEMMA TickContents ==
    ASSUME NEW ch, Good(ch)
    PROVE  SameContents(Tick(ch), ch)
<1> SUFFICES ASSUME NEW w \in BOOLEAN
             PROVE  Contents(QueueOf(Tick(ch), w)) = Contents(QueueOf(ch, w))
  BY DEF SameContents
<1>1. QueueOf(Tick(ch), w) = {AgedPacket(p) : p \in QueueOf(ch, w)}
  BY TickFields DEF Good
<1>2. \A p \in QueueOf(ch, w) : /\ AgedPacket(p).block = p.block
                                /\ AgedPacket(p).names = p.names
  BY PacketFields, AgedFields DEF SamePacket
<1> QED
  BY <1>1, <1>2 DEF Contents

LEMMA OperatedContents ==
    ASSUME NEW ch, Good(ch)
    PROVE  SameContents(Operated(ch), Finish(ch))
<1>1. Good(Finish(ch)) /\ Finishing(Finish(ch)) = {}
  BY FinishGood, NothingLeftToFinish
<1>2. Good(Switched(ch)) /\ SameContents(Switched(ch), Finish(ch))
  BY <1>1, SwitchGood, SwitchContents DEF Switched
<1>3. /\ Good(UseBus(Switched(ch))) /\ SameContents(UseBus(Switched(ch)), Switched(ch))
      /\ SameContents(Schedule(UseBus(Switched(ch))), UseBus(Switched(ch)))
      /\ SameContents(Operated(ch), Schedule(UseBus(Switched(ch))))
  BY <1>2, UseBusGood, UseBusContents, ScheduleGood, ScheduleContents, TickContents DEF Operated
<1> QED
  BY <1>2, <1>3 DEF SameContents

-----------------------------------------------------------------------------
\* A block is queued on its own channel.
Located(ch, c) == \A write \in BOOLEAN : \A p \in QueueOf(ch, write) : Channel(p.block) = c

LEMMA OperatedLocated ==
    ASSUME NEW ch, Good(ch), NEW c, Located(ch, c)
    PROVE  Located(Operated(ch), c)
<1> DEFINE d == Operated(ch)
<1>1. \A w \in BOOLEAN : Contents(QueueOf(d, w)) = Contents(QueueOf(Finish(ch), w))
  BY OperatedContents DEF SameContents
<1>2. \A w \in BOOLEAN : QueueOf(Finish(ch), w) \subseteq QueueOf(ch, w)
  BY FinishFields DEF Good
<1> HIDE DEF d
<1>3. ASSUME NEW w \in BOOLEAN, NEW p \in QueueOf(d, w)
      PROVE  Channel(p.block) = c
  <2>1. <<p.block, p.names>> \in Contents(QueueOf(Finish(ch), w))
    BY <1>1 DEF Contents
  <2>2. PICK q \in QueueOf(Finish(ch), w) : <<p.block, p.names>> = <<q.block, q.names>>
    BY <2>1 DEF Contents
  <2> QED
    BY <1>2, <2>2 DEF Located
<1> QED
  BY <1>3 DEF Located, d

IInv ==
    /\ channel \in [Channels -> ChannelState]
    /\ lastTransfer \in [Channels -> Transfer]
    /\ \A c \in Channels :
          Good(channel[c]) /\ Located(channel[c], c) /\ BusRemembered(channel[c], lastTransfer[c])
    /\ fastForward \in BOOLEAN
    /\ pending \subseteq Name
    /\ requests \in 0 .. MaxRequests

LEMMA InitIInv == Init => IInv
<1> SUFFICES ASSUME Init PROVE IInv
  OBVIOUS
<1> DEFINE h == [write |-> FALSE, since |-> DRAM_DBUS_TURN_AROUND_TIME]
<1>1. /\ channel = [c \in Channels |-> NewChannel]
      /\ lastTransfer = [c \in Channels |-> h]
      /\ fastForward \in BOOLEAN /\ pending \subseteq Name /\ requests \in 0 .. MaxRequests
  BY BoundAssumption DEF Init
<1>2. NewChannel \in ChannelState
  BY BanksAreNumbers DEF NewChannel, ChannelState
<1>3. /\ NewChannel.RQ = {} /\ NewChannel.WQ = {} /\ NewChannel.busy = {}
      /\ NewChannel.active = NoBank /\ NewChannel.write = FALSE
  BY DEF NewChannel
<1>4. \A w \in BOOLEAN : QueueOf(NewChannel, w) = {}
  BY <1>3 DEF QueueOf
<1>5. /\ Good(NewChannel)
      /\ \A c \in Channels : Located(NewChannel, c)
  BY <1>2, <1>3, <1>4 DEF Good, DistinctPackets, OneRequestPerBank, RequestsHavePackets,
       PacketsHaveRequests, ModeOfRequests, ActiveIsBusy, Located
<1>6. h \in Transfer /\ h.since >= 0 /\ h.write = FALSE
  BY TimingAssumption DEF Transfer
<1> HIDE DEF h
<1>7. BusRemembered(NewChannel, h)
  BY <1>3, <1>6 DEF BusRemembered, OnBus
<1> QED
  BY <1>1, <1>2, <1>5, <1>6, <1>7 DEF IInv

\* One channel was changed: IInv holds again if it is good.
LEMMA ChangedChannel ==
    ASSUME IInv, NEW c \in Channels, NEW d, Good(d), Located(d, c),
           d.busy = channel[c].busy, d.active = channel[c].active,
           d.dbus = channel[c].dbus, d.write = channel[c].write,
           channel' = [channel EXCEPT ![c] = d],
           pending' \subseteq Name, requests' \in 0 .. MaxRequests,
           UNCHANGED <<fastForward, lastTransfer>>
    PROVE  IInv'
<1>1. d \in ChannelState
  BY DEF Good
<1>2. BusRemembered(d, lastTransfer[c])
  BY DEF IInv, BusRemembered, OnBus
<1>3. channel' \in [Channels -> ChannelState]
  BY <1>1 DEF IInv
<1>4. \A x \in Channels : channel'[x] = IF x = c THEN d ELSE channel[x]
  BY DEF IInv
<1>5. \A x \in Channels : /\ Good(channel'[x]) /\ Located(channel'[x], x)
                          /\ BusRemembered(channel'[x], lastTransfer[x])
  BY <1>2, <1>4 DEF IInv
<1> QED
  BY <1>3, <1>5 DEF IInv

LEMMA OperateIInv ==
    ASSUME IInv, Operate
    PROVE  /\ IInv'
           /\ \A c \in Channels : lastTransfer'[c].write # lastTransfer[c].write
                  => lastTransfer[c].since >= DRAM_DBUS_TURN_AROUND_TIME
<1>1. /\ channel' = [c \in Channels |-> Operated(channel[c])]
      /\ lastTransfer' = [c \in Channels |-> Recorded(lastTransfer[c], Switched(channel[c]))]
      /\ pending' \subseteq pending /\ UNCHANGED <<fastForward, requests>>
  BY DEF Operate
<1>2. ASSUME NEW c \in Channels
      PROVE  /\ Good(channel[c]) /\ Located(channel[c], c)
             /\ lastTransfer[c] \in Transfer /\ BusRemembered(channel[c], lastTransfer[c])
  BY DEF IInv
<1>3. ASSUME NEW c \in Channels
      PROVE  LET e == Recorded(lastTransfer[c], Switched(channel[c]))
             IN  /\ e \in Transfer
                 /\ BusRemembered(Operated(channel[c]), e)
                 /\ e.write # lastTransfer[c].write
                        => lastTransfer[c].since >= DRAM_DBUS_TURN_AROUND_TIME
  BY <1>2, OperatedRemembers
<1>4. ASSUME NEW c \in Channels
      PROVE  /\ Operated(channel[c]) \in ChannelState
             /\ Good(Operated(channel[c])) /\ Located(Operated(channel[c]), c)
  <2>1. Good(Operated(channel[c]))
    BY <1>2, OperatedGood
  <2>2. Located(Operated(channel[c]), c)
    BY <1>2, OperatedLocated
  <2> QED
    BY <2>1, <2>2 DEF Good
<1>5. channel' \in [Channels -> ChannelState] /\ lastTransfer' \in [Channels -> Transfer]
  BY <1>1, <1>3, <1>4
<1>6. \A c \in Channels :
          /\ Good(channel'[c]) /\ Located(channel'[c], c)
          /\ BusRemembered(channel'[c], lastTransfer'[c])
  BY <1>1, <1>3, <1>4
<1>7. /\ fastForward' \in BOOLEAN /\ pending' \subseteq Name /\ requests' \in 0 .. MaxRequests
  BY <1>1 DEF IInv
<1>8. IInv'
  BY <1>5, <1>6, <1>7 DEF IInv
<1> QED
  BY <1>1, <1>3, <1>8

LEMMA AskedCounts ==
    ASSUME requests \in 0 .. MaxRequests, Asked
    PROVE  requests' \in 0 .. MaxRequests
BY BoundAssumption DEF Asked

LEMMA AddRqIInv ==
    ASSUME IInv, NEW n \in Name, NEW b \in Block, AddRq(n, b)
    PROVE  IInv'
<1> DEFINE c == Channel(b)
           ch == channel[c]
           same == Of(ch.RQ, b)
<1>1. /\ requests' \in 0 .. MaxRequests /\ UNCHANGED <<fastForward, lastTransfer>>
      /\ c \in Channels /\ Good(ch) /\ Located(ch, c)
  BY AskedCounts, GeometryOfBlock DEF AddRq, IInv
<1>2. CASE fastForward \/ Of(ch.WQ, b) # {}
  <2>1. UNCHANGED <<channel, pending>>
    BY <1>2 DEF AddRq
  <2> QED
    BY <1>1, <2>1 DEF IInv
<1>3. CASE ~ (fastForward \/ Of(ch.WQ, b) # {}) /\ same # {}
  <2> DEFINE q == (ch.RQ \ same) \cup {[p EXCEPT !.names = @ \cup {n}] : p \in same}
             d == [ch EXCEPT !.RQ = q]
  <2>1. pending' = pending \cup {n} /\ channel' = [channel EXCEPT ![c] = d]
    BY <1>1, <1>3 DEF AddRq, IInv
  <2>2. Good(d) /\ d.RQ = Joined(ch.RQ, b, n)
    BY <1>1, JoinGood
  <2> HIDE DEF q
  <2>3. /\ d.busy = ch.busy /\ d.active = ch.active /\ d.dbus = ch.dbus /\ d.write = ch.write
        /\ d.WQ = ch.WQ
    BY <1>1 DEF Good, ChannelState
  <2> HIDE DEF d
  <2>4. Located(d, c)
    <3> SUFFICES ASSUME NEW w \in BOOLEAN, NEW u \in QueueOf(d, w)
                 PROVE  Channel(u.block) = c
      BY DEF Located
    <3>1. CASE w
      BY <3>1, <2>3, <1>1 DEF Located, QueueOf
    <3>2. CASE ~ w
      <4>1. PICK p \in ch.RQ : u = JoinedPacket(p, b, n)
        BY <3>2, <2>2 DEF QueueOf, Joined
      <4>2. p \in Packet(DRAM_RQ_SIZE)
        BY <1>1, <4>1 DEF Good, ChannelState
      <4>3. u.block = p.block
        <5>1. SamePacket(JoinedPacket(p, b, n), p)
          BY <4>2, JoinedFields
        <5> QED
          BY <4>1, <5>1 DEF SamePacket
      <4>4. p \in QueueOf(ch, FALSE)
        BY DEF QueueOf
      <4>5. Channel(p.block) = c
        BY <4>4, <1>1 DEF Located
      <4> QED
        BY <4>3, <4>5, Zenon
    <3> QED
      BY <3>1, <3>2
  <2>5. pending' \subseteq Name
    BY <2>1 DEF IInv
  <2> HIDE DEF c
  <2> QED
    BY <1>1, <2>1, <2>2, <2>3, <2>4, <2>5, ChangedChannel
<1>4. CASE ~ (fastForward \/ Of(ch.WQ, b) # {}) /\ same = {}
  <2> DEFINE who == {n}
             q == Queued(ch.RQ, DRAM_RQ_SIZE, b, who)
             d == [ch EXCEPT !.RQ = q]
  <2>1. /\ pending' = pending \cup {n} /\ channel' = [channel EXCEPT ![c] = d]
        /\ FreeSlots(ch.RQ, DRAM_RQ_SIZE) # {} /\ who \in SUBSET Name
    BY <1>1, <1>4 DEF AddRq, IInv
  <2> HIDE DEF who
  <2>2. Good(d) /\ Gains(d.RQ, ch.RQ, b, who)
    <3>1. Good(ch) /\ Of(ch.RQ, b) = {} /\ FreeSlots(ch.RQ, DRAM_RQ_SIZE) # {}
      BY <1>1, <1>4, <2>1
    <3>2. who \in SUBSET Name
      BY <2>1
    <3>3. d = [ch EXCEPT !.RQ = Queued(ch.RQ, DRAM_RQ_SIZE, b, who)]
      OBVIOUS
    <3> HIDE DEF d, ch, c
    <3> QED
      BY <3>1, <3>2, <3>3, AddReadGood
  <2> HIDE DEF q
  <2>3. /\ d.busy = ch.busy /\ d.active = ch.active /\ d.dbus = ch.dbus /\ d.write = ch.write
        /\ d.WQ = ch.WQ
    BY <1>1 DEF Good, ChannelState
  <2> HIDE DEF d
  <2>4. Located(d, c)
    BY <1>1, <2>2, <2>3 DEF Located, QueueOf, Gains, NewPacket
  <2>5. pending' \subseteq Name
    BY <2>1 DEF IInv
  <2> HIDE DEF c
  <2> QED
    BY <1>1, <2>1, <2>2, <2>3, <2>4, <2>5, ChangedChannel
<1> QED
  BY <1>2, <1>3, <1>4

LEMMA AddWqIInv ==
    ASSUME IInv, NEW b \in Block, AddWq(b)
    PROVE  IInv'
<1> DEFINE c == Channel(b)
           ch == channel[c]
<1>1. /\ requests' \in 0 .. MaxRequests /\ UNCHANGED <<fastForward, pending, lastTransfer>>
      /\ c \in Channels /\ Good(ch) /\ Located(ch, c)
  BY AskedCounts, GeometryOfBlock DEF AddWq, IInv
<1>2. CASE fastForward \/ Of(ch.WQ, b) # {}
  <2>1. UNCHANGED channel
    BY <1>2 DEF AddWq
  <2> QED
    BY <1>1, <2>1 DEF IInv
<1>3. CASE ~ (fastForward \/ Of(ch.WQ, b) # {})
  <2> DEFINE q == Queued(ch.WQ, DRAM_WQ_SIZE, b, {})
             d == [ch EXCEPT !.WQ = q]
  <2>1. channel' = [channel EXCEPT ![c] = d] /\ FreeSlots(ch.WQ, DRAM_WQ_SIZE) # {}
    BY <1>1, <1>3 DEF AddWq, IInv
  <2>2. Good(d) /\ Gains(d.WQ, ch.WQ, b, {})
    BY <1>1, <1>3, <2>1, AddWriteGood
  <2> HIDE DEF q
  <2>3. /\ d.busy = ch.busy /\ d.active = ch.active /\ d.dbus = ch.dbus /\ d.write = ch.write
        /\ d.RQ = ch.RQ
    BY <1>1 DEF Good, ChannelState
  <2> HIDE DEF d
  <2>4. Located(d, c)
    BY <1>1, <2>2, <2>3 DEF Located, QueueOf, Gains, NewPacket
  <2>5. pending' \subseteq Name
    BY <1>1 DEF IInv
  <2> HIDE DEF c
  <2> QED
    BY <1>1, <2>1, <2>2, <2>3, <2>4, <2>5, ChangedChannel
<1> QED
  BY <1>2, <1>3

LEMMA NextIInv == IInv /\ [Next]_vars => IInv'
<1> SUFFICES ASSUME IInv, [Next]_vars PROVE IInv'
  OBVIOUS
<1>1. CASE Operate
  BY <1>1, OperateIInv
<1>2. ASSUME NEW n \in Name, NEW b \in Block, AddRq(n, b) PROVE IInv'
  BY <1>2, AddRqIInv
<1>3. ASSUME NEW b \in Block, AddWq(b) PROVE IInv'
  BY <1>3, AddWqIInv
<1>4. CASE FinishWarmup
  BY <1>4 DEF FinishWarmup, IInv
<1>5. CASE UNCHANGED vars
  BY <1>5 DEF vars, IInv
<1> QED
  BY <1>1, <1>2, <1>3, <1>4, <1>5 DEF Next

LEMMA SpecIInv == Spec => []IInv
BY InitIInv, NextIInv, PTL DEF Spec

-----------------------------------------------------------------------------
\* Everything stays what the code declares it to be, for every geometry and timing:
\* slots within their queues, banks and rows within the channel, dbus a time to come.
THEOREM DramTypeOK == Spec => []TypeOK
<1>1. IInv => TypeOK
  <2> SUFFICES ASSUME IInv PROVE TypeOK
    OBVIOUS
  <2>1. ASSUME NEW c \in Channels PROVE channel[c] \in ChannelState
    BY DEF IInv
  <2> QED
    BY <2>1 DEF IInv, TypeOK, ChannelState, Transfer
<1> QED
  BY <1>1, SpecIInv, PTL

\* A busy bank works on one queued and scheduled packet of its open row, and every
\* scheduled packet has its bank: switching the modes (which takes banks away) and
\* clearing a finished packet leave neither a dangling pkt nor a packet that is
\* never scheduled again.
THEOREM DramBankHasItsPacket == Spec => []BankHasItsPacket
<1>1. IInv => BankHasItsPacket
  <2> SUFFICES ASSUME IInv, NEW c \in Channels
               PROVE  LET ch == channel[c]
                          queue(write) == IF write THEN ch.WQ ELSE ch.RQ
                      IN  /\ \A r \in ch.busy :
                               /\ r.bank # ch.active => r.write = ch.write
                               /\ \A x \in ch.busy : x.bank = r.bank => x = r
                               /\ \E p \in queue(r.write) :
                                      /\ p.slot = r.slot /\ p.scheduled
                                      /\ OpIdx(p.block) = r.bank
                                      /\ Row(p.block) = ch.row[r.bank]
                          /\ \A write \in BOOLEAN : \A p \in queue(write) :
                               p.scheduled => \E r \in ch.busy : PointsTo(r, p, write)
                          /\ ch.active # NoBank => OnBus(ch) # {}
    BY DEF BankHasItsPacket
  <2> DEFINE ch == channel[c]
  <2>1. Good(ch)
    BY DEF IInv
  <2> HIDE DEF ch
  <2>2. ASSUME NEW r \in ch.busy
        PROVE  /\ r.bank # ch.active => r.write = ch.write
               /\ \A x \in ch.busy : x.bank = r.bank => x = r
               /\ \E p \in QueueOf(ch, r.write) :
                      /\ p.slot = r.slot /\ p.scheduled
                      /\ OpIdx(p.block) = r.bank /\ Row(p.block) = ch.row[r.bank]
    BY <2>1 DEF Good, ModeOfRequests, OneRequestPerBank, RequestsHavePackets
  <2>3. \A write \in BOOLEAN : \A p \in QueueOf(ch, write) :
            p.scheduled => \E r \in ch.busy : PointsTo(r, p, write)
    BY <2>1 DEF Good, PacketsHaveRequests, PointsTo
  <2>4. ch.active # NoBank => OnBus(ch) # {}
    BY <2>1 DEF Good, ActiveIsBusy
  <2> QED
    BY <2>2, <2>3, <2>4 DEF QueueOf, ch
<1> QED
  BY <1>1, SpecIInv, PTL

\* Data goes the other way on a channel's bus no earlier than the turn-around time
\* after the last transfer ended, whatever was on the bus when the mode switched.
THEOREM DramBusTurnsAround == Spec => BusTurnsAround
<1>1. IInv /\ [Next]_vars =>
        [\A c \in Channels : lastTransfer'[c].write # lastTransfer[c].write
            => lastTransfer[c].since >= DRAM_DBUS_TURN_AROUND_TIME]_vars
  <2> SUFFICES ASSUME IInv, Next
               PROVE  \A c \in Channels : lastTransfer'[c].write # lastTransfer[c].write
                        => lastTransfer[c].since >= DRAM_DBUS_TURN_AROUND_TIME
    BY DEF vars
  <2>1. CASE Operate
    BY <2>1, OperateIInv
  <2>2. CASE UNCHANGED lastTransfer
    BY <2>2
  <2> QED
    BY <2>1, <2>2 DEF Next, AddRq, AddWq, FinishWarmup
<1> QED
  BY <1>1, SpecIInv, PTL DEF Spec, BusTurnsAround

-----------------------------------------------------------------------------
\* The memory that the channels are together.
Readers(S, b) == UNION {p.names : p \in Of(S, b)}

LEMMA ContentsDecide ==
    ASSUME NEW S, NEW T, Contents(S) = Contents(T), NEW b
    PROVE  Readers(S, b) = Readers(T, b) /\ (Of(S, b) = {} <=> Of(T, b) = {})
<1>1. ASSUME NEW X, NEW Y, Contents(X) = Contents(Y), NEW p \in Of(X, b)
      PROVE  \E q \in Of(Y, b) : q.names = p.names
  <2>1. p \in X /\ p.block = b
    BY DEF Of
  <2>2. <<p.block, p.names>> \in Contents(Y)
    BY <1>1, <2>1 DEF Contents
  <2>3. PICK q \in Y : <<p.block, p.names>> = <<q.block, q.names>>
    BY <2>2 DEF Contents
  <2> QED
    BY <2>1, <2>3 DEF Of
<1>2. /\ \A p \in Of(S, b) : \E q \in Of(T, b) : q.names = p.names
      /\ \A p \in Of(T, b) : \E q \in Of(S, b) : q.names = p.names
  BY <1>1
<1> QED
  BY <1>2 DEF Readers

\* What a cycle does to the reads and to the writes of a block.
LEMMA OperatedServes ==
    ASSUME NEW ch, Good(ch), NEW b
    PROVE  LET d == Operated(ch)
           IN  /\ Readers(d.RQ, b) = IF Of(Released(ch, ch.RQ, FALSE), b) # {} THEN {}
                                     ELSE Readers(ch.RQ, b)
               /\ Of(d.WQ, b) # {} <=> (/\ Of(ch.WQ, b) # {}
                                        /\ Of(Released(ch, ch.WQ, TRUE), b) = {})
<1> DEFINE d == Operated(ch)
           f == Finish(ch)
<1>1. /\ Contents(d.RQ) = Contents(f.RQ) /\ Contents(d.WQ) = Contents(f.WQ)
      /\ f.RQ = ch.RQ \ Released(ch, ch.RQ, FALSE)
      /\ f.WQ = ch.WQ \ Released(ch, ch.WQ, TRUE)
  BY OperatedContents, FinishFields DEF SameContents, QueueOf, Good
<1> HIDE DEF d, f
<1>2. /\ Readers(d.RQ, b) = Readers(f.RQ, b)
      /\ Of(d.WQ, b) # {} <=> Of(f.WQ, b) # {}
  BY <1>1, ContentsDecide
<1>3. \A w \in BOOLEAN : \A p, q \in QueueOf(ch, w) : p.block = q.block => p = q
  BY DEF Good, DistinctPackets
<1>4. \A p, q \in ch.RQ : p.block = q.block => p = q
  BY <1>3 DEF QueueOf
<1>5. \A p, q \in ch.WQ : p.block = q.block => p = q
  BY <1>3 DEF QueueOf
<1>6. /\ Released(ch, ch.RQ, FALSE) \subseteq ch.RQ
      /\ Released(ch, ch.WQ, TRUE) \subseteq ch.WQ
  BY DEF Released
<1>7. Of(f.RQ, b) = IF Of(Released(ch, ch.RQ, FALSE), b) # {} THEN {} ELSE Of(ch.RQ, b)
  BY <1>1, <1>4, <1>6 DEF Of
<1>8. Of(f.WQ, b) = IF Of(Released(ch, ch.WQ, TRUE), b) # {} THEN {} ELSE Of(ch.WQ, b)
  BY <1>1, <1>5, <1>6 DEF Of
<1>9. Readers(f.RQ, b) = IF Of(Released(ch, ch.RQ, FALSE), b) # {} THEN {}
                         ELSE Readers(ch.RQ, b)
  BY <1>7 DEF Readers
<1> QED
  BY <1>2, <1>8, <1>9 DEF d

\* A channel finishes at most one request in a cycle.
LEMMA OneReleased ==
    ASSUME NEW ch, Good(ch),
           NEW v \in BOOLEAN, NEW w \in BOOLEAN,
           NEW p \in Released(ch, QueueOf(ch, v), v), NEW q \in Released(ch, QueueOf(ch, w), w)
    PROVE  v = w /\ p = q
<1>1. PICK r \in Finishing(ch) : PointsTo(r, p, v)
  BY DEF Released
<1>2. PICK x \in Finishing(ch) : PointsTo(x, q, w)
  BY DEF Released
<1>3. r = x
  BY DEF Finishing, OnBus, Good, OneRequestPerBank
<1>4. v = w /\ p.slot = q.slot
  BY <1>1, <1>2, <1>3 DEF PointsTo
<1> QED
  BY <1>4 DEF Released, Good, DistinctPackets

LEMMA JoinReaders ==
    ASSUME NEW S, NEW m, S \subseteq Packet(m), NEW b, NEW n \in Name, Of(S, b) # {}, NEW x,
           NEW T, T = Joined(S, b, n)
    PROVE  Readers(T, x) = IF x = b THEN Readers(S, x) \cup {n} ELSE Readers(S, x)
<1>1. \A p \in S : LET u == JoinedPacket(p, b, n)
                   IN  /\ u.block = p.block
                       /\ u.names = IF p.block = b THEN p.names \cup {n} ELSE p.names
  <2> SUFFICES ASSUME NEW p \in S
               PROVE  LET u == JoinedPacket(p, b, n)
                      IN  /\ u.block = p.block
                          /\ u.names = IF p.block = b THEN p.names \cup {n} ELSE p.names
    OBVIOUS
  <2>1. p \in Packet(m)
    OBVIOUS
  <2> QED
    BY <2>1, JoinedFields DEF SamePacket
<1>2. Of(T, x) = {JoinedPacket(p, b, n) : p \in Of(S, x)}
  BY <1>1, ZenonT(60) DEF Of, Joined
<1>3. \A p \in Of(S, x) :
          JoinedPacket(p, b, n).names = IF x = b THEN p.names \cup {n} ELSE p.names
  BY <1>1 DEF Of
<1>4. \A y : y \in Readers(T, x) <=> \E p \in Of(S, x) : y \in JoinedPacket(p, b, n).names
  BY <1>2 DEF Readers
<1>5. \A y : y \in Readers(S, x) <=> \E p \in Of(S, x) : y \in p.names
  BY DEF Readers
<1>6. CASE x = b
  <2>1. \A y : y \in Readers(T, x) <=> \E p \in Of(S, x) : y \in p.names \/ y = n
    BY <1>3, <1>4, <1>6
  <2>2. \A y : y \in Readers(T, x) <=> y \in Readers(S, x) \/ y = n
    BY <2>1, <1>5, <1>6
  <2> QED
    BY <2>2, <1>6
<1>7. CASE x # b
  <2>1. \A y : y \in Readers(T, x) <=> \E p \in Of(S, x) : y \in p.names
    BY <1>3, <1>4, <1>7
  <2>2. \A y : y \in Readers(T, x) <=> y \in Readers(S, x)
    BY <2>1, <1>5
  <2> QED
    BY <2>2, <1>7
<1> QED
  BY <1>6, <1>7

LEMMA GainReaders ==
    ASSUME NEW S, NEW T, NEW b, NEW who, Gains(T, S, b, who), NEW x
    PROVE  /\ Readers(T, x) = IF x = b THEN Readers(S, x) \cup who ELSE Readers(S, x)
           /\ Of(T, x) # {} <=> (Of(S, x) # {} \/ x = b)
<1>1. PICK i : T = S \cup {NewPacket(i, b, who)}
  BY DEF Gains
<1> DEFINE u == NewPacket(i, b, who)
<1>2. T = S \cup {u} /\ u.block = b /\ u.names = who
  BY <1>1 DEF NewPacket
<1> HIDE DEF u
<1>3. Of(T, x) = IF x = b THEN Of(S, x) \cup {u} ELSE Of(S, x)
  BY <1>2 DEF Of
<1> QED
  BY <1>2, <1>3 DEF Readers

-----------------------------------------------------------------------------
\* The refinement, step by step.
ReadsNow  == [b \in Block |-> UNION {p.names : p \in Of(channel[Channel(b)].RQ, b)}]
WritesNow == {b \in Block : Of(channel[Channel(b)].WQ, b) # {}}

\* The blocks that one cycle answers and writes.
Served == {b \in Block : Of(Released(channel[Channel(b)], channel[Channel(b)].RQ, FALSE), b) # {}}
Written == {b \in Block : Of(Released(channel[Channel(b)], channel[Channel(b)].WQ, TRUE), b) # {}}

LEMMA OnePerChannel ==
    ASSUME IInv
    PROVE  /\ \A a, b \in Served : Channel(a) = Channel(b) => a = b
           /\ \A a, b \in Written : Channel(a) = Channel(b) => a = b
           /\ \A a \in Served, b \in Written : Channel(a) # Channel(b)
<1> DEFINE blocks(w) == {b \in Block :
                LET ch == channel[Channel(b)]
                IN  Of(Released(ch, QueueOf(ch, w), w), b) # {}}
<1>1. Served = blocks(FALSE) /\ Written = blocks(TRUE)
  BY DEF Served, Written, QueueOf
<1>2. ASSUME NEW v \in BOOLEAN, NEW w \in BOOLEAN, NEW a \in blocks(v), NEW b \in blocks(w),
             Channel(a) = Channel(b)
      PROVE  a = b /\ v = w
  <2> DEFINE ch == channel[Channel(a)]
  <2>1. Good(ch)
    BY GeometryOfBlock DEF IInv
  <2>2. PICK p \in Released(ch, QueueOf(ch, v), v) : p.block = a
    BY DEF Of
  <2>3. PICK q \in Released(ch, QueueOf(ch, w), w) : q.block = b
    BY <1>2 DEF Of
  <2> HIDE DEF ch
  <2>4. v = w /\ p = q
    BY <2>1, OneReleased
  <2> QED
    BY <2>2, <2>3, <2>4
<1> HIDE DEF blocks
<1>3. TRUE \in BOOLEAN /\ FALSE \in BOOLEAN /\ TRUE # FALSE
  OBVIOUS
<1> QED
  BY <1>1, <1>2, <1>3

LEMMA ServedCount ==
    ASSUME IInv
    PROVE  Cardinality(Served) + Cardinality(Written) <= DRAM_CHANNELS
<1> DEFINE W == {Channel(b) : b \in Written}
           f == [b \in Served |-> Channel(b)]
           g == [b \in Written |-> Channel(b)]
<1>1. DRAM_CHANNELS \in Nat \ {0}
  BY GeometryAssumption
<1>2. IsFiniteSet(Channels) /\ Cardinality(Channels) = DRAM_CHANNELS
  BY <1>1, FS_Interval DEF Channels
<1>3. /\ \A b \in Served : Channel(b) \in Channels
      /\ \A b \in Written : Channel(b) \in Channels
  BY GeometryOfBlock DEF Served, Written
<1>4. W \subseteq Channels
  BY <1>3
<1>5. IsFiniteSet(W) /\ W \cap Channels = W
  BY <1>2, <1>4, FS_Subset
<1>6. f \in Injection(Served, Channels \ W)
  BY <1>3, OnePerChannel DEF Injection, IsInjective
<1>7. g \in Injection(Written, W)
  BY OnePerChannel DEF Injection, IsInjective
<1> HIDE DEF f, g, W
<1>8. /\ IsFiniteSet(Channels \ W)
      /\ Cardinality(Channels \ W) = DRAM_CHANNELS - Cardinality(W)
  <2>1. Channels \cap W = W
    BY <1>5
  <2> QED
    BY <1>2, <2>1, FS_Difference
<1>9. IsFiniteSet(Served) /\ Cardinality(Served) <= Cardinality(Channels \ W)
  BY <1>6, <1>8, FS_Injection
<1>10. IsFiniteSet(Written) /\ Cardinality(Written) <= Cardinality(W)
  BY <1>5, <1>7, FS_Injection
<1>11. Cardinality(Served) \in Nat /\ Cardinality(Written) \in Nat /\ Cardinality(W) \in Nat
  BY <1>5, <1>9, <1>10, FS_CardinalityType
<1> QED
  BY <1>1, <1>8, <1>9, <1>10, <1>11

LEMMA AnsweredNames ==
    ASSUME IInv
    PROVE  UNION {Answered(channel[c]) : c \in Channels} = UNION {ReadsNow[b] : b \in Served}
<1>1. ASSUME NEW c \in Channels, NEW n \in Answered(channel[c])
      PROVE  \E b \in Served : n \in ReadsNow[b]
  <2> DEFINE ch == channel[c]
  <2>1. PICK p \in Released(ch, ch.RQ, FALSE) : n \in p.names
    BY DEF Answered
  <2>2. p \in ch.RQ
    BY DEF Released
  <2>3. p.block \in Block /\ Channel(p.block) = c
    <3>1. Good(ch) /\ Located(ch, c)
      BY DEF IInv
    <3> QED
      BY <2>2, <3>1 DEF Located, QueueOf, Good, ChannelState, Packet
  <2>4. p.block \in Served
    BY <2>3 DEF Served, Of
  <2>5. n \in ReadsNow[p.block]
    BY <2>1, <2>2, <2>3 DEF ReadsNow, Of
  <2> QED
    BY <2>4, <2>5
<1>2. ASSUME NEW b \in Served, NEW n \in ReadsNow[b]
      PROVE  \E c \in Channels : n \in Answered(channel[c])
  <2> DEFINE c == Channel(b)
             ch == channel[c]
  <2>1. b \in Block /\ c \in Channels
    BY GeometryOfBlock DEF Served
  <2>2. PICK p \in ch.RQ : p.block = b /\ n \in p.names
    BY <2>1 DEF ReadsNow, Of
  <2>3. PICK q \in Released(ch, ch.RQ, FALSE) : q.block = b
    BY DEF Served, Of
  <2>4. p = q
    <3>1. DistinctPackets(ch)
      BY <2>1 DEF IInv, Good
    <3>2. p \in QueueOf(ch, FALSE) /\ q \in QueueOf(ch, FALSE)
      BY DEF QueueOf, Released
    <3> QED
      BY <2>2, <2>3, <3>1, <3>2 DEF DistinctPackets
  <2> QED
    BY <2>1, <2>2, <2>3, <2>4 DEF Answered
<1> QED
  BY <1>1, <1>2

LEMMA SameCardinality ==
    ASSUME NEW S
    PROVE  Abstract!Cardinality(S) = Cardinality(S)
BY Zenon DEF Abstract!Cardinality, Cardinality

LEMMA OperateServes ==
    ASSUME IInv, Operate
    PROVE  Abstract!Serve
<1>1. Served \in SUBSET Block /\ Written \in SUBSET WritesNow
  BY DEF Served, Written, WritesNow, Released, Of
<1>2. Cardinality(Served) + Cardinality(Written) <= DRAM_CHANNELS
  BY ServedCount
<1>3. ASSUME NEW b \in Block
      PROVE  /\ Readers(channel'[Channel(b)].RQ, b) =
                    IF b \in Served THEN {} ELSE Readers(channel[Channel(b)].RQ, b)
             /\ Of(channel'[Channel(b)].WQ, b) # {}
                    <=> Of(channel[Channel(b)].WQ, b) # {} /\ b \notin Written
  <2> DEFINE c == Channel(b)
             ch == channel[c]
  <2>1. c \in Channels /\ Good(ch)
    BY GeometryOfBlock DEF IInv
  <2>2. channel'[c] = Operated(ch)
    BY <2>1 DEF Operate
  <2>3. /\ b \in Served <=> Of(Released(ch, ch.RQ, FALSE), b) # {}
        /\ b \in Written <=> Of(Released(ch, ch.WQ, TRUE), b) # {}
    BY DEF Served, Written
  <2> HIDE DEF ch
  <2>4. LET d == Operated(ch)
        IN  /\ Readers(d.RQ, b) = IF Of(Released(ch, ch.RQ, FALSE), b) # {} THEN {}
                                  ELSE Readers(ch.RQ, b)
            /\ Of(d.WQ, b) # {} <=> (/\ Of(ch.WQ, b) # {}
                                     /\ Of(Released(ch, ch.WQ, TRUE), b) = {})
    BY <2>1, OperatedServes
  <2> QED
    BY <2>2, <2>3, <2>4 DEF ch
<1>4. ReadsNow' = [b \in Block |-> IF b \in Served THEN {} ELSE ReadsNow[b]]
  BY <1>3 DEF ReadsNow, Readers
<1>5. WritesNow' = WritesNow \ Written
  BY <1>3 DEF WritesNow
<1>6. pending' = pending \ UNION {ReadsNow[b] : b \in Served}
  BY AnsweredNames DEF Operate
<1>7. \E R \in SUBSET Block, W \in SUBSET WritesNow :
          /\ Abstract!Cardinality(R) + Abstract!Cardinality(W) <= DRAM_CHANNELS
          /\ ReadsNow' = [b \in Block |-> IF b \in R THEN {} ELSE ReadsNow[b]]
          /\ WritesNow' = WritesNow \ W
          /\ pending' = pending \ UNION {ReadsNow[b] : b \in R}
  <2> HIDE DEF ReadsNow, WritesNow
  <2> QED
    BY <1>1, <1>2, <1>4, <1>5, <1>6, SameCardinality
<1> QED
  BY <1>7, Zenon DEF Abstract!Serve, ReadsNow, WritesNow

LEMMA AddRqImplements ==
    ASSUME IInv, NEW n \in Name, NEW b \in Block, AddRq(n, b)
    PROVE  Abstract!AcceptRead(n, b) \/ UNCHANGED <<ReadsNow, WritesNow, pending>>
<1> DEFINE c == Channel(b)
           ch == channel[c]
           same == Of(ch.RQ, b)
<1>1. c \in Channels /\ Good(ch) /\ ch \in ChannelState /\ channel \in [Channels -> ChannelState]
  BY GeometryOfBlock DEF IInv, Good
<1>2. CASE fastForward \/ Of(ch.WQ, b) # {}
  <2>1. UNCHANGED <<channel, pending>>
    BY <1>2 DEF AddRq
  <2> QED
    BY <2>1 DEF ReadsNow, WritesNow
<1>3. CASE ~ (fastForward \/ Of(ch.WQ, b) # {})
  <2>1. ASSUME NEW d, channel' = [channel EXCEPT ![c] = d], d.WQ = ch.WQ,
               \A x : Readers(d.RQ, x) = IF x = b THEN Readers(ch.RQ, x) \cup {n}
                                         ELSE Readers(ch.RQ, x)
        PROVE  /\ ReadsNow' = [ReadsNow EXCEPT ![b] = @ \cup {n}]
               /\ WritesNow' = WritesNow
    <3>1. \A x \in Channels : channel'[x] = IF x = c THEN d ELSE channel[x]
      BY <1>1, <2>1
    <3>2. ASSUME NEW x \in Block
          PROVE  /\ Readers(channel'[Channel(x)].RQ, x) =
                        IF x = b THEN Readers(channel[Channel(x)].RQ, x) \cup {n}
                        ELSE Readers(channel[Channel(x)].RQ, x)
                 /\ channel'[Channel(x)].WQ = channel[Channel(x)].WQ
      <4>1. Channel(x) \in Channels
        BY GeometryOfBlock
      <4>2. CASE Channel(x) = c
        BY <4>1, <4>2, <3>1, <2>1
      <4>3. CASE Channel(x) # c
        BY <4>1, <4>3, <3>1
      <4> QED
        BY <4>2, <4>3
    <3>3. ReadsNow' = [ReadsNow EXCEPT ![b] = @ \cup {n}]
      BY <3>2 DEF ReadsNow, Readers
    <3>4. WritesNow' = WritesNow
      BY <3>2 DEF WritesNow
    <3> QED
      BY <3>3, <3>4
  <2>2. pending' = pending \cup {n} /\ n \notin pending /\ b \notin WritesNow
    BY <1>3 DEF AddRq, WritesNow
  <2>3. CASE same # {}
    <3> DEFINE q == (ch.RQ \ same) \cup {[p EXCEPT !.names = @ \cup {n}] : p \in same}
               d == [ch EXCEPT !.RQ = q]
    <3>1. channel' = [channel EXCEPT ![c] = d]
      BY <1>1, <1>3, <2>3 DEF AddRq
    <3>2. d.RQ = Joined(ch.RQ, b, n)
      BY <1>1, JoinGood
    <3> HIDE DEF q
    <3>3. d.WQ = ch.WQ
      BY <1>1 DEF ChannelState
    <3> HIDE DEF d
    <3>4. \A x : Readers(d.RQ, x) = IF x = b THEN Readers(ch.RQ, x) \cup {n}
                                    ELSE Readers(ch.RQ, x)
      <4>1. ch.RQ \subseteq Packet(DRAM_RQ_SIZE)
        BY <1>1 DEF ChannelState
      <4> DEFINE S == ch.RQ
                 T == d.RQ
      <4>2. Of(S, b) # {} /\ T = Joined(S, b, n) /\ S \subseteq Packet(DRAM_RQ_SIZE)
        BY <2>3, <3>2, <4>1
      <4> HIDE DEF S, T
      <4>3. \A x : Readers(T, x) = IF x = b THEN Readers(S, x) \cup {n} ELSE Readers(S, x)
        BY <4>2, JoinReaders
      <4> QED
        BY <4>3 DEF S, T
    <3>5. ReadsNow' = [ReadsNow EXCEPT ![b] = @ \cup {n}] /\ WritesNow' = WritesNow
      BY <2>1, <3>1, <3>3, <3>4
    <3> QED
      BY <2>2, <3>5 DEF Abstract!AcceptRead, ReadsNow, WritesNow
  <2>4. CASE same = {}
    <3> DEFINE who == {n}
               q == Queued(ch.RQ, DRAM_RQ_SIZE, b, who)
               d == [ch EXCEPT !.RQ = q]
    <3>1. /\ channel' = [channel EXCEPT ![c] = d] /\ who \in SUBSET Name
          /\ FreeSlots(ch.RQ, DRAM_RQ_SIZE) # {}
      BY <1>1, <1>3, <2>4 DEF AddRq
    <3> HIDE DEF who
    <3>2. Gains(d.RQ, ch.RQ, b, who)
      <4>1. Good(ch) /\ Of(ch.RQ, b) = {} /\ FreeSlots(ch.RQ, DRAM_RQ_SIZE) # {}
        BY <1>1, <2>4, <3>1
      <4>2. who \in SUBSET Name
        BY <3>1
      <4>3. d = [ch EXCEPT !.RQ = Queued(ch.RQ, DRAM_RQ_SIZE, b, who)]
        OBVIOUS
      <4> HIDE DEF d, ch, c
      <4> QED
        BY <4>1, <4>2, <4>3, AddReadGood
    <3> HIDE DEF q
    <3>3. d.WQ = ch.WQ
      BY <1>1 DEF ChannelState
    <3> HIDE DEF d
    <3>4. \A x : Readers(d.RQ, x) = IF x = b THEN Readers(ch.RQ, x) \cup {n}
                                    ELSE Readers(ch.RQ, x)
      BY <3>2, GainReaders, SMTT(60) DEF who
    <3>5. ReadsNow' = [ReadsNow EXCEPT ![b] = @ \cup {n}] /\ WritesNow' = WritesNow
      BY <2>1, <3>1, <3>3, <3>4
    <3> QED
      BY <2>2, <3>5 DEF Abstract!AcceptRead, ReadsNow, WritesNow
  <2> QED
    BY <2>3, <2>4
<1> QED
  BY <1>2, <1>3

LEMMA AddWqImplements ==
    ASSUME IInv, NEW b \in Block, AddWq(b)
    PROVE  Abstract!AcceptWrite(b) \/ UNCHANGED <<ReadsNow, WritesNow, pending>>
<1> DEFINE c == Channel(b)
           ch == channel[c]
<1>1. c \in Channels /\ Good(ch) /\ ch \in ChannelState /\ channel \in [Channels -> ChannelState]
  BY GeometryOfBlock DEF IInv, Good
<1>2. CASE fastForward \/ Of(ch.WQ, b) # {}
  <2>1. UNCHANGED <<channel, pending>>
    BY <1>2 DEF AddWq
  <2> QED
    BY <2>1 DEF ReadsNow, WritesNow
<1>3. CASE ~ (fastForward \/ Of(ch.WQ, b) # {})
  <2> DEFINE q == Queued(ch.WQ, DRAM_WQ_SIZE, b, {})
             d == [ch EXCEPT !.WQ = q]
  <2>1. /\ channel' = [channel EXCEPT ![c] = d] /\ pending' = pending
        /\ FreeSlots(ch.WQ, DRAM_WQ_SIZE) # {}
    BY <1>1, <1>3 DEF AddWq
  <2>2. Gains(d.WQ, ch.WQ, b, {})
    BY <1>1, <1>3, <2>1, AddWriteGood
  <2> HIDE DEF q
  <2>3. d.RQ = ch.RQ
    BY <1>1 DEF ChannelState
  <2> HIDE DEF d
  <2>4. \A x : Of(d.WQ, x) # {} <=> (Of(ch.WQ, x) # {} \/ x = b)
    BY <2>2, GainReaders
  <2>5. \A x \in Channels : channel'[x] = IF x = c THEN d ELSE channel[x]
    BY <1>1, <2>1
  <2>6. ASSUME NEW x \in Block
        PROVE  /\ channel'[Channel(x)].RQ = channel[Channel(x)].RQ
               /\ Of(channel'[Channel(x)].WQ, x) # {}
                      <=> (Of(channel[Channel(x)].WQ, x) # {} \/ x = b)
    <3>1. Channel(x) \in Channels
      BY GeometryOfBlock
    <3>2. CASE Channel(x) = c
      BY <3>1, <3>2, <2>3, <2>4, <2>5
    <3>3. CASE Channel(x) # c
      BY <3>1, <3>3, <2>5
    <3> QED
      BY <3>2, <3>3
  <2>7. ReadsNow' = ReadsNow
    BY <2>6 DEF ReadsNow
  <2>8. WritesNow' = WritesNow \cup {b}
    BY <2>6 DEF WritesNow
  <2> QED
    BY <2>1, <2>7, <2>8 DEF Abstract!AcceptWrite, ReadsNow, WritesNow
<1> QED
  BY <1>2, <1>3

LEMMA InitImplements == Init => Abstract!Init
<1> SUFFICES ASSUME Init PROVE Abstract!Init
  OBVIOUS
<1>1. pending = {} /\ \A c \in Channels : channel[c].RQ = {} /\ channel[c].WQ = {}
  BY DEF Init, NewChannel
<1>2. \A b \in Block : /\ Of(channel[Channel(b)].RQ, b) = {}
                       /\ Of(channel[Channel(b)].WQ, b) = {}
  BY <1>1, GeometryOfBlock DEF Of
<1> QED
  BY <1>1, <1>2 DEF Abstract!Init

LEMMA NextImplements == IInv /\ [Next]_vars => [Abstract!Next]_<<ReadsNow, WritesNow, pending>>
<1> SUFFICES ASSUME IInv, [Next]_vars
             PROVE  Abstract!Next \/ UNCHANGED <<ReadsNow, WritesNow, pending>>
  OBVIOUS
<1>1. CASE Operate
  BY <1>1, OperateServes DEF Abstract!Next
<1>2. ASSUME NEW n \in Name, NEW b \in Block, AddRq(n, b)
      PROVE  Abstract!Next \/ UNCHANGED <<ReadsNow, WritesNow, pending>>
  BY <1>2, AddRqImplements DEF Abstract!Next
<1>3. ASSUME NEW b \in Block, AddWq(b)
      PROVE  Abstract!Next \/ UNCHANGED <<ReadsNow, WritesNow, pending>>
  BY <1>3, AddWqImplements DEF Abstract!Next
<1>4. CASE FinishWarmup \/ UNCHANGED vars
  BY <1>4 DEF FinishWarmup, vars, ReadsNow, WritesNow
<1> QED
  BY <1>1, <1>2, <1>3, <1>4 DEF Next

\* The banks, the bus and the modes together are the memory that the caches rely
\* on: reads of a block are joined, a read of a block about to be written is
\* answered at once, everything accepted is served once, and a cycle serves at most
\* one request of each channel.
THEOREM DramImplementsMemoryService == Spec => ImplementsMemoryService
BY InitImplements, SpecIInv, NextImplements, PTL
   DEF Spec, ImplementsMemoryService, Abstract!Spec, Abstract!vars, ReadsNow, WritesNow
=============================================================================
