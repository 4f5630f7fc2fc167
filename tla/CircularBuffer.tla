--------------------------- MODULE CircularBuffer ---------------------------
(***************************************************************************)
(* The index and iterator arithmetic of champsim::circular_buffer          *)
(* (inc/circular_buffer.hpp).  A buffer of capacity Size keeps Size + 1    *)
(* slots so that head = tail means empty; iterators are slot numbers.      *)
(***************************************************************************)
EXTENDS Integers

CONSTANT Size   \* the capacity sz_ the buffer is constructed with

ASSUME SizeAssumption == Size \in Nat \ {0}

Slots == Size + 1
Slot  == 0 .. Size

\* Mutant: the index does not come back to the first slot.
CircIncNoWrap(base, inc) == base + inc

\* circ_inc: the while loops run at most once, |inc| never exceeds Slots here.
CircInc(base, inc) ==
    IF base + inc < 0 THEN base + inc + Slots
    ELSE IF base + inc >= Slots THEN base + inc - Slots
    ELSE base + inc

\* Mutant: the distance of plain array iterators.
DistanceNoWrap(head, a, b) == a - b

\* operator-(a, b): the signed distance from iterator b to iterator a.  The
\* second correction is the code's: its sign is the opposite of the distance.
Distance(head, a, b) ==
    IF a < head /\ head <= b THEN Slots + (a - b)
    ELSE IF b < head /\ head <= a THEN Slots - (a - b)
    ELSE a - b

\* operator< and operator== (through <= and >=) over iterators.
Before(head, a, b)  == Distance(head, b, a) > 0
SameIter(head, a, b) == ~ Before(head, b, a) /\ ~ Before(head, a, b)

Occupancy(head, tail) == Distance(head, tail, head)
IsFull(head, tail)    == Occupancy(head, tail) = Size
IsEmpty(head, tail)   == Occupancy(head, tail) = 0

\* The slots an iterator that starts at head visits before it reaches stop.
VisitedUntil(head, stop) ==
    { CircInc(head, i) : i \in 0 .. (IF stop < head THEN stop + Slots - head
                                     ELSE stop - head) - 1 }
=============================================================================
