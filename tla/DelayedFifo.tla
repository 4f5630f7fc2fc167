---------------------------- MODULE DelayedFifo ----------------------------
(***************************************************************************)
(* What champsim::delay_queue promises its clients: a bounded FIFO whose   *)
(* members may leave only after they have waited.  `queue` holds the       *)
(* members oldest first, each with the number of cycles it still has to    *)
(* wait; `ready` counts the members, from the oldest, that may leave now.  *)
(***************************************************************************)
EXTENDS Integers, Sequences

CONSTANTS Capacity, Latency, WaitFloor, Member

VARIABLES queue, ready

Waited(w) == IF w > WaitFloor THEN w - 1 ELSE w

\* The length of the longest prefix that has no member left to wait.
IsReadyPrefix(q, n) ==
    /\ \A i \in 1 .. n : q[i].wait <= 0
    /\ n < Len(q) => q[n + 1].wait > 0

Init ==
    /\ queue = <<>>
    /\ ready = 0

Insert(m, w) ==
    /\ Len(queue) < Capacity
    /\ queue' = Append(queue, [item |-> m, wait |-> w])
    /\ UNCHANGED ready

Release ==
    /\ ready > 0
    /\ queue' = Tail(queue)
    /\ ready' = ready - 1

Cycle ==
    /\ queue' = [i \in 1 .. Len(queue) |->
                    [queue[i] EXCEPT !.wait = Waited(queue[i].wait)]]
    /\ ready' \in 0 .. Len(queue)
    /\ IsReadyPrefix(queue', ready')

Next ==
    \/ \E m \in Member, w \in {0, Latency} : Insert(m, w)
    \/ Release
    \/ Cycle

Spec == Init /\ [][Next]_<<queue, ready>>
=============================================================================
