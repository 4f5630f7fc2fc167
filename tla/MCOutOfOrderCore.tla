-------------------------- MODULE MCOutOfOrderCore --------------------------
(***************************************************************************)
(* Traces for OutOfOrderCore.                                              *)
(***************************************************************************)
EXTENDS OutOfOrderCore

Instr(src, dst, load, store, page, line, window) ==
    [src |-> src, dst |-> dst, load |-> load, store |-> store, page |-> page, line |-> line, window |-> window]

\* A store, another that first loads what it stored, and loads of both.
Forwarding ==
    <<Instr({}, {}, <<>>, <<"A">>, 1, 1, 1),
      Instr({}, {1}, <<"A">>, <<"B">>, 1, 1, 2),
      Instr({1}, {1}, <<"A", "B">>, <<>>, 1, 2, 3)>>

\* A store that waits for a load, and behind it two stores in one instruction, of
\* which the L1D may refuse the second, and a load of what they stored.
Refusing ==
    <<Instr({}, {1}, <<"A">>, <<>>, 1, 1, 1),
      Instr({1}, {}, <<>>, <<"A">>, 1, 1, 2),
      Instr({}, {}, <<>>, <<"A", "B">>, 1, 1, 3),
      Instr({}, {}, <<"A">>, <<>>, 1, 1, 3)>>

\* A load, a conditional branch on it and a direct jump in the window of the load.
Branching ==
    <<Instr({}, {25}, <<"A">>, <<>>, 1, 1, 1),
      Instr({25, 26}, {26}, <<>>, <<>>, 1, 1, 2),
      Instr({}, {26}, <<>>, <<>>, 1, 1, 1),
      Instr({}, {}, <<>>, <<>>, 2, 2, 1)>>

\* A loop in one window: the DIB hits while translations are under way.
Looping == [n \in 1 .. 5 |-> Instr({1}, {1}, <<>>, <<>>, 1, 1, 1)]

\* A load pair that takes A from the second instruction and B from the first.
Pairing ==
    <<Instr({}, {}, <<>>, <<"A", "B">>, 1, 1, 1),
      Instr({}, {}, <<>>, <<"A">>, 1, 1, 2),
      Instr({}, {1}, <<"A", "B">>, <<>>, 1, 1, 3)>>

MCPairing == {[code |-> Pairing, warm |-> 1]}

MCTraces ==
    {[code |-> c, warm |-> w] : c \in {Forwarding, Refusing, Branching}, w \in {1, 3}}
        \cup {[code |-> Looping, warm |-> 1]}
=============================================================================
