------------------------- MODULE SequentialMachine -------------------------
(***************************************************************************)
(* What an out-of-order core promises about memory: the trace's            *)
(* instructions leave it one after another, each having read what the      *)
(* instructions before it stored, and their stores reach the memory once   *)
(* and in order.  A value is named after the instruction that stored it.   *)
(***************************************************************************)
EXTENDS Naturals, Sequences

CONSTANTS Address

VARIABLES
    program,    \* the trace: a sequence of instructions with .load and .store
    retired,    \* how many instructions have left
    wrote,      \* how many stores of the next one are in the memory
    memory,     \* the instruction that stored last to each address, 0 at first
    results     \* what each retired instruction read: <<address, value>>s

Stores(n, a) == \E k \in 1 .. Len(program[n].store) : program[n].store[k] = a

\* What a load of a by instruction n returns in a sequential execution.
LastStore(n, a) ==
    LET before == {m \in 1 .. n - 1 : Stores(m, a)}
    IN  IF before = {} THEN 0 ELSE CHOOSE m \in before : \A l \in before : l <= m

Reads(n) == {<<program[n].load[j], LastStore(n, program[n].load[j])>> : j \in 1 .. Len(program[n].load)}

Init ==
    /\ retired = 0
    /\ wrote = 0
    /\ memory = [a \in Address |-> 0]
    /\ results = <<>>

\* The next instruction writes up to its m-th store, and leaves when that is the last.
Step(m) ==
    LET n == retired + 1
        written == {program[n].store[k] : k \in wrote + 1 .. m}
    IN  /\ memory' = [a \in Address |-> IF a \in written THEN n ELSE memory[a]]
        /\ \/ /\ m < Len(program[n].store)
              /\ wrote' = m
              /\ UNCHANGED <<retired, results>>
           \/ /\ m = Len(program[n].store)
              /\ wrote' = 0
              /\ retired' = n
              /\ results' = Append(results, Reads(n))
        /\ UNCHANGED program

Next ==
    /\ retired < Len(program)
    /\ \E m \in wrote .. Len(program[retired + 1].store) : Step(m)

Spec == Init /\ [][Next]_<<program, retired, wrote, memory, results>>

=============================================================================
