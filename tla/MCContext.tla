------------------------------ MODULE MCContext ------------------------------
(* Three programs: two that wait while a third is loaded, exits or faults.   *)
(* A division by zero, a page fault, the clock, the keyboard and a vector    *)
(* without a callback; commands in and out of the table and beyond it.       *)
EXTENDS Context, TLC

Symmetry == Permutations(Task)

MCVectors == {0, 14, 32, 33, 46}

MCCommands == {-1, 0, 8, 9, 1024}
==============================================================================
