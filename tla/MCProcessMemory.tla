--------------------------- MODULE MCProcessMemory ---------------------------
(* Two processes with two allocation slots each on a heap of 10 blocks: room *)
(* for both and two more, so that loads and mallocs also fail.               *)
EXTENDS ProcessMemory, TLC

Symmetry == Permutations(Process)

MCTableTotal == 10
MCWord == 64
MCSizes == {1, 2}
==============================================================================
