-------------------------------- MODULE MCHeap --------------------------------
(* Small heap: 6 blocks of 4 bytes at address 16, 8-bit words. *)
EXTENDS HeapScan

MCBlockSize == 4
MCHeapAddress == 16
MCTableTotal == 6
MCWord == 256
\* one, two, three and four blocks, the exact multiples and one byte over
MCSizes == {1, 4, 5, 8, 9, 13}
==============================================================================
