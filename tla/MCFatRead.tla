------------------------------ MODULE MCFatRead ------------------------------
(* Sectors of 4 bytes, clusters of 2 sectors, a table of 4 sectors; files of *)
(* one, two and three clusters, one of them out of order on the disk.        *)
EXTENDS FatRead

MCFiles == {<<2>>, <<3, 4>>, <<7, 5, 6>>}
MCSizes == 1 .. 9
MCMembers == 1 .. 3
MCPositions == 0 .. 9
\* end of chain, unused, bad, and words that look like clusters
MCStrays == {65535, 0, 3959, 2, 7}
==============================================================================
