----------------------------- MODULE MCFileTable -----------------------------
(* Three descriptors, the last of them out of reach; a directory with a      *)
(* deleted entry, a subdirectory, a name twice and an entry behind the ones  *)
(* that are counted; volumes that are mounted and not; memory for a full    *)
(* table and one more open; loads of an ELF file, a binary, a name behind the *)
(* counted ones and a directory.                                             *)
EXTENDS Loader

CONSTANTS nameA, nameB, nameC, nameDir, nameOld

File(n, bytes) == [name |-> n, attributes |-> "FILE", filesize |-> bytes]

MCDirectory ==
  << File(nameA, 2),
     [name |-> nameOld, attributes |-> "DELETED", filesize |-> 2],
     [name |-> nameDir, attributes |-> "SUBDIRECTORY", filesize |-> 0],
     File(nameB, 3),
     File(nameA, 1),
     File(nameC, 3) >>

\* files, a directory, the root, a path with two and with an empty part
MCPaths ==
  {<<nameA>>, <<nameB>>, <<nameC>>, <<nameDir>>, << >>, <<nameDir, nameA>>,
   <<nameB, EMPTY, nameA>>}

MCOffsets == {-1, 2}

Found(readable, signature, root) ==
  [readable |-> readable, signature |-> signature, root |-> root]

MCVolumes == {Found(TRUE, 41, TRUE), Found(TRUE, 40, TRUE),
              Found(FALSE, 0, FALSE), Found(TRUE, 41, FALSE)}

MCPrograms == {<<nameA>>, <<nameB>>, <<nameC>>, <<nameDir>>}

MCElfNames == {nameB}
==============================================================================
