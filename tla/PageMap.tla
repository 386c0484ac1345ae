------------------------------- MODULE PageMap --------------------------------
(***************************************************************************)
(* What the kernel expects of page directories, without the tables: each   *)
(* owner has a map from pages to entries.  A new one is Fresh; one call    *)
(* gives consecutive pages consecutive frames with the same flags, in one  *)
(* owner's map, and leaves every other page and every other owner alone.   *)
(***************************************************************************)
EXTENDS Integers

CONSTANTS
  Owner, Page,
  Fresh,      \* the map of a new directory
  Nothing     \* in place of a map: no directory

VARIABLE map

Init == map = [o \in Owner |-> Nothing]

Create(o) == map[o] = Nothing /\ map' = [map EXCEPT ![o] = Fresh]

Destroy(o) == map[o] # Nothing /\ map' = [map EXCEPT ![o] = Nothing]

\* The pages from first to last get entries as far apart as the pages are.
MapRange(o) ==
  LET old == map[o]
      new == map'[o]
      changed == {page \in Page : new[page] # old[page]}
  IN  /\ old # Nothing /\ new # Nothing
      /\ map' = [map EXCEPT ![o] = new]
      /\ \E first, last \in changed : \A page \in Page :
           new[page] = IF page \in first .. last THEN new[first] + (page - first)
                       ELSE old[page]

Next == \E o \in Owner : Create(o) \/ Destroy(o) \/ MapRange(o)

Spec == Init /\ [][Next]_map
==============================================================================
