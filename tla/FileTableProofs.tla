--------------------------- MODULE FileTableProofs ----------------------------
(***************************************************************************)
(* Proofs about open files and the loads of programs, for any number of    *)
(* descriptors, any root directory, any paths and any size of memory.      *)
(***************************************************************************)
EXTENDS Loader, TLAPS, FiniteSetTheorems, NaturalsInduction, WellFoundedInduction

\* The paths that are opened, by whomever.
Opened == Paths \cup Programs

\* The entry each open descriptor's private data copies exists.
ItemsExist ==
  \A f \in Used : private[file_descriptors[f].private].item \in DOMAIN Directory

\* OwnMemory without a cardinality.
Separate ==
  \A f \in Used :
    /\ Behind(f) \subseteq taken
    /\ file_descriptors[f].self # file_descriptors[f].private
    /\ \A g \in Used \ {f} : Behind(f) \cap Behind(g) = {}

\* The inductive invariant of the calls.
TableInv ==
  /\ TypeOK /\ path \in [Index -> Opened \cup {<< >>}]
  /\ ItemsExist /\ Separate /\ Accounted /\ OpensNamedFile

------------------------------------------------------------------------------
(* The operators. *)

\* Lowest picks a least number.
LEMMA LowestExists ==
  ASSUME NEW S \in SUBSET Nat, S # {}
  PROVE  Lowest(S) \in S /\ \A y \in S : Lowest(S) <= y
<1> DEFINE R == OpToRel(<, Nat)
<1>1. \A y, z \in Nat : y < z => <<y, z>> \in R
  BY SMT DEF OpToRel
<1> HIDE DEF R
<1>2. IsWellFoundedOn(R, Nat)
  BY NatLessThanWellFounded DEF R
<1>3. PICK x \in S : \A y \in S : ~(<<y, x>> \in R)
  BY <1>2, WFMin
<1>4. \A y \in S : x <= y
  <2> SUFFICES ASSUME NEW y \in S PROVE ~(y < x)
    OBVIOUS
  <2>1. x \in Nat /\ y \in Nat
    OBVIOUS
  <2>2. y < x => <<y, x>> \in R
    BY <1>1, <2>1, Zenon
  <2> QED
    BY <1>3, <2>2, Zenon
<1> QED
  BY <1>4 DEF Lowest

\* Highest picks a greatest one of numbers that are bounded.
LEMMA HighestExists ==
  ASSUME NEW n \in Nat, NEW S \in SUBSET (0 .. n), S # {}
  PROVE  Highest(S) \in S /\ \A y \in S : y <= Highest(S)
<1> DEFINE T == {m \in Nat : \E y \in S : m = n - y}
<1>1. T \in SUBSET Nat /\ T # {}
  <2>1. PICK y \in S : y \in 0 .. n
    OBVIOUS
  <2>2. n - y \in T
    BY <2>1
  <2> QED
    BY <2>2
<1>2. PICK m \in T : \A k \in T : m <= k
  BY <1>1, LowestExists
<1>3. PICK x \in S : m = n - x
  OBVIOUS
<1>4. \A y \in S : y <= x
  <2> SUFFICES ASSUME NEW y \in S PROVE y <= x
    OBVIOUS
  <2>1. n - y \in T
    OBVIOUS
  <2>2. m <= n - y
    BY <1>2, <2>1
  <2> QED
    BY <1>3, <2>2
<1> QED
  BY <1>4 DEF Highest

\* Free addresses are finitely many.
LEMMA AddressesFinite ==
  ASSUME NEW S \in SUBSET Address
  PROVE  IsFiniteSet(S) /\ Cardinality(S) \in Nat
<1>1. IsFiniteSet(Address)
  BY MemoryAssumption, FS_Interval DEF Address
<1> QED
  BY <1>1, FS_Subset, FS_CardinalityType

\* One more element makes a set larger by one at most.
LEMMA AddOne ==
  ASSUME NEW S, NEW x, IsFiniteSet(S)
  PROVE  /\ IsFiniteSet(S \cup {x})
         /\ Cardinality(S \cup {x}) \in Nat /\ Cardinality(S) \in Nat
         /\ Cardinality(S \cup {x}) <= Cardinality(S) + 1
<1>1. /\ IsFiniteSet(S \cup {x})
      /\ Cardinality(S \cup {x}) = IF x \in S THEN Cardinality(S) ELSE Cardinality(S) + 1
  BY FS_AddElement
<1>2. Cardinality(S \cup {x}) \in Nat /\ Cardinality(S) \in Nat
  BY <1>1, FS_CardinalityType
<1> QED
  BY <1>1, <1>2

\* Free(k) has addresses that are not in use, at most k of them.
LEMMA FreeIsFree ==
  ASSUME NEW k \in Nat
  PROVE  /\ Free(k) \subseteq Address \ taken
         /\ IsFiniteSet(Free(k)) /\ Cardinality(Free(k)) \in Nat
         /\ Cardinality(Free(k)) <= k
         /\ k # 0 /\ Address \ taken # {} => Free(k) # {}
<1> DEFINE free == Address \ taken
           below(a) == {b \in free : b < a}
<1>1. free \in SUBSET (0 .. Memory) /\ free \in SUBSET Address /\ free \in SUBSET Nat
  BY MemoryAssumption DEF Address
<1>2. Free(k) = {a \in free : Cardinality(below(a)) < k}
  BY DEF Free
<1>3. Free(k) \subseteq free
  BY <1>2
<1>4. IsFiniteSet(Free(k)) /\ Cardinality(Free(k)) \in Nat
  BY <1>1, <1>3, AddressesFinite
<1>5. CASE Free(k) = {}
  <2>1. k # 0 => free = {}
    <3> SUFFICES ASSUME k # 0, free # {} PROVE FALSE
      OBVIOUS
    <3>1. Lowest(free) \in free /\ \A y \in free : Lowest(free) <= y
      BY <1>1, LowestExists
    <3>2. below(Lowest(free)) = {}
      BY <1>1, <3>1
    <3>3. Cardinality(below(Lowest(free))) < k
      BY <3>2, FS_EmptySet
    <3> QED
      BY <1>2, <1>5, <3>1, <3>3
  <2> QED
    BY <1>3, <1>4, <1>5, <2>1, FS_EmptySet
<1>6. CASE Free(k) # {}
  <2> DEFINE m == Highest(Free(k))
  <2>1. Free(k) \in SUBSET (0 .. Memory)
    BY <1>1, <1>3
  <2>2. m \in Free(k) /\ \A y \in Free(k) : y <= m
    BY <1>6, <2>1, HighestExists, MemoryAssumption
  <2>3. below(m) \in SUBSET Address
    BY <1>1
  <2>4. IsFiniteSet(below(m)) /\ Cardinality(below(m)) \in Nat /\ Cardinality(below(m)) < k
    BY <1>2, <2>2, <2>3, AddressesFinite
  <2> HIDE DEF m
  <2>5. Free(k) \subseteq below(m) \cup {m}
    BY <1>1, <1>3, <2>2
  <2>6. /\ IsFiniteSet(below(m) \cup {m})
        /\ Cardinality(below(m) \cup {m}) <= Cardinality(below(m)) + 1
        /\ Cardinality(below(m) \cup {m}) \in Nat
    BY <2>4, AddOne
  <2>7. Cardinality(Free(k)) <= Cardinality(below(m) \cup {m})
    BY <2>5, <2>6, FS_Subset
  <2>8. Cardinality(Free(k)) <= k
    BY <1>4, <2>4, <2>6, <2>7
  <2> QED
    BY <1>3, <1>4, <1>6, <2>8
<1> QED
  BY <1>5, <1>6

\* Where there is room for one more than Free(k) takes, there is one.
LEMMA OneMore ==
  ASSUME NEW k \in Nat, HasRoom(k + 1)
  PROVE  (Address \ taken) \ Free(k) # {}
<1>1. IsFiniteSet(Address \ taken) /\ Cardinality(Address \ taken) \in Nat
  BY AddressesFinite
<1>2. Cardinality(Free(k)) <= k /\ Free(k) \subseteq Address \ taken /\ Cardinality(Free(k)) \in Nat
  BY FreeIsFree
<1> SUFFICES ASSUME Free(k) = Address \ taken PROVE FALSE
  BY <1>2
<1> QED
  BY <1>1, <1>2 DEF HasRoom

\* The directory search looks at entries of the directory only.
LEMMA MatchesExist ==
  ASSUME NEW n
  PROVE  /\ Matches(n) \subseteq DOMAIN Directory
         /\ Matches(n) \in SUBSET (0 .. Len(Directory))
         /\ IsFiniteSet(Matches(n))
         /\ Matches(n) # {} => /\ fat16_find_item_in_directory(n) \in DOMAIN Directory
                               /\ Directory[fat16_find_item_in_directory(n)].name = n
<1> DEFINE kept == {e \in DOMAIN Directory : Directory[e].attributes # "DELETED"}
<1>1. IsFiniteSet(DOMAIN Directory) /\ Cardinality(DOMAIN Directory) = Len(Directory)
  <2>1. /\ IsFiniteSet(1 .. Len(Directory))
        /\ Cardinality(1 .. Len(Directory)) = IF 1 > Len(Directory) THEN 0 ELSE Len(Directory) - 1 + 1
    BY DirectoryAssumption, FS_Interval
  <2> QED
    BY <2>1, DirectoryAssumption
<1>2. IsFiniteSet(kept) /\ Cardinality(kept) <= Len(Directory) /\ Cardinality(kept) \in Nat
  BY <1>1, FS_Subset, FS_CardinalityType
<1>3. Matches(n) \subseteq DOMAIN Directory
  <2>1. fat16_get_total_items_for_directory = Cardinality(kept)
    BY DEF fat16_get_total_items_for_directory
  <2> HIDE DEF kept
  <2>2. 1 .. Cardinality(kept) \subseteq 1 .. Len(Directory)
    BY <1>2, DirectoryAssumption
  <2> QED
    BY <2>1, <2>2, DirectoryAssumption DEF Matches
<1>4. Matches(n) \in SUBSET (0 .. Len(Directory)) /\ IsFiniteSet(Matches(n))
  BY <1>1, <1>3, DirectoryAssumption, FS_Subset
<1>5. ASSUME Matches(n) # {} PROVE Highest(Matches(n)) \in Matches(n)
  BY <1>4, <1>5, DirectoryAssumption, HighestExists
<1> QED
  BY <1>3, <1>4, <1>5 DEF fat16_find_item_in_directory, Matches

\* What a search loses is a number of blocks.
LEMMA LostIsNat ==
  ASSUME NEW n, Matches(n) # {}
  PROVE  LostInSearch(n) \subseteq Nat
<1> DEFINE dirs == {e \in Matches(n) : Directory[e].attributes = "SUBDIRECTORY"}
<1>1. IsFiniteSet(Matches(n)) /\ IsFiniteSet(dirs)
  BY MatchesExist, FS_Subset
<1>2. Cardinality(Matches(n)) \in Nat /\ Cardinality(dirs) \in Nat
  BY <1>1, FS_CardinalityType
<1>3. Cardinality(Matches(n)) # 0
  BY <1>1, FS_EmptySet
<1> QED
  BY <1>2, <1>3 DEF LostInSearch

\* A path that is parsed to one part has no second one.
LEMMA OnePart ==
  ASSUME NEW p \in Opened, Len(pathparser_parse(p)) = 1
  PROVE  /\ pathparser_parse(p)[1] = p[1] /\ Len(p) >= 1
         /\ Len(p) = 1 \/ p[2] = EMPTY
<1> DEFINE ends == {k \in DOMAIN p : p[k] = EMPTY}
           n == IF ends = {} THEN Len(p) ELSE Lowest(ends) - 1
<1>0. p \in Seq({p[k] : k \in DOMAIN p}) /\ Len(p) \in Nat /\ DOMAIN p = 1 .. Len(p)
  BY PathsAssumption, ProgramsAssumption DEF Opened
<1>1. n \in Nat /\ (ends # {} => n + 1 \in DOMAIN p /\ p[n + 1] = EMPTY) /\ n <= Len(p)
  <2>1. ends \in SUBSET Nat
    BY <1>0
  <2>2. ends # {} => Lowest(ends) \in ends
    BY <2>1, LowestExists
  <2> QED
    BY <1>0, <2>2
<1>2. pathparser_parse(p) = IF n <= 1 THEN SubSeq(p, 1, n) ELSE <<p[1], p[n]>>
  BY DEF pathparser_parse
<1> HIDE DEF n
<1>3. n <= 1
  BY <1>2
<1>4. pathparser_parse(p) = SubSeq(p, 1, n)
  BY <1>2, <1>3
<1>5. SubSeq(p, 1, n) = [i \in 1 .. n |-> p[i]] /\ Len(SubSeq(p, 1, n)) = n
  BY <1>0, <1>1
<1>6. n = 1
  BY <1>4, <1>5
<1>7. ends = {} => n = Len(p)
  BY DEF n
<1> QED
  BY <1>0, <1>1, <1>4, <1>5, <1>6, <1>7

------------------------------------------------------------------------------
(* The calls keep TableInv. *)

\* The memory behind all open descriptors.
Held == UNION {Behind(f) : f \in Used}

\* An open descriptor names two addresses, and private data with an entry.
LEMMA UsedTyped ==
  ASSUME TableInv, NEW f \in Used
  PROVE  /\ f \in Index /\ file_descriptors[f].self \in Address
         /\ file_descriptors[f].private \in Address
         /\ Entry(f) = Directory[private[file_descriptors[f].private].item]
         /\ Entry(f).filesize \in 0 .. WORD - 1
         /\ Behind(f) \subseteq taken /\ Behind(f) \subseteq Held
<1>1. file_descriptors[f] \in [self : Address, private : Address]
  BY DEF TableInv, TypeOK, Used
<1>2. Behind(f) \subseteq taken
  BY DEF TableInv, Separate
<1> QED
  BY <1>1, <1>2, DirectoryAssumption DEF TableInv, ItemsExist, Entry, Used, Held

\* The disk, as disk_search_and_init leaves it.
LEMMA TableStart == Init => TableInv
<1> SUFFICES ASSUME Init PROVE TableInv
  OBVIOUS
<1>1. Used = {}
  BY DEF Init, Used
<1>2. taken \subseteq Address
  BY MemoryAssumption DEF Init, Streams, Address
<1>3. TypeOK
  BY <1>2, MaxDescriptorsAssumption
  DEF Init, TypeOK, NoDescriptor, NoPrivate, NULL, ALL_OK
<1>4. path \in [Index -> Opened \cup {<< >>}]
  BY DEF Init
<1>5. Accounted
  BY <1>1 DEF Accounted, Init
<1> QED
  BY <1>1, <1>3, <1>4, <1>5 DEF TableInv, ItemsExist, Separate, OpensNamedFile

\* A call that changes neither the table nor memory.
LEMMA ResultOnly ==
  ASSUME TableInv, res' \in -9 .. WORD - 1,
         UNCHANGED <<file_descriptors, private, taken, leaked, path>>
  PROVE  TableInv'
<1>1. Used' = Used /\ \A f : Behind(f)' = Behind(f) /\ Entry(f)' = Entry(f)
  BY DEF Used, Behind, Entry
<1>2. TypeOK' /\ path' \in [Index -> Opened \cup {<< >>}] /\ ItemsExist'
  BY <1>1 DEF TableInv, TypeOK, ItemsExist
<1>3. Separate' /\ Accounted' /\ OpensNamedFile'
  BY <1>1 DEF TableInv, Separate, Accounted, OpensNamedFile
<1> QED
  BY <1>2, <1>3 DEF TableInv

\* A call of fopen that fails loses free memory only.
LEMMA FailsKeeps ==
  ASSUME TableInv, NEW error \in -9 .. WORD - 1, NEW lost \in SUBSET (Address \ taken),
         Fails(error, lost)
  PROVE  TableInv'
<1>1. Used' = Used /\ \A f : Behind(f)' = Behind(f) /\ Entry(f)' = Entry(f)
  BY DEF Used, Behind, Entry, Fails
<1>2. TypeOK' /\ path' \in [Index -> Opened \cup {<< >>}] /\ ItemsExist'
  BY <1>1 DEF TableInv, TypeOK, ItemsExist, Fails
<1>3. Separate' /\ OpensNamedFile'
  BY <1>1 DEF TableInv, Separate, OpensNamedFile, Fails
<1>4. Accounted'
  <2>1. Held' = Held
    BY <1>1 DEF Held
  <2>2. taken = leaked \cup Held /\ leaked \cap Held = {}
    BY DEF TableInv, Accounted, Held
  <2>3. taken' = leaked' \cup Held' /\ leaked' \cap Held' = {}
    BY <2>1, <2>2 DEF Fails
  <2> QED
    BY <2>3 DEF Accounted, Held
<1> QED
  BY <1>2, <1>3, <1>4 DEF TableInv

\* A call of fopen that succeeds takes a free index, and memory nobody has.
LEMMA OpensKeeps ==
  ASSUME TableInv, NEW p \in Opened, NEW got \in SUBSET (Address \ taken),
         got # {}, (Address \ taken) \ got # {}, Used # Index,
         Len(pathparser_parse(p)) = 1, Matches(p[1]) # {},
         Opens(p, got)
  PROVE  /\ TableInv'
         /\ res' \in Index \ Used /\ \A g \in Index \ Used : res' <= g
         /\ Used' = Used \cup {res'}
<1>1. PICK fat \in got, self \in (Address \ taken) \ got, new \in Index \ Used,
           item \in DOMAIN Directory :
      /\ file_descriptors' = [file_descriptors EXCEPT ![new] = [self |-> self, private |-> fat]]
      /\ private' = [private EXCEPT ![fat] = [item |-> item, pos |-> 0]]
      /\ path' = [path EXCEPT ![new] = p]
      /\ taken' = taken \cup got \cup {self}
      /\ leaked' = leaked \cup (got \ {fat})
      /\ res' = new
      /\ Directory[item].name = p[1]
      /\ \A g \in Index \ Used : new <= g
  <2> DEFINE x == Lowest(got)
             y == Lowest((Address \ taken) \ got)
             z == file_new_descriptor
             w == fat16_find_item_in_directory(p[1])
  <2>1. x \in got
    BY LowestExists DEF Address
  <2>2. y \in (Address \ taken) \ got
    BY LowestExists DEF Address
  <2>3. z \in Index \ Used /\ \A g \in Index \ Used : z <= g
    <3>1. Index \ Used # {} /\ Index \ Used \in SUBSET Nat
      BY MaxDescriptorsAssumption DEF Used, Index
    <3> QED
      BY <3>1, LowestExists DEF file_new_descriptor
  <2>4. w \in DOMAIN Directory /\ Directory[w].name = p[1]
    BY MatchesExist
  <2>5. /\ file_descriptors' = [file_descriptors EXCEPT ![z] = [self |-> y, private |-> x]]
        /\ private' = [private EXCEPT ![x] = [item |-> w, pos |-> 0]]
        /\ path' = [path EXCEPT ![z] = p]
        /\ taken' = taken \cup got \cup {y}
        /\ leaked' = leaked \cup (got \ {x})
        /\ res' = z
    BY DEF Opens
  <2> HIDE DEF x, y, z, w
  <2> QED
    BY <2>1, <2>2, <2>3, <2>4, <2>5
<1>2. fat \in got
  OBVIOUS
<1>3. self \in (Address \ taken) \ got
  OBVIOUS
<1>4. new \in Index \ Used
  OBVIOUS
<1>5. item \in DOMAIN Directory /\ Directory[item].name = p[1]
  BY <1>1
<1>6. Len(p) = 1 \/ p[2] = EMPTY
  BY OnePart
<1>7. fat \in Address /\ self \in Address /\ fat # self /\ fat \notin taken /\ self \notin taken
  BY <1>2, <1>3
<1>8. TypeOK' /\ path' \in [Index -> Opened \cup {<< >>}]
  <2>1. res' \in -9 .. WORD - 1
    BY <1>1, <1>4, MaxDescriptorsAssumption DEF Index
  <2>2. file_descriptors' \in [Index -> [self : Address, private : Address] \cup {NoDescriptor}]
    BY <1>1, <1>4, <1>7 DEF TableInv, TypeOK
  <2>3. private' \in [Address -> [item : {0} \cup DOMAIN Directory, pos : 0 .. WORD - 1]]
    BY <1>1, <1>5, <1>7, MaxDescriptorsAssumption DEF TableInv, TypeOK
  <2>4. taken' \subseteq Address /\ leaked' \subseteq Address
    BY <1>1, <1>7 DEF TableInv, TypeOK
  <2>5. path' \in [Index -> Opened \cup {<< >>}]
    BY <1>1, <1>4 DEF TableInv
  <2> QED
    BY <2>1, <2>2, <2>3, <2>4, <2>5 DEF TypeOK
<1>9. /\ file_descriptors'[new] = [self |-> self, private |-> fat]
      /\ private'[fat] = [item |-> item, pos |-> 0]
      /\ path'[new] = p
  BY <1>1, <1>4, <1>7 DEF TableInv, TypeOK
<1>10. \A f \in Index \ {new} : file_descriptors'[f] = file_descriptors[f] /\ path'[f] = path[f]
  BY <1>1 DEF TableInv, TypeOK
<1>11. \A a \in Address \ {fat} : private'[a] = private[a]
  BY <1>1 DEF TableInv, TypeOK
<1>12. Used' = Used \cup {new}
  <2>1. file_descriptors'[new] # NoDescriptor
    BY <1>7, <1>9 DEF NoDescriptor, NULL, Address
  <2> QED
    BY <1>4, <1>10, <2>1 DEF Used
<1>13. Behind(new)' = {self, fat} /\ Entry(new)' = Directory[item]
  BY <1>9 DEF Behind, Entry
<1>14. ASSUME NEW f \in Used
       PROVE  /\ f # new /\ Behind(f)' = Behind(f) /\ Entry(f)' = Entry(f)
              /\ file_descriptors'[f] = file_descriptors[f] /\ path'[f] = path[f]
              /\ private'[file_descriptors[f].private] = private[file_descriptors[f].private]
              /\ file_descriptors[f].self # file_descriptors[f].private
              /\ Behind(f) \subseteq taken
              /\ private[file_descriptors[f].private].item \in DOMAIN Directory
              /\ Entry(f).name = path[f][1] /\ (Len(path[f]) = 1 \/ path[f][2] = EMPTY)
              /\ \A g \in Used \ {f} : Behind(f) \cap Behind(g) = {}
  <2>1. f \in Index \ {new}
    BY <1>4 DEF Used
  <2>2. file_descriptors[f].private \in taken /\ file_descriptors[f].private \in Address
    BY UsedTyped DEF Behind
  <2>3. private'[file_descriptors[f].private] = private[file_descriptors[f].private]
    BY <1>7, <1>11, <2>2
  <2> QED
    BY <1>10, <2>1, <2>3 DEF Behind, Entry, TableInv, Separate, ItemsExist, OpensNamedFile
<1>15. ItemsExist'
  BY <1>5, <1>9, <1>12, <1>14 DEF ItemsExist
<1>16. OpensNamedFile'
  BY <1>5, <1>6, <1>9, <1>12, <1>13, <1>14 DEF OpensNamedFile
<1>17. Separate'
  <2> SUFFICES ASSUME NEW f \in Used'
               PROVE  /\ Behind(f)' \subseteq taken'
                      /\ file_descriptors'[f].self # file_descriptors'[f].private
                      /\ \A g \in Used' \ {f} : Behind(f)' \cap Behind(g)' = {}
    BY DEF Separate
  <2>1. CASE f = new
    BY <1>1, <1>2, <1>7, <1>9, <1>12, <1>13, <1>14, <2>1
  <2>2. CASE f # new
    BY <1>1, <1>7, <1>12, <1>13, <1>14, <2>2
  <2> QED
    BY <2>1, <2>2
<1>18. Accounted'
  <2>1. Held' = Held \cup {self, fat}
    BY <1>12, <1>13, <1>14 DEF Held
  <2>2. taken = leaked \cup Held /\ leaked \cap Held = {}
    BY DEF TableInv, Accounted, Held
  <2>3. taken' = leaked' \cup Held' /\ leaked' \cap Held' = {}
    BY <1>1, <1>2, <1>3, <2>1, <2>2
  <2> QED
    BY <2>3 DEF Accounted, Held
<1> QED
  BY <1>1, <1>4, <1>8, <1>12, <1>15, <1>16, <1>17, <1>18 DEF TableInv

\* What fopen returns, and that it keeps TableInv: 0 or an error below 0, with
\* the table as it was, or an index that was free, from a volume that was found,
\* for a file that is there, by a path of one part.
LEMMA FopenKeeps ==
  ASSUME TableInv, NEW drive, NEW p \in Opened, NEW mode, fopen(drive, p, mode)
  PROVE  /\ TableInv'
         /\ \/ res' = 0 /\ UNCHANGED file_descriptors
            \/ res' = -NO_MEMORY_ERROR /\ Used = Index /\ UNCHANGED file_descriptors
            \/ /\ res' \in Index \ Used /\ mounted
               /\ \A g \in Index \ Used : res' <= g
               /\ Len(pathparser_parse(p)) = 1 /\ Matches(p[1]) # {}
               /\ Used' = Used \cup {res'}
         /\ mounted' = mounted
<1> DEFINE parts == pathparser_parse(p)
           losses == {1 + n : n \in LostInSearch(parts[1])}
           found == Matches(parts[1]) # {}
<1>1. \A k \in Nat : Free(k) \in SUBSET (Address \ taken)
  BY FreeIsFree
<1>2. 0 \in -9 .. WORD - 1 /\ -NO_MEMORY_ERROR \in -9 .. WORD - 1
  BY MaxDescriptorsAssumption DEF NO_MEMORY_ERROR
<1>3. ASSUME found, NEW lost \in losses
      PROVE  lost \in Nat /\ lost + 1 \in Nat /\ Free(lost + 1) \in SUBSET (Address \ taken)
  <2>1. lost \in Nat
    BY <1>3, LostIsNat
  <2> QED
    BY <1>1, <2>1
<1>4. CASE \E free \in SUBSET (Address \ taken) : Fails(0, free)
  BY <1>2, <1>4, FailsKeeps DEF Fails
<1>5. CASE /\ Used = Index /\ found
           /\ \E lost \in losses : Fails(-NO_MEMORY_ERROR, Free(lost + 1))
  <2>1. PICK lost \in losses : Fails(-NO_MEMORY_ERROR, Free(lost + 1))
    BY <1>5
  <2>2. Free(lost + 1) \in SUBSET (Address \ taken)
    BY <1>3, <1>5
  <2> QED
    BY <1>2, <1>5, <2>1, <2>2, FailsKeeps DEF Fails
<1>6. CASE /\ mounted /\ found /\ Len(parts) = 1 /\ Used # Index
           /\ \E lost \in losses : HasRoom(lost + 2) /\ Opens(p, Free(lost + 1))
  <2>0. PICK lost \in losses : HasRoom(lost + 2) /\ Opens(p, Free(lost + 1))
    BY <1>6
  <2> DEFINE got == Free(lost + 1)
  <2>1. parts[1] = p[1]
    BY <1>6, OnePart
  <2>2. lost \in Nat /\ lost + 1 \in Nat /\ got \in SUBSET (Address \ taken)
    BY <1>3, <1>6
  <2>3. (Address \ taken) \ got # {}
    <3>1. HasRoom((lost + 1) + 1)
      BY <2>0, <2>2 DEF HasRoom
    <3> QED
      BY <2>2, <3>1, OneMore
  <2>4. got # {}
    <3>1. lost + 1 # 0
      BY <2>2
    <3> QED
      BY <2>2, <2>3, <3>1, FreeIsFree
  <2>5. Matches(p[1]) # {}
    BY <1>6, <2>1
  <2>6. Opens(p, got)
    BY <2>0
  <2> HIDE DEF got
  <2>7. /\ TableInv'
        /\ res' \in Index \ Used /\ \A g \in Index \ Used : res' <= g
        /\ Used' = Used \cup {res'}
    BY <1>6, <2>2, <2>3, <2>4, <2>5, <2>6, OpensKeeps
  <2>8. mounted' = mounted
    BY <2>6 DEF Opens
  <2> QED
    BY <1>6, <2>5, <2>7, <2>8
<1>7. \/ \E free \in SUBSET (Address \ taken) : Fails(0, free)
      \/ /\ Used = Index /\ found
         /\ \E lost \in losses : Fails(-NO_MEMORY_ERROR, Free(lost + 1))
      \/ /\ mounted /\ found /\ Len(parts) = 1 /\ Used # Index
         /\ \E lost \in losses : HasRoom(lost + 2) /\ Opens(p, Free(lost + 1))
  <2>1. {} \in SUBSET (Address \ taken) /\ Free(1) \in SUBSET (Address \ taken)
        /\ Free(2) \in SUBSET (Address \ taken)
    BY <1>1
  <2>2. ASSUME found, NEW lost \in losses, Fails(0, Free(lost + 1))
        PROVE  \E free \in SUBSET (Address \ taken) : Fails(0, free)
    BY <1>3, <2>2
  <2> HIDE DEF found, losses
  <2> QED
    BY <2>1, <2>2 DEF fopen, parts, losses, found
<1> HIDE DEF parts, losses, found
<1> QED
  BY <1>4, <1>5, <1>6, <1>7 DEF parts

\* fseek moves one position and nothing else.
LEMMA FseekKeeps ==
  ASSUME TableInv, NEW f, NEW offset \in Int, NEW whence, fseek(f, offset, whence),
         f \in FileNumber
  PROVE  TableInv'
<1>1. CASE file_get_descriptor(f) = NoDescriptor
  <2>1. res' \in -9 .. WORD - 1 /\ UNCHANGED <<file_descriptors, private, taken, leaked, path>>
    BY <1>1, MaxDescriptorsAssumption DEF fseek, INVALID_ARGUMENT_ERROR
  <2> QED
    BY <2>1, ResultOnly
<1>2. CASE file_get_descriptor(f) # NoDescriptor
  <2>1. f \in Used /\ file_get_descriptor(f) = file_descriptors[f]
    BY <1>2, MaxDescriptorsAssumption DEF file_get_descriptor, FileNumber, Used, Index
  <2>2. PICK a \in Address : a = file_descriptors[f].private
    BY <2>1, UsedTyped
  <2>3. res' \in -9 .. WORD - 1
    BY <1>2, MaxDescriptorsAssumption
    DEF fseek, SeekResult, IO_ERROR, UNIMPLEMENTED_ERROR, ALL_OK, INVALID_ARGUMENT_ERROR
  <2>4. \/ private' = private
        \/ private' = [private EXCEPT ![a].pos = Sought(@, offset, whence)]
    BY <1>2, <2>1, <2>2 DEF fseek
  <2>5. private[a] \in [item : {0} \cup DOMAIN Directory, pos : 0 .. WORD - 1]
    BY DEF TableInv, TypeOK
  <2>6. Sought(private[a].pos, offset, whence) \in 0 .. WORD - 1
    BY <2>5, MaxDescriptorsAssumption DEF Sought
  <2>7. /\ private' \in [Address -> [item : {0} \cup DOMAIN Directory, pos : 0 .. WORD - 1]]
        /\ \A b \in Address : private'[b].item = private[b].item
    <3>1. private \in [Address -> [item : {0} \cup DOMAIN Directory, pos : 0 .. WORD - 1]]
      BY DEF TableInv, TypeOK
    <3>2. CASE private' = private
      BY <3>1, <3>2
    <3>3. CASE private' = [private EXCEPT ![a].pos = Sought(@, offset, whence)]
      <4>1. PICK x : x = Sought(private[a].pos, offset, whence)
        OBVIOUS
      <4>2. private' = [private EXCEPT ![a] = [private[a] EXCEPT !.pos = x]]
        BY <3>3, <4>1
      <4>3. /\ [private[a] EXCEPT !.pos = x] \in
                 [item : {0} \cup DOMAIN Directory, pos : 0 .. WORD - 1]
            /\ [private[a] EXCEPT !.pos = x].item = private[a].item
        BY <2>5, <2>6, <4>1
      <4> QED
        BY <3>1, <4>2, <4>3
    <3> QED
      BY <2>4, <3>2, <3>3
  <2>8. UNCHANGED <<file_descriptors, taken, leaked, path>>
    BY DEF fseek
  <2>9. Used' = Used /\ \A g : Behind(g)' = Behind(g)
    BY <2>8 DEF Used, Behind
  <2>10. ASSUME NEW g \in Used
         PROVE  /\ Entry(g)' = Entry(g)
                /\ private'[file_descriptors[g].private].item = private[file_descriptors[g].private].item
    BY <2>7, <2>8, UsedTyped DEF Entry
  <2>11. TypeOK' /\ path' \in [Index -> Opened \cup {<< >>}] /\ ItemsExist'
    BY <2>3, <2>7, <2>8, <2>9, <2>10 DEF TableInv, TypeOK, ItemsExist
  <2>12. Separate' /\ Accounted' /\ OpensNamedFile'
    BY <2>8, <2>9, <2>10 DEF TableInv, Separate, Accounted, OpensNamedFile
  <2> QED
    BY <2>11, <2>12 DEF TableInv
<1> QED
  BY <1>1, <1>2

\* The position of a descriptor that is open.
LEMMA OpenIsUsed ==
  ASSUME NEW f \in Int
  PROVE  /\ file_get_descriptor(f) # NoDescriptor => f \in Used
         /\ f \in Used /\ f # OS_MAX_FILE_DESCRIPTORS =>
              file_get_descriptor(f) = file_descriptors[f] /\ file_descriptors[f] # NoDescriptor
BY MaxDescriptorsAssumption DEF file_get_descriptor, Used, Index

\* fstat and fread change nothing that is kept.
LEMMA FstatKeeps ==
  ASSUME TableInv, NEW f \in Int, fstat(f)
  PROVE  TableInv' /\ UNCHANGED <<mounted, file_descriptors>>
<1>1. res' \in -9 .. WORD - 1
  BY OpenIsUsed, UsedTyped, MaxDescriptorsAssumption DEF fstat, INVALID_ARGUMENT_ERROR
<1> QED
  BY <1>1, ResultOnly DEF fstat

LEMMA FreadKeeps ==
  ASSUME TableInv, NEW f, NEW bytes, fread(f, bytes)
  PROVE  TableInv' /\ UNCHANGED <<mounted, file_descriptors>>
<1>1. res' \in -9 .. WORD - 1
  BY MaxDescriptorsAssumption DEF fread, INVALID_ARGUMENT_ERROR, IO_ERROR
<1> QED
  BY <1>1, ResultOnly DEF fread

\* fclose gives back what is behind one descriptor.
LEMMA FcloseKeeps ==
  ASSUME TableInv, NEW f \in Int, fclose(f)
  PROVE  /\ TableInv' /\ mounted' = mounted
         /\ IF file_get_descriptor(f) = NoDescriptor
            THEN file_descriptors' = file_descriptors
            ELSE /\ f \in Used
                 /\ file_descriptors' = [file_descriptors EXCEPT ![f] = NoDescriptor]
<1>1. CASE file_get_descriptor(f) = NoDescriptor
  <2>1. res' \in -9 .. WORD - 1 /\ UNCHANGED <<mounted, file_descriptors, private, taken, leaked, path>>
    BY <1>1, MaxDescriptorsAssumption DEF fclose, INVALID_ARGUMENT_ERROR
  <2> QED
    BY <1>1, <2>1, ResultOnly
<1>2. CASE file_get_descriptor(f) # NoDescriptor
  <2>1. f \in Used /\ f \in Index /\ file_get_descriptor(f) = file_descriptors[f]
    BY <1>2, OpenIsUsed DEF file_get_descriptor, Used
  <2>2. PICK self \in Address, fat \in Address :
          self = file_descriptors[f].self /\ fat = file_descriptors[f].private
    BY <2>1, UsedTyped
  <2>3. /\ file_descriptors' = [file_descriptors EXCEPT ![f] = NoDescriptor]
        /\ taken' = taken \ {self, fat}
        /\ private' = [private EXCEPT ![fat] = NoPrivate]
        /\ path' = [path EXCEPT ![f] = << >>]
        /\ res' = ALL_OK /\ leaked' = leaked /\ mounted' = mounted
    BY <1>2, <2>1, <2>2 DEF fclose, ClosedSlot, Release
  <2>4. TypeOK' /\ path' \in [Index -> Opened \cup {<< >>}]
    BY <2>1, <2>3, MaxDescriptorsAssumption
    DEF TableInv, TypeOK, NoPrivate, NoDescriptor, ALL_OK
  <2>5. Used' = Used \ {f} /\ \A g \in Index \ {f} :
          file_descriptors'[g] = file_descriptors[g] /\ path'[g] = path[g]
    BY <2>1, <2>3 DEF TableInv, TypeOK, Used
  <2>6. ASSUME NEW g \in Used \ {f}
        PROVE  /\ file_descriptors'[g] = file_descriptors[g] /\ path'[g] = path[g]
               /\ Behind(g)' = Behind(g) /\ Entry(g)' = Entry(g)
               /\ private'[file_descriptors[g].private] = private[file_descriptors[g].private]
               /\ Behind(g) \subseteq taken' /\ self \notin Behind(g) /\ fat \notin Behind(g)
    <3>1. g \in Index \ {f} /\ Behind(g) \subseteq taken
      BY UsedTyped
    <3>2. Behind(g) \cap Behind(f) = {} /\ Behind(f) = {self, fat}
      BY <2>1, <2>2 DEF TableInv, Separate, Behind
    <3>3. file_descriptors[g].private \in Address /\ file_descriptors[g].private # fat
      BY <3>2, UsedTyped DEF Behind
    <3>4. private'[file_descriptors[g].private] = private[file_descriptors[g].private]
      BY <2>3, <3>3 DEF TableInv, TypeOK
    <3> QED
      BY <2>3, <2>5, <3>1, <3>2, <3>4 DEF Behind, Entry
  <2>7. ItemsExist'
    BY <2>5, <2>6 DEF TableInv, ItemsExist
  <2>8. OpensNamedFile'
    BY <2>5, <2>6 DEF TableInv, OpensNamedFile
  <2>9. Separate'
    BY <2>5, <2>6 DEF TableInv, Separate
  <2>10. Accounted'
    <3>1. Held = Held' \cup {self, fat} /\ Held' \cap {self, fat} = {}
      <4>1. \A x : x \in Held' <=> \E g \in Used' : x \in Behind(g)'
        BY DEF Held
      <4>2. \A x : x \in Held' <=> \E g \in Used \ {f} : x \in Behind(g)
        BY <2>5, <2>6, <4>1
      <4>3. \A x : x \in Held <=> \E g \in Used : x \in Behind(g)
        BY DEF Held
      <4>4. Behind(f) = {self, fat}
        BY <2>2 DEF Behind
      <4>5. Held' \cap {self, fat} = {}
        BY <2>6, <4>2
      <4>6. \A x : x \in Held <=> x \in Held' \/ x \in {self, fat}
        BY <2>1, <4>2, <4>3, <4>4
      <4> QED
        BY <4>5, <4>6
    <3>2. taken = leaked \cup Held /\ leaked \cap Held = {}
      BY DEF TableInv, Accounted, Held
    <3>3. taken' = leaked' \cup Held' /\ leaked' \cap Held' = {}
      BY <2>3, <3>1, <3>2
    <3> QED
      BY <3>3 DEF Accounted, Held
  <2> QED
    BY <1>2, <2>1, <2>3, <2>4, <2>7, <2>8, <2>9, <2>10 DEF TableInv
<1> QED
  BY <1>1, <1>2

\* Every call of the interface keeps TableInv.
LEMMA TableStep == TableInv /\ [Next]_vars => TableInv'
<1> SUFFICES ASSUME TableInv, [Next]_vars PROVE TableInv'
  OBVIOUS
<1>1. ASSUME NEW drive, NEW p \in Paths, NEW mode, fopen(drive, p, mode)
      PROVE  TableInv'
  BY <1>1, FopenKeeps DEF Opened
<1>2. ASSUME NEW f \in FileNumber, NEW offset \in Offsets, NEW whence, fseek(f, offset, whence)
      PROVE  TableInv'
  BY <1>2, FseekKeeps, OffsetsAssumption
<1>3. ASSUME NEW f \in FileNumber, NEW bytes, fread(f, bytes)
      PROVE  TableInv'
  BY <1>3, FreadKeeps
<1>4. ASSUME NEW f \in FileNumber, fstat(f)
      PROVE  TableInv'
  BY <1>4, FstatKeeps DEF FileNumber
<1>5. ASSUME NEW f \in FileNumber, fclose(f)
      PROVE  TableInv'
  BY <1>5, FcloseKeeps DEF FileNumber
<1>6. CASE UNCHANGED vars
  BY <1>6, ResultOnly DEF vars, TableInv, TypeOK
<1> QED
  BY <1>1, <1>2, <1>3, <1>4, <1>5, <1>6 DEF Next

\* TableInv has what the runs check.
LEMMA TableImplies == TableInv => TypeOK /\ OwnMemory /\ Accounted /\ OpensNamedFile
<1>1. \A a, b : a # b => Cardinality({a, b}) = 2
  <2> SUFFICES ASSUME NEW a, NEW b, a # b PROVE Cardinality({a, b}) = 2
    OBVIOUS
  <2>1. IsFiniteSet({a}) /\ Cardinality({a}) = 1
    BY FS_Singleton
  <2>2. Cardinality({a} \cup {b}) = Cardinality({a}) + 1
    BY <2>1, FS_AddElement
  <2>3. {a, b} = {a} \cup {b}
    OBVIOUS
  <2> QED
    BY <2>1, <2>2, <2>3
<1> QED
  BY <1>1 DEF TableInv, OwnMemory, Separate, Behind

\* For any number of descriptors, any directory, any paths, any memory and any
\* sequence of calls of file.c: the types are kept, open files never share
\* memory or lose it, what is in use is open or known to be lost, and a
\* descriptor stands for the file its path names.
THEOREM TableIsSafe == Spec => [](TypeOK /\ OwnMemory /\ Accounted /\ OpensNamedFile)
<1>1. Spec => []TableInv
  BY TableStart, TableStep, PTL DEF Spec
<1> QED
  BY <1>1, TableImplies, PTL

------------------------------------------------------------------------------
(* Loads. *)

\* The file a load reads is there, on a volume that was found.
Good ==
  mounted /\ Matches(name[1]) # {} /\ Len(pathparser_parse(name)) = 1

\* An open file whose index fstat and fclose take.
Closable(f) == f \in Used /\ f # OS_MAX_FILE_DESCRIPTORS

\* What a load knows at each of its steps.
Known ==
  /\ step # "calls" => name \in Programs
  /\ step = "elf_opened" => res <= 0 \/ (res \in Used /\ Good)
  /\ step = "elf_stat" =>
       /\ fd \in Used /\ Good /\ res \in Int /\ res # -INVALID_FORMAT_ERROR
       /\ res >= 0 => Closable(fd)
  /\ step = "elf_read" =>
       /\ Closable(fd) /\ Good /\ size \in Nat /\ res \in Int
       /\ res # -INVALID_FORMAT_ERROR /\ (res >= 0 => size > 0)
  /\ step = "elf_out" =>
       /\ result = ALL_OK => Good /\ size > 0
       /\ result = -INVALID_FORMAT_ERROR => Good /\ Closable(fd)
  /\ step = "binary" => Good /\ \E f \in Index \ Used : f # OS_MAX_FILE_DESCRIPTORS
  /\ step = "binary_opened" => res = 0 \/ (Closable(res) /\ Good)
  /\ step = "binary_stat" => Closable(fd) /\ Good /\ res \in Nat
  /\ step = "binary_read" => Good /\ (res = 1 => size > 0)
  /\ step = "binary_out" =>
       /\ result = ALL_OK => Good /\ size > 0
       /\ result # -INVALID_FORMAT_ERROR

\* Which of the indexes that loads opened may still be open: the last one of
\* the table, and the one this load is about to use or uses.
MineKnown ==
  /\ mine \subseteq Used /\ (step = "calls" => mine = {})
  /\ step \in {"calls", "idle", "binary"} => mine \subseteq {OS_MAX_FILE_DESCRIPTORS}
  /\ step \in {"elf_opened", "binary_opened"} =>
       mine \subseteq {OS_MAX_FILE_DESCRIPTORS, res}
  /\ step \in {"elf_stat", "elf_read", "elf_out", "binary_stat", "binary_read", "binary_out"} =>
       mine \subseteq {OS_MAX_FILE_DESCRIPTORS, fd}

\* The inductive invariant of loads.
LoadInv == TableInv /\ fd \in Int /\ Known /\ MineKnown /\ LoadsEndClean

LEMMA LoadStart == LoaderInit => LoadInv
BY TableStart DEF LoaderInit, LoadInv, Known, MineKnown, LoadsEndClean, ALL_OK

\* Other callers, before the first load.
LEMMA CallsKeepLoad ==
  ASSUME LoadInv, step = "calls", Next, UNCHANGED load PROVE LoadInv'
<1>1. TableInv'
  BY TableStep DEF LoadInv
<1>2. mine = {}
  BY DEF LoadInv, MineKnown
<1> QED
  BY <1>1, <1>2 DEF LoadInv, Known, MineKnown, LoadsEndClean, load

\* Steps that leave the table alone leave what is known of it.
LEMMA TableAlone ==
  ASSUME UNCHANGED <<mounted, file_descriptors, name>>
  PROVE  (Good' <=> Good) /\ Used' = Used
BY DEF Good, Used

\* A load opens its file: the first time, or again as a binary.
LEMMA OpenKeepsLoad ==
  ASSUME LoadInv, process_load_data \/ binary_open PROVE LoadInv'
<1>1. name' \in Programs /\ fopen(0, name', "r")
  BY DEF process_load_data, binary_open, OpenProgram, LoadInv, Known
<1>2. PICK p \in Opened : p = name'
  BY <1>1 DEF Opened
<1>3. /\ TableInv'
      /\ \/ res' = 0 /\ UNCHANGED file_descriptors
         \/ res' = -NO_MEMORY_ERROR /\ Used = Index /\ UNCHANGED file_descriptors
         \/ /\ res' \in Index \ Used /\ mounted
            /\ \A g \in Index \ Used : res' <= g
            /\ Len(pathparser_parse(p)) = 1 /\ Matches(p[1]) # {}
            /\ Used' = Used \cup {res'}
      /\ mounted' = mounted
  BY <1>1, <1>2, FopenKeeps DEF LoadInv
<1>4. /\ mine' = mine \cup ({res'} \cap Index) /\ fd' = fd
      /\ mine \subseteq {OS_MAX_FILE_DESCRIPTORS} /\ mine \subseteq Used
  BY DEF process_load_data, binary_open, OpenProgram, LoadInv, MineKnown
<1>5. mine' \subseteq Used' /\ mine' \subseteq {OS_MAX_FILE_DESCRIPTORS, res'}
  <2>1. res' \in Index => Used' = Used \cup {res'}
    BY <1>3 DEF Index, NO_MEMORY_ERROR
  <2>2. Used \subseteq Used'
    BY <1>3 DEF Used
  <2> QED
    BY <1>4, <2>1, <2>2
<1>6. res' <= 0 \/ (res' \in Used' /\ Good')
  BY <1>2, <1>3 DEF Good, NO_MEMORY_ERROR
<1>7. CASE process_load_data
  <2>1. step' = "elf_opened"
    BY <1>7 DEF process_load_data, OpenProgram
  <2> QED
    BY <1>1, <1>3, <1>4, <1>5, <1>6, <2>1 DEF LoadInv, Known, MineKnown, LoadsEndClean
<1>8. CASE binary_open
  <2>1. step = "binary" /\ step' = "binary_opened"
    BY <1>8 DEF binary_open, OpenProgram
  <2>2. PICK g \in Index \ Used : g # OS_MAX_FILE_DESCRIPTORS
    BY <2>1 DEF LoadInv, Known
  <2>3. CASE res' = 0
    BY <1>1, <1>3, <1>4, <1>5, <2>1, <2>3 DEF LoadInv, Known, MineKnown, LoadsEndClean
  <2>4. CASE res' \in Index \ Used
    <3>1. res' # OS_MAX_FILE_DESCRIPTORS
      BY <1>3, <2>2, <2>4, MaxDescriptorsAssumption DEF Index, NO_MEMORY_ERROR
    <3>2. Closable(res)' /\ Good'
      BY <1>3, <1>6, <2>4, <3>1 DEF Closable, Index, NO_MEMORY_ERROR
    <3> QED
      BY <1>1, <1>3, <1>4, <1>5, <2>1, <3>2 DEF LoadInv, Known, MineKnown, LoadsEndClean
  <2> QED
    BY <1>3, <2>2, <2>3, <2>4
<1> QED
  BY <1>7, <1>8

\* The steps between an open and a close leave the table alone.
LEMMA StepsKeepLoad ==
  ASSUME LoadInv,
         \/ elf_open_fails \/ elf_stat_fails \/ elf_process_loaded
         \/ binary_no_memory \/ binary_loaded
  PROVE  LoadInv'
<1>1. UNCHANGED vars /\ name' = name /\ mine' = mine /\ size' = size /\ fd' \in Int
  <2>1. fd \in Int
    BY DEF LoadInv
  <2> QED
    BY <2>1 DEF elf_open_fails, elf_stat_fails, elf_process_loaded, binary_no_memory,
                binary_loaded, Keep, vars
<1>2. TableInv' /\ (Good' <=> Good) /\ Used' = Used /\ res' = res
  BY <1>1, TableAlone, TableStep DEF vars, LoadInv
<1>3. CASE elf_open_fails
  <2>1. /\ step = "elf_opened" /\ step' = "elf_out" /\ res <= 0 /\ fd' = 0
        /\ result' = -1
    BY <1>3 DEF elf_open_fails, Goto, IO_ERROR
  <2>2. mine \subseteq {OS_MAX_FILE_DESCRIPTORS}
    BY <2>1 DEF LoadInv, MineKnown, Used, Index
  <2> QED
    BY <1>1, <1>2, <2>1, <2>2
    DEF LoadInv, Known, MineKnown, LoadsEndClean, Closable, ALL_OK, INVALID_FORMAT_ERROR
<1>4. CASE elf_stat_fails
  <2>1. step = "elf_stat" /\ step' = "elf_out" /\ res < 0 /\ fd' = fd /\ result' = res
    BY <1>4 DEF elf_stat_fails, Goto
  <2> QED
    BY <1>1, <1>2, <2>1
    DEF LoadInv, Known, MineKnown, LoadsEndClean, Closable, ALL_OK, INVALID_FORMAT_ERROR
<1>5. CASE elf_process_loaded
  <2>1. /\ step = "elf_read" /\ step' = "elf_out" /\ fd' = fd
        /\ \/ res < 0 /\ result' = res
           \/ ~(res < 0) /\ result' \in {0, -INVALID_FORMAT_ERROR}
    BY <1>5 DEF elf_process_loaded, Goto, ALL_OK
  <2> QED
    BY <1>1, <1>2, <2>1
    DEF LoadInv, Known, MineKnown, LoadsEndClean, Closable, ALL_OK, INVALID_FORMAT_ERROR
<1>6. CASE binary_no_memory
  <2>1. /\ step = "binary_stat" /\ step' = "binary_out" /\ fd' = fd
        /\ result' = IF res < 0 THEN res ELSE -3
    BY <1>6 DEF binary_no_memory, Goto, NO_MEMORY_ERROR
  <2> QED
    BY <1>1, <1>2, <2>1
    DEF LoadInv, Known, MineKnown, LoadsEndClean, Closable, ALL_OK, INVALID_FORMAT_ERROR
<1>7. CASE binary_loaded
  <2>1. /\ step = "binary_read" /\ step' = "binary_out" /\ fd' = fd
        /\ result' = IF res = 1 THEN 0 ELSE -1
    BY <1>7 DEF binary_loaded, Goto, ALL_OK, IO_ERROR
  <2> QED
    BY <1>1, <1>2, <2>1
    DEF LoadInv, Known, MineKnown, LoadsEndClean, Closable, ALL_OK, INVALID_FORMAT_ERROR
<1> QED
  BY <1>3, <1>4, <1>5, <1>6, <1>7

\* What fstat says of an open file.
LEMMA StatResult ==
  ASSUME TableInv, NEW f \in Used, fstat(f)
  PROVE  /\ res' \in Int /\ res' # -INVALID_FORMAT_ERROR
         /\ Closable(f) => res' \in Nat
         /\ res' >= 0 => Closable(f)
<1>1. f \in Int /\ f \in Index
  BY UsedTyped DEF Index
<1>2. CASE f = OS_MAX_FILE_DESCRIPTORS
  BY <1>1, <1>2, MaxDescriptorsAssumption
  DEF fstat, file_get_descriptor, INVALID_ARGUMENT_ERROR, INVALID_FORMAT_ERROR, Closable
<1>3. CASE f # OS_MAX_FILE_DESCRIPTORS
  <2>1. file_get_descriptor(f) # NoDescriptor
    BY <1>1, <1>3, OpenIsUsed
  <2>2. res' = Entry(f).filesize
    BY <2>1 DEF fstat
  <2>3. Entry(f).filesize \in 0 .. WORD - 1
    BY UsedTyped
  <2> QED
    BY <1>3, <2>2, <2>3, MaxDescriptorsAssumption DEF Closable, INVALID_FORMAT_ERROR
<1> QED
  BY <1>2, <1>3

\* fstat of the file that is open, and the read of all of it.
LEMMA ReadsKeepLoad ==
  ASSUME LoadInv, elf_stat \/ elf_read \/ binary_stat \/ binary_read
  PROVE  LoadInv'
<1>1. CASE elf_stat
  <2>1. /\ step = "elf_opened" /\ step' = "elf_stat" /\ res > 0 /\ fd' = res
        /\ fstat(res) /\ name' = name /\ mine' = mine
    BY <1>1 DEF elf_stat, Goto, Keep
  <2>2. res \in Used /\ Good /\ res \in Int
    <3>1. res \in Int
      BY MaxDescriptorsAssumption DEF LoadInv, TableInv, TypeOK
    <3> QED
      BY <2>1, <3>1 DEF LoadInv, Known
  <2>3. PICK f \in Used : f = res
    BY <2>2
  <2>4. /\ TableInv' /\ UNCHANGED <<mounted, file_descriptors, name>>
        /\ res' \in Int /\ res' # -INVALID_FORMAT_ERROR /\ (res' >= 0 => Closable(f))
    BY <2>1, <2>2, <2>3, FstatKeeps, StatResult DEF LoadInv
  <2>5. Good' /\ Used' = Used
    BY <2>2, <2>4, TableAlone
  <2>6. res' >= 0 => Closable(fd)'
    BY <2>1, <2>3, <2>4, <2>5 DEF Closable
  <2> QED
    BY <2>1, <2>2, <2>3, <2>4, <2>5, <2>6 DEF LoadInv, Known, MineKnown, LoadsEndClean
<1>2. CASE elf_read \/ binary_read
  <2>1. /\ fd' = fd /\ size' = res /\ res >= 0 /\ fread(fd, res) /\ name' = name /\ mine' = mine
        /\ \/ step = "elf_stat" /\ step' = "elf_read"
           \/ step = "binary_stat" /\ step' = "binary_read"
    BY <1>2 DEF elf_read, binary_read, Goto, Keep
  <2>2. Closable(fd) /\ Good /\ res \in Nat
    BY <2>1 DEF LoadInv, Known
  <2>3. TableInv' /\ UNCHANGED <<mounted, file_descriptors, name>>
    BY <2>1, FreadKeeps DEF LoadInv
  <2>4. Good' /\ Used' = Used /\ Closable(fd)'
    BY <2>1, <2>2, <2>3, TableAlone DEF Closable
  <2>5. res' \in {1, -1, -2} /\ (res' = 1 => size' > 0)
    BY <2>1, <2>2 DEF fread, INVALID_ARGUMENT_ERROR, IO_ERROR
  <2>6. res' # -INVALID_FORMAT_ERROR
    BY <2>5 DEF INVALID_FORMAT_ERROR
  <2> QED
    BY <2>1, <2>2, <2>3, <2>4, <2>5, <2>6 DEF LoadInv, Known, MineKnown, LoadsEndClean
<1>3. CASE binary_stat
  <2>1. /\ step = "binary_opened" /\ fd' = res /\ name' = name /\ mine' = mine /\ size' = size
    BY <1>3 DEF binary_stat, Keep
  <2>2. CASE res = 0
    <3>1. step' = "binary_out" /\ result' = -1 /\ UNCHANGED vars
      BY <1>3, <2>2 DEF binary_stat, IO_ERROR
    <3>2. TableInv' /\ Used' = Used /\ fd' \in Int
      BY <2>1, <2>2, <3>1, TableAlone, TableStep DEF LoadInv, vars
    <3> QED
      BY <2>1, <2>2, <3>1, <3>2
      DEF LoadInv, Known, MineKnown, LoadsEndClean, ALL_OK, INVALID_FORMAT_ERROR
  <2>3. CASE res # 0
    <3>1. step' = "binary_stat" /\ fstat(res) /\ result' = result
      BY <1>3, <2>3 DEF binary_stat
    <3>2. Closable(res) /\ res \in Used /\ Good /\ res \in Int
      BY <2>1, <2>3 DEF LoadInv, Known, Used, Index, Closable
    <3>3. PICK f \in Used : f = res
      BY <3>2
    <3>4. TableInv' /\ UNCHANGED <<mounted, file_descriptors, name>> /\ res' \in Nat
      BY <2>1, <3>1, <3>2, <3>3, FstatKeeps, StatResult DEF LoadInv
    <3>5. Good' /\ Used' = Used /\ Closable(fd)'
      BY <2>1, <3>2, <3>4, TableAlone DEF Closable
    <3> QED
      BY <2>1, <3>1, <3>2, <3>4, <3>5 DEF LoadInv, Known, MineKnown, LoadsEndClean
  <2> QED
    BY <2>2, <2>3
<1> QED
  BY <1>1, <1>2, <1>3

\* "out:" closes what the load opened, unless its index is the last one.
LEMMA CloseKeepsLoad ==
  ASSUME LoadInv, elf_out \/ binary_out PROVE LoadInv'
<1>1. /\ name' = name /\ fclose(fd) /\ fd' = fd /\ size' = size /\ result' = result
      /\ mine' = {i \in mine : file_descriptors'[i] # NoDescriptor}
      /\ \/ step = "elf_out" /\ result = -INVALID_FORMAT_ERROR /\ step' = "binary"
         \/ step = "elf_out" /\ result # -INVALID_FORMAT_ERROR /\ step' = "idle"
         \/ step = "binary_out" /\ step' = "idle"
  BY DEF elf_out, binary_out, CloseProgram, Goto
<1>2. PICK f \in Int : f = fd
  BY DEF LoadInv
<1>3. /\ TableInv' /\ mounted' = mounted
      /\ IF file_get_descriptor(f) = NoDescriptor
         THEN file_descriptors' = file_descriptors
         ELSE f \in Used /\ file_descriptors' = [file_descriptors EXCEPT ![f] = NoDescriptor]
  BY <1>1, <1>2, FcloseKeeps DEF LoadInv
<1>4. Good' <=> Good
  BY <1>1, <1>3 DEF Good
<1>5. f \in Used /\ f # OS_MAX_FILE_DESCRIPTORS =>
        f \in Index /\ f \notin Used' /\ file_descriptors'[f] = NoDescriptor
  <2> SUFFICES ASSUME f \in Used, f # OS_MAX_FILE_DESCRIPTORS
               PROVE  f \in Index /\ f \notin Used' /\ file_descriptors'[f] = NoDescriptor
    OBVIOUS
  <2>1. file_get_descriptor(f) # NoDescriptor
    BY OpenIsUsed
  <2> QED
    BY <1>3, <2>1 DEF LoadInv, TableInv, TypeOK, Used
<1>6. mine \subseteq {OS_MAX_FILE_DESCRIPTORS, f} /\ mine \subseteq Used
  BY <1>1, <1>2 DEF LoadInv, MineKnown
<1>7. mine' \subseteq {OS_MAX_FILE_DESCRIPTORS} /\ mine' \subseteq Used'
  BY <1>1, <1>5, <1>6 DEF Used
<1>8. name' \in Programs
  BY <1>1 DEF LoadInv, Known
<1>9. CASE step' = "binary"
  <2>1. Good /\ f \in Used /\ f # OS_MAX_FILE_DESCRIPTORS
    BY <1>1, <1>2, <1>9 DEF LoadInv, Known, Closable
  <2> QED
    BY <1>1, <1>2, <1>3, <1>4, <1>5, <1>7, <1>8, <1>9, <2>1
    DEF LoadInv, Known, MineKnown, LoadsEndClean
<1>10. CASE step' = "idle"
  <2>1. result # -INVALID_FORMAT_ERROR /\ (result = ALL_OK => Good /\ size > 0)
    BY <1>1, <1>10 DEF LoadInv, Known
  <2> QED
    BY <1>1, <1>2, <1>3, <1>4, <1>7, <1>8, <1>10, <2>1
    DEF LoadInv, Known, MineKnown, LoadsEndClean, Good
<1> QED
  BY <1>1, <1>9, <1>10

\* Nothing happens.
LEMMA RestKeepsLoad ==
  ASSUME LoadInv, UNCHANGED <<vars, load>> PROVE LoadInv'
<1>1. TableInv' /\ (Good' <=> Good) /\ Used' = Used
  BY TableAlone, TableStep DEF LoadInv, vars, load
<1> QED
  BY <1>1 DEF LoadInv, Known, MineKnown, LoadsEndClean, vars, load, Closable

LEMMA LoadStep == LoadInv /\ [LoaderNext]_<<vars, load>> => LoadInv'
BY CallsKeepLoad, OpenKeepsLoad, StepsKeepLoad, ReadsKeepLoad, CloseKeepsLoad,
   RestKeepsLoad DEF LoaderNext, Load, Rest

LEMMA LoadInvariant == LoaderSpec => []LoadInv
BY LoadStart, LoadStep, PTL DEF LoaderSpec

\* With the loads of process.c and elfloader.c between the calls of others, the
\* table and the open files keep their types.
THEOREM LoadsKeepTypes == LoaderSpec => []TypeOK
<1>1. LoadInv => TypeOK
  BY TableImplies DEF LoadInv
<1> QED
  BY <1>1, LoadInvariant, PTL

\* Open files never share memory or keep memory that was given back, whatever
\* step of an open or a load fails.
THEOREM OpenFilesKeepApart == LoaderSpec => []OwnMemory
<1>1. LoadInv => OwnMemory
  BY TableImplies DEF LoadInv
<1> QED
  BY <1>1, LoadInvariant, PTL

\* What is in use is behind a descriptor or among what is known to be lost: no
\* failing open or load loses more.
THEOREM MemoryIsAccounted == LoaderSpec => []Accounted
<1>1. LoadInv => Accounted
  BY TableImplies DEF LoadInv
<1> QED
  BY <1>1, LoadInvariant, PTL

\* A descriptor stands for the file its path names.
THEOREM DescriptorsNameFiles == LoaderSpec => []OpensNamedFile
<1>1. LoadInv => OpensNamedFile
  BY TableImplies DEF LoadInv
<1> QED
  BY <1>1, LoadInvariant, PTL

\* For any number of descriptors, any directory and any programs: a load,
\* however it ends, leaves none of its files open but one with the last index
\* of the table, and succeeds only with a file that is there.
THEOREM EveryLoadEndsClean == LoaderSpec => []LoadsEndClean
<1>1. LoadInv => LoadsEndClean
  BY DEF LoadInv
<1> QED
  BY <1>1, LoadInvariant, PTL
==============================================================================
