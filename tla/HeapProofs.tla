------------------------------ MODULE HeapProofs ------------------------------
(***************************************************************************)
(* Proofs about the kernel heap for every block size, table length, heap   *)
(* address, word size and set of requests that satisfy Heap's assumptions: *)
(* calls as single steps (Heap) implement the Allocator, and the loops of  *)
(* heap.c (HeapScan) compute what Heap says of each call.                  *)
(***************************************************************************)
EXTENDS HeapScan, TLAPS, NaturalsInduction, WellFoundedInduction

Table == 0 .. TABLE_TOTAL - 1

\* The flags block k of allocation a carries.
Flags(a, k) ==
  {"TAKEN"} \cup (IF k = a.start THEN {"IS_FIRST"} ELSE {})
            \cup (IF k # a.start + a.len - 1 THEN {"HAS_NEXT"} ELSE {})

\* Of a table e, allocations l and a reply q: HeapScan has two tables, that of
\* the loops and that of the call.
Typed(e, l, q) ==
  /\ e \in [Table -> Entry]
  /\ l \subseteq Allocation
  /\ q \in [asked : Nat, start : Nat \cup {NoBlock}]

NotEmpty(l) == \A a \in l : a.len # 0

Apart(l) == \A a, b \in l : a # b => Blocks(a) \cap Blocks(b) = {}

Taken(e, l) ==
  \A a \in l : \A k \in Table : k \in Blocks(a) => e[k] = Flags(a, k)

Untaken(e, l) ==
  \A k \in Table :
    (\A a \in l : k \notin Blocks(a)) => e[k] = HEAP_BLOCK_TABLE_ENTRY_FREE

\* Without NotEmpty an empty allocation could be freed and take somebody
\* else's block with it.
Described(e, l, q) ==
  Typed(e, l, q) /\ NotEmpty(l) /\ Apart(l) /\ Taken(e, l) /\ Untaken(e, l)

\* The inductive invariant of Heap.
IInv == Described(entries, live, reply)

------------------------------------------------------------------------------
(* The operators. *)

\* Least picks a least element of a set of block numbers.
LEMMA LeastExists ==
  ASSUME NEW S \in SUBSET Nat, S # {}
  PROVE  /\ Least(S) \in S
         /\ \A t \in S : Least(S) <= t
<1> DEFINE R == OpToRel(<, Nat)
<1>1. \A y, z \in Nat : y < z => <<y, z>> \in R
  BY SMT DEF OpToRel
<1> HIDE DEF R
<1>2. IsWellFoundedOn(R, Nat)
  BY NatLessThanWellFounded DEF R
<1>3. PICK x \in S : \A y \in S : ~(<<y, x>> \in R)
  BY <1>2, WFMin
<1>4. \A y \in S : x <= y
  <2> SUFFICES ASSUME NEW y \in S PROVE ~(y < x)
    OBVIOUS
  <2>1. x \in Nat /\ y \in Nat
    OBVIOUS
  <2>2. ~(<<y, x>> \in R)
    BY <1>3
  <2>3. y < x => <<y, x>> \in R
    BY <1>1, <2>1, Zenon
  <2> QED
    BY <2>2, <2>3, Zenon
<1> QED
  BY <1>4 DEF Least

\* What heap_get_start_block returns is the start of free blocks up to the
\* request's length or up to the end of the table, whichever comes first.
LEMMA StartBlockIsFree ==
  ASSUME NEW e, NEW n \in Nat \ {0},
         heap_get_start_block(e, n) >= 0
  PROVE  LET s == heap_get_start_block(e, n)
         IN  /\ s \in 0 .. TABLE_TOTAL - 1
             /\ \A k \in s .. s + n - 1 : k < TABLE_TOTAL => IsFree(e, k)
<1> USE TotalAssumption
<1> DEFINE s == heap_get_start_block(e, n)
<1>1. CASE Runs(e, n) # {}
  <2>1. Runs(e, n) \in SUBSET Nat
    BY DEF Runs
  <2>2. s \in Runs(e, n)
    BY <1>1, <2>1, LeastExists DEF heap_get_start_block
  <2> QED
    BY <2>2 DEF Runs, FreeRun
<1>2. CASE Runs(e, n) = {} /\ LastRun(e) # {}
  <2>1. LastRun(e) \in SUBSET Nat
    BY DEF LastRun
  <2>2. s \in LastRun(e)
    BY <1>2, <2>1, LeastExists DEF heap_get_start_block
  <2> QED
    BY <2>2 DEF LastRun, FreeRun
<1>3. CASE Runs(e, n) = {} /\ LastRun(e) = {}
  BY <1>3 DEF heap_get_start_block, NO_MEMORY_ERROR
<1> QED
  BY <1>1, <1>2, <1>3

\* heap_get_start_block fails only when no run of n free blocks exists.
LEMMA FailureMeansNoRun ==
  ASSUME NEW e, NEW n \in Nat \ {0},
         heap_get_start_block(e, n) < 0
  PROVE  Runs(e, n) = {}
<1> SUFFICES ASSUME Runs(e, n) # {} PROVE FALSE
  OBVIOUS
<1>1. Runs(e, n) \in SUBSET Nat
  BY TotalAssumption DEF Runs
<1> QED
  BY <1>1, LeastExists DEF heap_get_start_block

\* heap_address_to_block undoes heap_block_to_address.
LEMMA BlockRoundTrip ==
  ASSUME NEW b \in Nat
  PROVE  heap_address_to_block(heap_block_to_address(b)) = b
BY BlockSizeAssumption, AddressAssumption
   DEF heap_address_to_block, heap_block_to_address

\* The block number of NULL, made a size_t, is past the end of the table.
LEMMA NullIsOutside == heap_address_to_block(NULL) % WORD >= TABLE_TOTAL
BY BlockSizeAssumption, AddressAssumption, WordAssumption, TotalAssumption
   DEF heap_address_to_block, NULL

------------------------------------------------------------------------------
(* Each call keeps what the table says. *)

\* Blocks that heap_get_start_block offers belong to no allocation, also when
\* the request reaches past the end of the table.
LEMMA OfferIsDisjoint ==
  ASSUME NEW e, NEW l, NEW q, Described(e, l, q), NEW n \in Nat \ {0},
         NEW s, s = heap_get_start_block(e, n), s >= 0, NEW a \in l
  PROVE  Blocks(a) \cap Blocks([start |-> s, len |-> n]) = {}
<1>1. /\ s \in 0 .. TABLE_TOTAL - 1
      /\ \A k \in s .. s + n - 1 : k < TABLE_TOTAL => IsFree(e, k)
  BY StartBlockIsFree
<1>2. a.start \in 0 .. TABLE_TOTAL - 1 /\ a.len \in Nat
  BY DEF Described, Typed, Allocation
<1>3. \A k \in Table : k \in Blocks(a) => ~IsFree(e, k)
  BY DEF Described, Taken, Flags, IsFree, heap_get_entry_type,
     HEAP_BLOCK_TABLE_ENTRY_FREE
<1>4. ASSUME NEW j \in Blocks(a), j \in s .. s + n - 1
      PROVE  FALSE
  <2>1. j \in Nat /\ a.start <= j /\ j <= a.start + a.len - 1
    BY <1>2 DEF Blocks
  <2>2. CASE j < TABLE_TOTAL
    BY <1>1, <1>3, <1>4, <2>1, <2>2, TotalAssumption DEF Table
  <2>3. CASE j >= TABLE_TOTAL
    <3>1. TABLE_TOTAL - 1 \in Blocks(a)
      BY <1>2, <2>1, <2>3, TotalAssumption DEF Blocks
    <3>2. TABLE_TOTAL - 1 \in s .. s + n - 1
      BY <1>1, <1>4, <2>1, <2>3, TotalAssumption
    <3> QED
      BY <1>1, <1>3, <3>1, <3>2, TotalAssumption DEF Table
  <2> QED
    BY <2>1, <2>2, <2>3, TotalAssumption
<1>5. Blocks([start |-> s, len |-> n]) = s .. s + n - 1
  BY DEF Blocks
<1> QED
  BY <1>4, <1>5

\* heap_get_start_block answers with a number, if only with an error.
LEMMA StartBlockIsInt ==
  ASSUME NEW e, NEW n \in Nat \ {0}
  PROVE  heap_get_start_block(e, n) \in Int
<1>1. CASE Runs(e, n) # {}
  BY <1>1, LeastExists, TotalAssumption DEF Runs, heap_get_start_block
<1>2. CASE Runs(e, n) = {}
  BY <1>2, LeastExists, TotalAssumption
     DEF LastRun, heap_get_start_block, NO_MEMORY_ERROR
<1> QED
  BY <1>1, <1>2

\* kernel_malloc, when it finds a run.
LEMMA TakingKeeps ==
  ASSUME NEW e, NEW l, NEW q, Described(e, l, q), NEW n \in Nat \ {0},
         NEW s, s = heap_get_start_block(e, n), s >= 0,
         NEW f, f = heap_mark_blocks_taken(e, s, n),
         NEW new, new = [start |-> s, len |-> n],
         NEW r, r = [asked |-> n, start |-> s]
  PROVE  Described(f, l \cup {new}, r)
<1>1. s \in Table
  BY StartBlockIsFree DEF Table
<1>2. \A a \in l : Blocks(a) \cap Blocks(new) = {}
  BY OfferIsDisjoint
<1>3. e \in [Table -> Entry] /\ l \subseteq Allocation
  BY DEF Described, Typed
<1>4. Blocks(new) = s .. s + n - 1
  BY DEF Blocks
<1>5. \A k \in Table : f[k] = IF k \in Blocks(new) THEN Flags(new, k) ELSE e[k]
  BY <1>3, <1>4 DEF heap_mark_blocks_taken, Flags
<1>6. Typed(f, l \cup {new}, r)
  <2>1. \A k : Flags(new, k) \in Entry
    BY DEF Flags, Entry
  <2>2. f \in [Table -> Entry]
    <3>1. DOMAIN f = Table /\ f = [k \in DOMAIN f |-> f[k]]
      BY <1>3 DEF heap_mark_blocks_taken
    <3>2. \A k \in Table : f[k] \in Entry
      BY <1>3, <1>5, <2>1
    <3> QED
      BY <3>1, <3>2
  <2>3. new \in Allocation
    BY <1>1 DEF Allocation, Table
  <2>4. s \in Nat
    BY <1>1, TotalAssumption DEF Table
  <2> QED
    BY <1>3, <2>2, <2>3, <2>4 DEF Typed
<1>7. NotEmpty(l \cup {new})
  BY DEF Described, NotEmpty
<1>8. Apart(l \cup {new})
  BY <1>2 DEF Described, Apart
<1>9. Taken(f, l \cup {new})
  BY <1>2, <1>5 DEF Described, Taken
<1>10. Untaken(f, l \cup {new})
  BY <1>5 DEF Described, Untaken
<1> QED
  BY <1>6, <1>7, <1>8, <1>9, <1>10 DEF Described

\* kernel_malloc, when it fails, and whatever else is only replied.
LEMMA ReplyingKeeps ==
  ASSUME NEW e, NEW l, NEW q, Described(e, l, q), NEW r,
         r \in [asked : Nat, start : Nat \cup {NoBlock}]
  PROVE  Described(e, l, r)
BY DEF Described, Typed

\* heap_mark_blocks_free frees exactly the blocks of the allocation.
LEMMA FreeClearsAllocation ==
  ASSUME NEW e, NEW l, NEW q, Described(e, l, q), NEW a \in l, NEW k \in Table
  PROVE  heap_mark_blocks_free(e, a.start)[k]
           = IF k \in Blocks(a) THEN HEAP_BLOCK_TABLE_ENTRY_FREE ELSE e[k]
<1> USE TotalAssumption
<1>1. /\ a.start \in 0 .. TABLE_TOTAL - 1
      /\ a.len \in Nat \ {0}
      /\ DOMAIN e = 0 .. TABLE_TOTAL - 1
      /\ k \in 0 .. TABLE_TOTAL - 1
  BY DEF Described, Typed, Allocation, NotEmpty, Table
<1>2. a.start % WORD = a.start
  BY <1>1, AddressAssumption, WordAssumption, BlockSizeAssumption
<1>3. \A j \in 0 .. TABLE_TOTAL - 1 :
        j \in Blocks(a) => ("HAS_NEXT" \in e[j] <=> j # a.start + a.len - 1)
  BY DEF Described, Taken, Flags, Table
<1> DEFINE cleared == a.start <= k
                        /\ \A j \in a.start .. k - 1 : "HAS_NEXT" \in e[j]
<1>4. k \in Blocks(a) => cleared
  BY <1>1, <1>3 DEF Blocks
<1>5. cleared => k \in Blocks(a)
  <2> SUFFICES ASSUME cleared, k \notin Blocks(a) PROVE FALSE
    OBVIOUS
  <2>1. a.start + a.len - 1 < k
    BY <1>1 DEF Blocks
  <2>2. a.start + a.len - 1 \in Blocks(a)
    BY <1>1 DEF Blocks
  <2> QED
    BY <1>1, <1>3, <2>1, <2>2
<1> QED
  BY <1>1, <1>2, <1>4, <1>5 DEF heap_mark_blocks_free

\* kernel_free of an allocation.
LEMMA FreeingKeeps ==
  ASSUME NEW e, NEW l, NEW q, Described(e, l, q), NEW a \in l,
         NEW f, f = heap_mark_blocks_free(e, heap_address_to_block(heap_block_to_address(a.start)))
  PROVE  Described(f, l \ {a}, Quiet)
<1>1. a.start \in Nat
  BY TotalAssumption DEF Described, Typed, Allocation
<1>2. f = heap_mark_blocks_free(e, a.start)
  BY <1>1, BlockRoundTrip
<1>3. \A k \in Table :
        f[k] = IF k \in Blocks(a) THEN HEAP_BLOCK_TABLE_ENTRY_FREE ELSE e[k]
  BY <1>2, FreeClearsAllocation
<1>4. Typed(f, l \ {a}, Quiet)
  <2>1. e \in [Table -> Entry] /\ l \subseteq Allocation
    BY DEF Described, Typed
  <2>2. DOMAIN f = Table /\ f = [k \in DOMAIN f |-> f[k]]
    BY <1>2, <2>1 DEF heap_mark_blocks_free
  <2>3. \A k \in Table : f[k] \in Entry
    BY <1>3, <2>1 DEF Entry, HEAP_BLOCK_TABLE_ENTRY_FREE
  <2> QED
    BY <2>1, <2>2, <2>3 DEF Typed, Quiet, NoBlock
<1>5. NotEmpty(l \ {a}) /\ Apart(l \ {a})
  BY DEF Described, NotEmpty, Apart
<1>6. \A b \in l : b # a => Blocks(b) \cap Blocks(a) = {}
  BY DEF Described, Apart
<1>7. Taken(f, l \ {a})
  BY <1>3, <1>6 DEF Described, Taken
<1>8. Untaken(f, l \ {a})
  BY <1>3 DEF Described, Untaken
<1> QED
  BY <1>4, <1>5, <1>7, <1>8 DEF Described

\* kernel_free(NULL) changes no entry.
LEMMA FreeingNull ==
  ASSUME NEW e \in [Table -> Entry]
  PROVE  heap_mark_blocks_free(e, heap_address_to_block(NULL)) = e
<1>1. heap_address_to_block(NULL) % WORD >= TABLE_TOTAL
  BY NullIsOutside
<1>2. heap_address_to_block(NULL) % WORD \in Int
  BY BlockSizeAssumption, AddressAssumption, WordAssumption
     DEF heap_address_to_block, NULL
<1> DEFINE first == heap_address_to_block(NULL) % WORD
<1> HIDE DEF first
<1>3. \A k \in Table : ~(first <= k)
  BY <1>1, <1>2, TotalAssumption DEF first, Table
<1>4. heap_mark_blocks_free(e, heap_address_to_block(NULL)) =
        [k \in DOMAIN e |->
           IF first <= k /\ \A j \in first .. k - 1 : "HAS_NEXT" \in e[j]
           THEN HEAP_BLOCK_TABLE_ENTRY_FREE ELSE e[k]]
  BY DEF heap_mark_blocks_free, first
<1> QED
  BY <1>3, <1>4

LEMMA QuietIs == Quiet \in [asked : Nat, start : Nat \cup {NoBlock}]
BY DEF Quiet, NoBlock

\* A table e that becomes f: one call of kernel_malloc or kernel_free.
Called(e, f) ==
  \/ \E size \in Sizes :
       LET n == BlocksFor(size)
           s == heap_get_start_block(e, n)
       IN  \/ /\ s < 0
              /\ reply' = [asked |-> n, start |-> NoBlock]
              /\ f = e /\ live' = live
           \/ /\ s >= 0
              /\ f = heap_mark_blocks_taken(e, s, n)
              /\ live' = live \cup {[start |-> s, len |-> n]}
              /\ reply' = [asked |-> n, start |-> s]
  \/ \E a \in live :
       /\ f = heap_mark_blocks_free(e, heap_address_to_block(heap_block_to_address(a.start)))
       /\ live' = live \ {a}
       /\ reply' = Quiet
  \/ /\ f = heap_mark_blocks_free(e, heap_address_to_block(NULL))
     /\ reply' = Quiet
     /\ live' = live

\* Every call of kernel_malloc or kernel_free keeps what the table says.
LEMMA CallKeeps ==
  ASSUME NEW e, NEW f, Described(e, live, reply), Called(e, f)
  PROVE  Described(f, live', reply')
<1>1. ASSUME NEW size \in Sizes,
             NEW n, n = BlocksFor(size), NEW s, s = heap_get_start_block(e, n),
             \/ /\ s < 0
                /\ reply' = [asked |-> n, start |-> NoBlock]
                /\ f = e /\ live' = live
             \/ /\ s >= 0
                /\ f = heap_mark_blocks_taken(e, s, n)
                /\ live' = live \cup {[start |-> s, len |-> n]}
                /\ reply' = [asked |-> n, start |-> s]
      PROVE  Described(f, live', reply')
  <2>1. n \in Nat \ {0}
    BY <1>1, SizesAssumption
  <2>2. CASE /\ reply' = [asked |-> n, start |-> NoBlock]
             /\ f = e /\ live' = live
    <3>1. reply' \in [asked : Nat, start : Nat \cup {NoBlock}]
      BY <2>1, <2>2
    <3> QED
      BY <2>2, <3>1, ReplyingKeeps
  <2>3. CASE /\ s >= 0
             /\ f = heap_mark_blocks_taken(e, s, n)
             /\ live' = live \cup {[start |-> s, len |-> n]}
             /\ reply' = [asked |-> n, start |-> s]
    BY <1>1, <2>1, <2>3, TakingKeeps
  <2> QED
    BY <1>1, <2>2, <2>3
<1>2. ASSUME NEW a \in live,
             f = heap_mark_blocks_free(e, heap_address_to_block(heap_block_to_address(a.start))),
             live' = live \ {a}, reply' = Quiet
      PROVE  Described(f, live', reply')
  BY <1>2, FreeingKeeps
<1>3. CASE /\ f = heap_mark_blocks_free(e, heap_address_to_block(NULL))
           /\ reply' = Quiet /\ live' = live
  <2>1. f = e
    BY <1>3, FreeingNull DEF Described, Typed
  <2> QED
    BY <1>3, <2>1, ReplyingKeeps, QuietIs
<1> QED
  BY <1>1, <1>2, <1>3 DEF Called

------------------------------------------------------------------------------
(* Calls as single steps. *)

\* kernel_heap_init leaves an empty table, which satisfies the invariant.
LEMMA InitIInv == Init => IInv
BY TotalAssumption DEF Init, IInv, Described, Typed, NotEmpty, Apart, Taken, Untaken,
   Quiet, NoBlock, Entry, HEAP_BLOCK_TABLE_ENTRY_FREE, Table

LEMMA NextCalls == Next => Called(entries, entries')
<1>1. ASSUME NEW size \in Sizes, kernel_malloc(size) PROVE Called(entries, entries')
  BY <1>1 DEF kernel_malloc, Called
<1>2. ASSUME NEW a \in live, kernel_free(a) PROVE Called(entries, entries')
  BY <1>2 DEF kernel_free, heap_free, Called
<1>3. CASE kernel_free_null
  BY <1>3 DEF kernel_free_null, heap_free, Called
<1> QED
  BY <1>1, <1>2, <1>3 DEF Next

\* Every call of kernel_malloc or kernel_free preserves the invariant.
LEMMA NextKeepsIInv == IInv /\ [Next]_vars => IInv'
<1>1. CASE Next
  BY <1>1, NextCalls, CallKeeps DEF IInv
<1>2. CASE UNCHANGED vars
  BY <1>2 DEF vars, IInv
<1> QED
  BY <1>1, <1>2

\* The heap's inductive invariant holds throughout.
THEOREM HeapInvariant == Spec => []IInv
BY InitIInv, NextKeepsIInv, PTL DEF Spec

\* The parts of the invariant say what the block table says of the callers'
\* allocations.
LEMMA IInvGivesTable == IInv => NoOverlap /\ TableMatchesLive
<1> SUFFICES ASSUME IInv, NEW k \in 0 .. TABLE_TOTAL - 1
             PROVE  IF \E a \in live : k \in Blocks(a)
                    THEN \E a \in live : k \in Blocks(a)
                                         /\ entries[k] = Flags(a, k)
                    ELSE entries[k] = HEAP_BLOCK_TABLE_ENTRY_FREE
  BY DEF IInv, Described, Apart, NoOverlap, TableMatchesLive, Flags
<1> QED
  BY DEF IInv, Described, Taken, Untaken, Table

------------------------------------------------------------------------------
(* What the heap guarantees. *)

\* The table and the replies keep their types under kernel_malloc and
\* kernel_free.
THEOREM HeapTypeOK == Spec => []TypeOK
<1>1. IInv => TypeOK
  BY DEF IInv, Described, Typed, TypeOK, Table
<1> QED
  BY <1>1, HeapInvariant, PTL

\* No sequence of kernel_malloc and kernel_free hands out a block twice, and
\* the block table always describes exactly what the callers hold.
THEOREM HeapSafety == Spec => [](NoOverlap /\ TableMatchesLive)
<1>1. IInv => NoOverlap /\ TableMatchesLive
  BY IInvGivesTable
<1> QED
  BY <1>1, HeapInvariant, PTL

\* A request that heap_get_start_block turns down could not be served.
LEMMA RefusalIsJustified ==
  ASSUME IInv, NEW n \in Nat \ {0}, heap_get_start_block(entries, n) < 0
  PROVE  \A s \in 0 .. TABLE_TOTAL - n : ~Abstract!FreeFor(s, n)
<1> SUFFICES ASSUME NEW s \in 0 .. TABLE_TOTAL - n, Abstract!FreeFor(s, n)
             PROVE  FALSE
  OBVIOUS
<1>1. \A a \in live : \A k \in s .. s + n - 1 : k \notin Blocks(a)
  BY DEF Abstract!FreeFor, Abstract!Shares, Abstract!Blocks, Blocks
<1>2. \A k \in s .. s + n - 1 : k \in Table
  BY TotalAssumption DEF Table
<1>3. \A k \in s .. s + n - 1 : IsFree(entries, k)
  BY <1>1, <1>2 DEF IInv, Described, Untaken, IsFree, heap_get_entry_type,
     HEAP_BLOCK_TABLE_ENTRY_FREE
<1>4. s \in Runs(entries, n)
  BY <1>3 DEF Runs, FreeRun
<1> QED
  BY <1>4, FailureMeansNoRun

\* Each call is a grant, a refusal or a release of the Allocator.
LEMMA StepRefines == IInv /\ [Next]_vars => [Abstract!Next]_(Abstract!vars)
<1> SUFFICES ASSUME IInv, [Next]_vars
             PROVE  [Abstract!Next]_(Abstract!vars)
  OBVIOUS
<1>1. ASSUME NEW size \in Sizes, kernel_malloc(size) PROVE Abstract!Next
  <2> DEFINE n == BlocksFor(size)
             s == heap_get_start_block(entries, n)
             new == [start |-> s, len |-> n]
  <2>1. n \in Nat \ {0}
    BY SizesAssumption
  <2>2. n \in {BlocksFor(z) : z \in Sizes}
    OBVIOUS
  <2>3. CASE s < 0 /\ UNCHANGED live
                   /\ reply' = [asked |-> n, start |-> NoBlock]
    <3>1. Abstract!Refuse(n)
      BY <2>1, <2>3, RefusalIsJustified DEF Abstract!Refuse, Abstract!NoBlock,
         NoBlock
    <3> QED
      BY <2>2, <3>1 DEF Abstract!Next
  <2>4. CASE s >= 0 /\ live' = live \cup {new}
                    /\ reply' = [asked |-> n, start |-> s]
    <3>1. s \in 0 .. TABLE_TOTAL - 1
      BY <2>1, <2>4, StartBlockIsFree
    <3>2. \A a \in live : Blocks(a) \cap Blocks(new) = {}
      BY <2>1, <2>4, OfferIsDisjoint DEF IInv
    <3> HIDE DEF n, s
    <3>3. Abstract!FreeFor(s, n)
      BY <3>2 DEF Abstract!FreeFor, Abstract!Shares, Abstract!Blocks, Blocks
    <3>4. Abstract!Grant(n)
      BY <2>4, <3>1, <3>3 DEF Abstract!Grant
    <3> QED
      BY <2>2, <3>4 DEF Abstract!Next
  <2> QED
    BY <1>1, <2>3, <2>4 DEF kernel_malloc
<1>2. ASSUME NEW a \in live, kernel_free(a) PROVE Abstract!Next
  BY <1>2 DEF kernel_free, Abstract!Next, Abstract!Release, Quiet, NoBlock,
     Abstract!NoBlock
<1>3. CASE kernel_free_null
  BY <1>3 DEF kernel_free_null, Abstract!Next, Abstract!ReleaseNull, Quiet,
     NoBlock, Abstract!NoBlock
<1>4. CASE UNCHANGED vars
  BY <1>4 DEF vars, Abstract!vars
<1> QED
  BY <1>1, <1>2, <1>3, <1>4 DEF Next

\* Seen through the callers' allocations and replies, heap.c implements the
\* Allocator: disjoint grants, justified refusals, frees of one grant.
THEOREM HeapImplementsAllocator == Spec => ImplementsAllocator
<1>1. Init => Abstract!Init
  BY DEF Init, Abstract!Init, Quiet, NoBlock, Abstract!NoBlock
<1> QED
  BY <1>1, StepRefines, HeapInvariant, PTL
     DEF Spec, ImplementsAllocator, Abstract!Spec

------------------------------------------------------------------------------
(* Calls as loops. *)

Requested == {BlocksFor(size) : size \in Sizes}

Idle == /\ before = entries /\ total_blocks = 0 /\ i = 0
        /\ block_start = -1 /\ block_current = 0 /\ freeing = {}

\* The scan has counted the free blocks right before block k, has forgotten
\* about the taken block in front of them, and has passed no run of n blocks.
Counted(k) ==
  /\ k \in 0 .. TABLE_TOTAL
  /\ block_current \in 0 .. k
  /\ block_start = IF block_current = 0 THEN -1 ELSE k - block_current
  /\ FreeRun(before, k - block_current, k - 1)
  /\ k - block_current > 0 => ~IsFree(before, k - block_current - 1)

NoRunBefore(k) ==
  \A s \in 0 .. TABLE_TOTAL - total_blocks :
    s + total_blocks <= k => ~FreeRun(before, s, s + total_blocks - 1)

Scanning ==
  /\ entries = before /\ total_blocks \in Requested
  /\ Counted(i) /\ NoRunBefore(i) /\ block_current < total_blocks

Found ==
  /\ entries = before /\ total_blocks \in Requested
  /\ Counted(i) /\ NoRunBefore(i - 1) /\ block_current = total_blocks

\* The entries up to i are written, the next one is prepared.
Taking ==
  /\ total_blocks \in Requested
  /\ block_start = heap_get_start_block(before, total_blocks)
  /\ block_start \in Table
  /\ i \in block_start .. block_start + total_blocks
  /\ LET new == [start |-> block_start, len |-> total_blocks]
     IN  /\ i <= end_block => entry = Flags(new, i)
         /\ entries = [k \in Table |->
              IF k \in block_start .. i - 1 THEN Flags(new, k) ELSE before[k]]

\* Which blocks heap_mark_blocks_free is to clear from block first on.
Cleared(first, k) == first <= k /\ \A j \in first .. k - 1 : "HAS_NEXT" \in before[j]

Freeing ==
  \E ptr \in Int :
    /\ \/ ptr = NULL /\ freeing = {}
       \/ \E a \in live : ptr = heap_block_to_address(a.start) /\ freeing = {a}
    /\ LET first == heap_address_to_block(ptr) % WORD
       IN  /\ first \in Nat /\ i \in Nat
           /\ entries = [k \in Table |->
                IF Cleared(first, k) /\ k < i THEN HEAP_BLOCK_TABLE_ENTRY_FREE
                ELSE before[k]]
           /\ i < TABLE_TOTAL => Cleared(first, i)

\* The inductive invariant: what each loop has done so far.
LoopInv ==
  /\ before \in [Table -> Entry] /\ entries \in [Table -> Entry]
  /\ live \subseteq Allocation
  /\ pc \in {"idle", "scan", "found", "take", "free"}
  /\ pc = "idle" => Idle
  /\ pc = "scan" => Scanning
  /\ pc = "found" => Found
  /\ pc = "take" => Taking
  /\ pc = "free" => Freeing

------------------------------------------------------------------------------
(* What the loops compute. *)

\* Requests are of one block or more.
LEMMA RequestedIsPositive == Requested \subseteq Nat \ {0}
BY SizesAssumption DEF Requested

\* A set of block numbers has one least element.
LEMMA LeastIs ==
  ASSUME NEW S \in SUBSET Nat, NEW s \in S, \A t \in S : s <= t
  PROVE  Least(S) = s
<1>1. Least(S) \in S /\ \A t \in S : Least(S) <= t
  BY LeastExists
<1>2. Least(S) <= s /\ s <= Least(S) /\ Least(S) \in Nat /\ s \in Nat
  BY <1>1
<1> QED
  BY <1>2

\* A scan that stops has found the first run that is long enough.
LEMMA FoundIsFirst ==
  ASSUME Found
  PROVE  /\ block_start = heap_get_start_block(before, total_blocks)
         /\ block_start \in Table
<1> DEFINE n == total_blocks
<1>1. n \in Nat \ {0}
  BY RequestedIsPositive DEF Found
<1>2. /\ i \in 0 .. TABLE_TOTAL /\ block_start = i - n /\ block_start \in Nat
      /\ FreeRun(before, block_start, i - 1)
  BY <1>1, TotalAssumption DEF Found, Counted
<1>3. block_start \in Runs(before, n)
  BY <1>1, <1>2, TotalAssumption DEF Runs
<1>4. \A t \in Runs(before, n) : block_start <= t
  BY <1>1, <1>2, TotalAssumption DEF Runs, Found, NoRunBefore
<1>5. Runs(before, n) \in SUBSET Nat
  BY <1>1, TotalAssumption DEF Runs
<1>6. Least(Runs(before, n)) = block_start
  BY <1>3, <1>4, <1>5, LeastIs
<1> QED
  BY <1>1, <1>2, <1>3, <1>6, TotalAssumption DEF heap_get_start_block, Table

\* A scan that runs to the end of the table ends in the free blocks there, or
\* fails when the last block is taken.
LEMMA ScannedToEnd ==
  ASSUME Scanning, i = TABLE_TOTAL
  PROVE  /\ block_start = -1 => heap_get_start_block(before, total_blocks) = -NO_MEMORY_ERROR
         /\ block_start # -1 =>
              /\ block_start = heap_get_start_block(before, total_blocks)
              /\ block_start \in Table
<1> DEFINE n == total_blocks
<1>1. n \in Nat \ {0}
  BY RequestedIsPositive DEF Scanning
<1>2. Runs(before, n) = {}
  BY <1>1, TotalAssumption DEF Runs, Scanning, NoRunBefore
<1>3. CASE block_current = 0
  <2>1. ~IsFree(before, TABLE_TOTAL - 1)
    BY <1>3, TotalAssumption DEF Scanning, Counted
  <2>2. LastRun(before) = {}
    BY <2>1, TotalAssumption DEF LastRun, FreeRun
  <2> QED
    BY <1>2, <1>3, <2>2 DEF heap_get_start_block, Scanning, Counted
<1>4. CASE block_current # 0
  <2>1. /\ block_start \in Table /\ FreeRun(before, block_start, TABLE_TOTAL - 1)
        /\ block_start > 0 => ~IsFree(before, block_start - 1)
    BY <1>4, TotalAssumption DEF Scanning, Counted, Table
  <2>2. block_start \in LastRun(before)
    BY <2>1 DEF LastRun, Table
  <2>3. \A t \in LastRun(before) : block_start <= t
    BY <2>1, TotalAssumption DEF LastRun, FreeRun, Table
  <2>4. LastRun(before) \in SUBSET Nat
    BY TotalAssumption DEF LastRun
  <2>5. Least(LastRun(before)) = block_start
    BY <2>2, <2>3, <2>4, LeastIs
  <2> QED
    BY <1>2, <2>1, <2>2, <2>5 DEF heap_get_start_block, Table
<1> QED
  BY <1>3, <1>4

------------------------------------------------------------------------------
(* The invariant is inductive. *)

\* kernel_heap_init leaves an empty table and no call under way.
LEMMA InitLoopInv == ScanInit => LoopInv
BY TotalAssumption DEF ScanInit, Init, LoopInv, Idle, Table, Entry,
   HEAP_BLOCK_TABLE_ENTRY_FREE, Allocation

\* The calls themselves prepare their loops.
LEMMA CallsKeepLoopInv ==
  ASSUME LoopInv,
         \/ \E size \in Sizes : CallMalloc(size)
         \/ \E a \in live : CallFree(heap_block_to_address(a.start), {a})
         \/ CallFree(NULL, {})
  PROVE  LoopInv'
<1>1. pc = "idle" /\ Idle
  BY DEF CallMalloc, CallFree, LoopInv
<1>2. ASSUME NEW size \in Sizes, CallMalloc(size) PROVE LoopInv'
  <2>1. /\ UNCHANGED <<before, entries, live, i, block_start, block_current>>
        /\ pc' = "scan" /\ total_blocks' = BlocksFor(size)
    BY <1>2 DEF CallMalloc, vars
  <2>2. total_blocks' \in Requested /\ total_blocks' \in Nat \ {0}
    BY <2>1, SizesAssumption DEF Requested
  <2>3. Scanning'
    BY <1>1, <2>1, <2>2, TotalAssumption
       DEF Idle, Scanning, Counted, NoRunBefore, FreeRun
  <2> QED
    BY <2>1, <2>3 DEF LoopInv
<1>3. ASSUME NEW ptr \in Int, NEW S, CallFree(ptr, S),
             \/ ptr = NULL /\ S = {}
             \/ \E a \in live : ptr = heap_block_to_address(a.start) /\ S = {a}
      PROVE  LoopInv'
  <2>1. /\ UNCHANGED <<before, entries, live>>
        /\ pc' = "free" /\ freeing' = S
        /\ i' = heap_address_to_block(ptr) % WORD
    BY <1>3 DEF CallFree, vars
  <2>2. heap_address_to_block(ptr) \in Int
    BY <1>3, AddressAssumption, BlockSizeAssumption DEF heap_address_to_block
  <2>3. i' \in Nat
    BY <2>1, <2>2, WordAssumption, BlockSizeAssumption
  <2>4. entries' = [k \in Table |->
           IF Cleared(i', k) /\ k < i' THEN HEAP_BLOCK_TABLE_ENTRY_FREE ELSE before[k]]
    BY <1>1, <2>1, <2>3 DEF Idle, Cleared, LoopInv, Table
  <2>5. Cleared(i', i')
    <3>1. \A m \in Nat : Cleared(m, m)
      BY DEF Cleared
    <3> QED
      BY <2>3, <3>1
  <2>6. Freeing'
    BY <1>3, <2>1, <2>3, <2>4, <2>5 DEF Freeing, Cleared
  <2> QED
    BY <2>1, <2>6 DEF LoopInv
<1>4. \A a \in live : heap_block_to_address(a.start) \in Int
  BY AddressAssumption, BlockSizeAssumption, TotalAssumption
     DEF LoopInv, Allocation, heap_block_to_address
<1>5. ASSUME NEW a \in live, CallFree(heap_block_to_address(a.start), {a})
      PROVE  LoopInv'
  BY <1>3, <1>4, <1>5
<1>6. CASE CallFree(NULL, {})
  <2>1. NULL \in Int
    BY DEF NULL
  <2> QED
    BY <1>3, <1>6, <2>1
<1> QED
  BY <1>2, <1>5, <1>6

\* One iteration of heap_get_start_block.
LEMMA ScanKeepsLoopInv ==
  ASSUME LoopInv, ScanStep
  PROVE  LoopInv'
<1> DEFINE n == total_blocks
<1>1. /\ Scanning /\ i < TABLE_TOTAL /\ i' = i + 1
      /\ UNCHANGED <<entries, live, before, total_blocks>>
  BY DEF ScanStep, LoopInv, vars
<1>2. n \in Nat \ {0} /\ i \in Nat /\ block_current \in Nat
  BY <1>1, RequestedIsPositive DEF Scanning, Counted
<1>3. CASE ~IsFree(entries, i)
  <2>1. block_current' = 0 /\ block_start' = -1 /\ pc' = "scan"
    BY <1>3 DEF ScanStep
  <2>2. Counted(i)'
    BY <1>1, <1>2, <1>3, <2>1, TotalAssumption DEF Counted, Scanning, FreeRun
  <2>3. NoRunBefore(i)'
    BY <1>1, <1>2, <1>3, <2>1, TotalAssumption DEF NoRunBefore, Scanning, FreeRun
  <2> QED
    BY <1>1, <1>2, <2>1, <2>2, <2>3 DEF LoopInv, Scanning
<1>4. CASE IsFree(entries, i)
  <2>1. /\ block_current' = block_current + 1
        /\ block_start' = IF block_start = -1 THEN i ELSE block_start
        /\ pc' = IF block_current' = n THEN "found" ELSE "scan"
    BY <1>4 DEF ScanStep
  <2>2. Counted(i)'
    BY <1>1, <1>2, <1>4, <2>1, TotalAssumption DEF Counted, Scanning, FreeRun
  <2>3. NoRunBefore(i) /\ i' - 1 = i
    BY <1>1, <1>2 DEF Scanning
  <2>4. CASE block_current' = n
    <3>1. NoRunBefore(i - 1)'
      BY <1>1, <2>3 DEF NoRunBefore
    <3> QED
      BY <1>1, <2>1, <2>2, <2>4, <3>1 DEF LoopInv, Found, Scanning
  <2>5. CASE block_current' # n
    <3>1. block_current' < n
      BY <1>1, <1>2, <2>1, <2>5 DEF Scanning
    <3>2. NoRunBefore(i)'
      <4> SUFFICES ASSUME NEW s \in 0 .. TABLE_TOTAL - n, s + n <= i + 1,
                          FreeRun(before, s, s + n - 1)
                   PROVE  FALSE
        BY <1>1 DEF NoRunBefore
      <4>1. s + n = i + 1
        BY <1>2, <2>3 DEF NoRunBefore
      <4>2. /\ i - block_current > 0 /\ ~IsFree(before, i - block_current - 1)
            /\ i - block_current - 1 \in s .. s + n - 1
        BY <1>1, <1>2, <2>1, <3>1, <4>1 DEF Scanning, Counted
      <4> QED
        BY <4>2 DEF FreeRun
    <3> QED
      BY <1>1, <2>1, <2>2, <2>5, <3>1, <3>2 DEF LoopInv, Scanning
  <2> QED
    BY <2>4, <2>5
<1> QED
  BY <1>3, <1>4

\* Returns leaves nothing of the call.
LEMMA ReturnsKeepsLoopInv ==
  ASSUME LoopInv, Returns, UNCHANGED entries, live' \subseteq Allocation
  PROVE  LoopInv'
BY DEF LoopInv, Returns, Idle

\* What heap_get_start_block has found when it stops, at ScanEnd.
LEMMA ScanResult ==
  ASSUME LoopInv, pc = "found" \/ (pc = "scan" /\ i = TABLE_TOTAL)
  PROVE  /\ total_blocks \in Requested /\ entries = before
         /\ block_start = -1 => heap_get_start_block(before, total_blocks) < 0
         /\ block_start # -1 =>
              /\ block_start = heap_get_start_block(before, total_blocks)
              /\ block_start \in Table
<1>1. CASE pc = "found"
  BY <1>1, FoundIsFirst DEF LoopInv, Found, Table
<1>2. CASE pc = "scan" /\ i = TABLE_TOTAL
  BY <1>2, ScannedToEnd DEF LoopInv, Scanning, NO_MEMORY_ERROR
<1> QED
  BY <1>1, <1>2

\* The end of the scan: an error, or the first entry to write.
LEMMA ScanEndKeepsLoopInv ==
  ASSUME LoopInv, ScanEnd
  PROVE  LoopInv'
<1>1. pc = "found" \/ (pc = "scan" /\ i = TABLE_TOTAL)
  BY DEF ScanEnd
<1>2. CASE block_start = -1
  BY <1>2, ReturnsKeepsLoopInv DEF ScanEnd, LoopInv
<1>3. CASE block_start # -1
  <2>1. /\ pc' = "take" /\ i' = block_start
        /\ entry' = {"TAKEN", "IS_FIRST"}
                      \cup (IF total_blocks > 1 THEN {"HAS_NEXT"} ELSE {})
        /\ UNCHANGED <<entries, live, before, total_blocks, block_start>>
    BY <1>3 DEF ScanEnd, vars
  <2>2. /\ total_blocks \in Requested /\ entries = before
        /\ block_start = heap_get_start_block(before, total_blocks)
        /\ block_start \in Table
    BY <1>1, <1>3, ScanResult
  <2>3. block_start \in Nat /\ total_blocks \in Nat \ {0}
    BY <2>2, RequestedIsPositive, TotalAssumption DEF Table
  <2> DEFINE new == [start |-> block_start, len |-> total_blocks]
  <2>4. entry' = Flags(new, block_start)
    BY <2>1, <2>3 DEF Flags
  <2>5. entries' = [k \in Table |->
          IF k \in block_start .. block_start - 1 THEN Flags(new, k) ELSE before[k]]
    BY <2>1, <2>2, <2>3 DEF LoopInv
  <2>6. Taking'
    BY <2>1, <2>2, <2>3, <2>4, <2>5 DEF Taking
  <2> QED
    BY <2>1, <2>6 DEF LoopInv
<1> QED
  BY <1>2, <1>3

\* One iteration of heap_mark_blocks_taken: the entry that was prepared is
\* the one for block i, and the one prepared is for block i + 1.
LEMMA TakeKeepsLoopInv ==
  ASSUME LoopInv, TakeStep
  PROVE  LoopInv'
<1> DEFINE new == [start |-> block_start, len |-> total_blocks]
<1>1. /\ Taking /\ i <= end_block /\ i' = i + 1 /\ pc' = "take"
      /\ entries' = IF i < TABLE_TOTAL THEN [entries EXCEPT ![i] = entry] ELSE entries
      /\ entry' = {"TAKEN"} \cup (IF i # end_block - 1 THEN {"HAS_NEXT"} ELSE {})
      /\ UNCHANGED <<live, before, total_blocks, block_start>>
  BY DEF TakeStep, LoopInv
<1>2. total_blocks \in Nat \ {0} /\ block_start \in Nat /\ i \in Nat /\ block_start <= i
  BY <1>1, RequestedIsPositive, TotalAssumption DEF Taking, Table
<1>3. \A k : Flags(new, k) \in Entry
  BY DEF Flags, Entry
<1>4. i' <= end_block' => entry' = Flags(new, i')
  BY <1>1, <1>2 DEF Flags, end_block
<1>5. entries' = [k \in Table |->
        IF k \in block_start .. i' - 1 THEN Flags(new, k) ELSE before[k]]
  <2>1. entries = [k \in Table |->
          IF k \in block_start .. i - 1 THEN Flags(new, k) ELSE before[k]]
    BY <1>1 DEF Taking
  <2>2. entry = Flags(new, i)
    BY <1>1 DEF Taking
  <2>3. \A k \in Table : k \in block_start .. i' - 1 <=> k \in block_start .. i - 1 \/ k = i
    BY <1>1, <1>2, TotalAssumption DEF Table
  <2> HIDE DEF new
  <2>4. CASE i < TABLE_TOTAL
    <3>1. entries' = [entries EXCEPT ![i] = Flags(new, i)] /\ i \in Table
      BY <1>1, <1>2, <2>2, <2>4, TotalAssumption DEF Table
    <3> QED
      BY <2>1, <2>3, <3>1
  <2>5. CASE ~(i < TABLE_TOTAL)
    <3>1. entries' = entries /\ i \notin Table
      BY <1>1, <1>2, <2>5, TotalAssumption DEF Table
    <3> QED
      BY <2>1, <2>3, <3>1
  <2> QED
    BY <2>4, <2>5
<1>6. i' \in block_start .. block_start + total_blocks
  BY <1>1, <1>2 DEF end_block
<1>7. Taking'
  BY <1>1, <1>4, <1>5, <1>6 DEF Taking, Table
<1>8. entries' \in [Table -> Entry]
  BY <1>3, <1>5 DEF LoopInv
<1> QED
  BY <1>1, <1>7, <1>8 DEF LoopInv

\* One iteration of heap_mark_blocks_free: after the last block of a chain
\* nothing more is to be cleared.
LEMMA FreeKeepsLoopInv ==
  ASSUME LoopInv, FreeStep
  PROVE  LoopInv'
<1>1. /\ Freeing /\ pc' = "free" /\ i < TABLE_TOTAL
      /\ entries' = [entries EXCEPT ![i] = HEAP_BLOCK_TABLE_ENTRY_FREE]
      /\ i' = IF "HAS_NEXT" \in entries[i] THEN i + 1 ELSE TABLE_TOTAL
      /\ UNCHANGED <<live, before, freeing>>
  BY DEF FreeStep, LoopInv
<1>2. PICK ptr \in Int :
        /\ \/ ptr = NULL /\ freeing = {}
           \/ \E a \in live : ptr = heap_block_to_address(a.start) /\ freeing = {a}
        /\ LET first == heap_address_to_block(ptr) % WORD
           IN  /\ first \in Nat /\ i \in Nat
               /\ entries = [k \in Table |->
                    IF Cleared(first, k) /\ k < i THEN HEAP_BLOCK_TABLE_ENTRY_FREE
                    ELSE before[k]]
               /\ i < TABLE_TOTAL => Cleared(first, i)
  BY <1>1 DEF Freeing
<1> DEFINE first == heap_address_to_block(ptr) % WORD
<1>3. /\ first \in Nat /\ i \in Nat /\ i \in Table
      /\ Cleared(first, i)
      /\ entries = [k \in Table |->
           IF Cleared(first, k) /\ k < i THEN HEAP_BLOCK_TABLE_ENTRY_FREE ELSE before[k]]
  BY <1>1, <1>2, TotalAssumption DEF Table
<1> HIDE DEF first
<1>4. entries[i] = before[i]
  BY <1>3
<1>5. \A k \in Table : Cleared(first, k) /\ k < i' <=> Cleared(first, k) /\ (k < i \/ k = i)
  <2>1. CASE "HAS_NEXT" \in before[i]
    BY <1>1, <1>3, <1>4, <2>1, TotalAssumption DEF Table
  <2>2. CASE "HAS_NEXT" \notin before[i]
    <3>1. \A k \in Table : Cleared(first, k) => k <= i
      BY <1>3, <2>2, TotalAssumption DEF Cleared, Table
    <3> QED
      BY <1>1, <1>3, <1>4, <2>2, <3>1, TotalAssumption DEF Table
  <2> QED
    BY <2>1, <2>2
<1>6. entries' = [k \in Table |->
        IF Cleared(first, k) /\ k < i' THEN HEAP_BLOCK_TABLE_ENTRY_FREE ELSE before[k]]
  BY <1>1, <1>3, <1>5
<1>7. i' \in Nat /\ (i' < TABLE_TOTAL => Cleared(first, i'))
  <2>1. CASE "HAS_NEXT" \in before[i]
    <3>1. \A m \in Nat : m = i + 1 => Cleared(first, m)
      BY <1>3, <2>1 DEF Cleared
    <3> QED
      BY <1>1, <1>3, <1>4, <2>1, <3>1
  <2>2. CASE "HAS_NEXT" \notin before[i]
    BY <1>1, <1>4, <2>2, TotalAssumption
  <2> QED
    BY <2>1, <2>2
<1>8. Freeing'
  <2>1. \A k : Cleared(first, k)' <=> Cleared(first, k)
    BY <1>1 DEF Cleared
  <2>2. /\ \/ ptr = NULL /\ freeing' = {}
           \/ \E a \in live' : ptr = heap_block_to_address(a.start) /\ freeing' = {a}
    BY <1>1, <1>2
  <2>3. /\ first \in Nat /\ i' \in Nat
        /\ entries' = [k \in Table |->
             IF Cleared(first, k)' /\ k < i' THEN HEAP_BLOCK_TABLE_ENTRY_FREE ELSE before'[k]]
    BY <1>1, <1>3, <1>6, <1>7, <2>1
  <2>4. i' < TABLE_TOTAL => Cleared(first, i)'
    BY <1>1, <1>7 DEF Cleared
  <2> QED
    BY <2>2, <2>3, <2>4 DEF Freeing, first, Cleared
<1>9. entries' \in [Table -> Entry]
  BY <1>1 DEF LoopInv, Entry, HEAP_BLOCK_TABLE_ENTRY_FREE
<1> QED
  BY <1>1, <1>8, <1>9 DEF LoopInv

\* Every step keeps the invariant.
LEMMA NextLoopInv == LoopInv /\ [ScanNext]_scanVars => LoopInv'
<1> SUFFICES ASSUME LoopInv, [ScanNext]_scanVars PROVE LoopInv'
  OBVIOUS
<1>1. CASE \/ \E size \in Sizes : CallMalloc(size)
           \/ \E a \in live : CallFree(heap_block_to_address(a.start), {a})
           \/ CallFree(NULL, {})
  BY <1>1, CallsKeepLoopInv
<1>2. CASE ScanStep
  BY <1>2, ScanKeepsLoopInv
<1>3. CASE ScanEnd
  BY <1>3, ScanEndKeepsLoopInv
<1>4. CASE TakeStep
  BY <1>4, TakeKeepsLoopInv
<1>5. CASE TakeEnd
  <2>1. [start |-> block_start, len |-> total_blocks] \in Allocation
    BY <1>5, RequestedIsPositive DEF TakeEnd, LoopInv, Taking, Table, Allocation
  <2>2. live' \subseteq Allocation
    BY <1>5, <2>1 DEF TakeEnd, LoopInv
  <2> QED
    BY <1>5, <2>2, ReturnsKeepsLoopInv DEF TakeEnd
<1>6. CASE FreeStep
  BY <1>6, FreeKeepsLoopInv
<1>7. CASE FreeEnd
  <2>1. live' \subseteq Allocation
    BY <1>7 DEF FreeEnd, LoopInv
  <2> QED
    BY <1>7, <2>1, ReturnsKeepsLoopInv DEF FreeEnd
<1>8. CASE UNCHANGED scanVars
  BY <1>8 DEF scanVars, vars, loopVars, LoopInv, Idle, Scanning, Found, Taking,
     Freeing, Counted, NoRunBefore, Cleared, end_block
<1> QED
  BY <1>1, <1>2, <1>3, <1>4, <1>5, <1>6, <1>7, <1>8 DEF ScanNext, LoopStep

------------------------------------------------------------------------------
(* The refinement. *)

\* The operators of the instance are those of Heap: none of them reads the
\* table but through its argument.
LEMMA SameOperators ==
  /\ \A size : Calls!BlocksFor(size) = BlocksFor(size)
  /\ \A e, n : Calls!heap_get_start_block(e, n) = heap_get_start_block(e, n)
  /\ \A e, s, n : Calls!heap_mark_blocks_taken(e, s, n) = heap_mark_blocks_taken(e, s, n)
  /\ \A e, b : Calls!heap_mark_blocks_free(e, b) = heap_mark_blocks_free(e, b)
  /\ \A b : Calls!heap_block_to_address(b) = heap_block_to_address(b)
  /\ \A ptr : Calls!heap_address_to_block(ptr) = heap_address_to_block(ptr)
  /\ Calls!NoBlock = NoBlock /\ Calls!NULL = NULL /\ Calls!Quiet = Quiet
<1>1. \A size : Calls!BlocksFor(size) = BlocksFor(size)
  BY DEF Calls!BlocksFor, BlocksFor, Calls!heap_align_value_to_upper, heap_align_value_to_upper
<1>2. \A e, n : Calls!heap_get_start_block(e, n) = heap_get_start_block(e, n)
  BY DEF Calls!heap_get_start_block, heap_get_start_block, Calls!Runs, Runs,
     Calls!LastRun, LastRun, Calls!Least, Least, Calls!FreeRun, FreeRun,
     Calls!IsFree, IsFree, Calls!heap_get_entry_type, heap_get_entry_type,
     Calls!HEAP_BLOCK_TABLE_ENTRY_FREE, HEAP_BLOCK_TABLE_ENTRY_FREE,
     Calls!NO_MEMORY_ERROR, NO_MEMORY_ERROR
<1>3. \A e, s, n : Calls!heap_mark_blocks_taken(e, s, n) = heap_mark_blocks_taken(e, s, n)
  BY DEF Calls!heap_mark_blocks_taken, heap_mark_blocks_taken
<1>4. \A e, b : Calls!heap_mark_blocks_free(e, b) = heap_mark_blocks_free(e, b)
  BY DEF Calls!heap_mark_blocks_free, heap_mark_blocks_free,
     Calls!HEAP_BLOCK_TABLE_ENTRY_FREE, HEAP_BLOCK_TABLE_ENTRY_FREE
<1>5. \A b : Calls!heap_block_to_address(b) = heap_block_to_address(b)
  BY DEF Calls!heap_block_to_address, heap_block_to_address
<1>6. \A ptr : Calls!heap_address_to_block(ptr) = heap_address_to_block(ptr)
  BY DEF Calls!heap_address_to_block, heap_address_to_block
<1>7. Calls!NoBlock = NoBlock /\ Calls!NULL = NULL /\ Calls!Quiet = Quiet
  BY DEF Calls!NoBlock, NoBlock, Calls!NULL, NULL, Calls!Quiet, Quiet
<1> QED
  BY <1>1, <1>2, <1>3, <1>4, <1>5, <1>6, <1>7

\* When heap_mark_blocks_taken is through, the table is the one Heap says.
LEMMA TakenTable ==
  ASSUME LoopInv, pc = "take", i > end_block
  PROVE  /\ total_blocks \in Requested /\ block_start \in Table
         /\ block_start = heap_get_start_block(before, total_blocks)
         /\ entries = heap_mark_blocks_taken(before, block_start, total_blocks)
<1> DEFINE new == [start |-> block_start, len |-> total_blocks]
<1>1. Taking /\ before \in [Table -> Entry]
  BY DEF LoopInv
<1>2. total_blocks \in Nat \ {0} /\ block_start \in Nat
  BY <1>1, RequestedIsPositive, TotalAssumption DEF Taking, Table
<1>3. i = block_start + total_blocks
  BY <1>1, <1>2 DEF Taking, end_block
<1>4. entries = [k \in Table |-> IF k \in block_start .. block_start + total_blocks - 1
                                 THEN Flags(new, k) ELSE before[k]]
  <2>1. i - 1 = block_start + total_blocks - 1
    BY <1>2, <1>3
  <2> QED
    BY <1>1, <2>1 DEF Taking
<1>5. entries = heap_mark_blocks_taken(before, block_start, total_blocks)
  <2>1. DOMAIN before = Table
    BY <1>1
  <2>2. \A k : Flags(new, k) =
          {"TAKEN"} \cup (IF k = block_start THEN {"IS_FIRST"} ELSE {})
                    \cup (IF k # block_start + total_blocks - 1 THEN {"HAS_NEXT"} ELSE {})
    BY DEF Flags
  <2> HIDE DEF new
  <2> QED
    BY <1>4, <2>1, <2>2, Zenon DEF heap_mark_blocks_taken
<1> QED
  BY <1>1, <1>5 DEF Taking

\* When heap_mark_blocks_free is through, too.
LEMMA FreedTable ==
  ASSUME LoopInv, pc = "free", i >= TABLE_TOTAL
  PROVE  \E ptr :
           /\ \/ ptr = NULL /\ freeing = {}
              \/ \E a \in live : ptr = heap_block_to_address(a.start) /\ freeing = {a}
           /\ entries = heap_mark_blocks_free(before, heap_address_to_block(ptr))
<1>1. Freeing /\ before \in [Table -> Entry]
  BY DEF LoopInv
<1>2. PICK ptr \in Int :
        /\ \/ ptr = NULL /\ freeing = {}
           \/ \E a \in live : ptr = heap_block_to_address(a.start) /\ freeing = {a}
        /\ LET first == heap_address_to_block(ptr) % WORD
           IN  /\ first \in Nat /\ i \in Nat
               /\ entries = [k \in Table |->
                    IF Cleared(first, k) /\ k < i THEN HEAP_BLOCK_TABLE_ENTRY_FREE
                    ELSE before[k]]
               /\ i < TABLE_TOTAL => Cleared(first, i)
  BY <1>1 DEF Freeing
<1> DEFINE first == heap_address_to_block(ptr) % WORD
<1>3. \A k \in Table : k < i
  BY <1>2, TotalAssumption DEF Table
<1>4. entries = [k \in Table |->
        IF Cleared(first, k) THEN HEAP_BLOCK_TABLE_ENTRY_FREE ELSE before[k]]
  BY <1>2, <1>3
<1>5. entries = heap_mark_blocks_free(before, heap_address_to_block(ptr))
  BY <1>1, <1>4 DEF heap_mark_blocks_free, Cleared
<1> QED
  BY <1>2, <1>5

\* A call that returns is a step of Heap, the other steps change nothing that
\* Heap knows of.
LEMMA StepIsCall ==
  LoopInv /\ [ScanNext]_scanVars => [Calls!Next]_(Calls!vars)
<1> SUFFICES ASSUME LoopInv, [ScanNext]_scanVars
             PROVE  Calls!Next \/ UNCHANGED <<before, live, reply>>
  BY DEF Calls!vars
<1>1. CASE ScanEnd /\ block_start = -1
  <2>1. /\ total_blocks \in Requested /\ entries = before
        /\ heap_get_start_block(before, total_blocks) < 0
    BY <1>1, ScanResult DEF ScanEnd
  <2>2. PICK size \in Sizes : total_blocks = BlocksFor(size)
    BY <2>1 DEF Requested
  <2>3. /\ reply' = [asked |-> BlocksFor(size), start |-> NoBlock]
        /\ before' = before /\ live' = live
    BY <1>1, <2>1, <2>2 DEF ScanEnd, Returns
  <2>4. Calls!kernel_malloc(size)
    BY <2>1, <2>2, <2>3, SameOperators DEF Calls!kernel_malloc
  <2> QED
    BY <2>4 DEF Calls!Next
<1>2. CASE ScanEnd /\ block_start # -1
  BY <1>2 DEF ScanEnd, vars
<1>3. CASE TakeEnd
  <2>1. /\ total_blocks \in Requested /\ block_start \in Table
        /\ block_start = heap_get_start_block(before, total_blocks)
        /\ entries = heap_mark_blocks_taken(before, block_start, total_blocks)
    BY <1>3, TakenTable DEF TakeEnd
  <2>2. PICK size \in Sizes : total_blocks = BlocksFor(size)
    BY <2>1 DEF Requested
  <2>3. /\ reply' = [asked |-> total_blocks, start |-> block_start]
        /\ live' = live \cup {[start |-> block_start, len |-> total_blocks]}
        /\ before' = entries
    BY <1>3 DEF TakeEnd, Returns
  <2>4. block_start >= 0
    BY <2>1, TotalAssumption DEF Table
  <2>5. Calls!kernel_malloc(size)
    BY <2>1, <2>2, <2>3, <2>4, SameOperators DEF Calls!kernel_malloc
  <2> QED
    BY <2>5 DEF Calls!Next
<1>4. CASE FreeEnd
  <2>1. PICK ptr :
          /\ \/ ptr = NULL /\ freeing = {}
             \/ \E a \in live : ptr = heap_block_to_address(a.start) /\ freeing = {a}
          /\ entries = heap_mark_blocks_free(before, heap_address_to_block(ptr))
    BY <1>4, FreedTable DEF FreeEnd
  <2>2. /\ before' = heap_mark_blocks_free(before, heap_address_to_block(ptr))
        /\ live' = live \ freeing /\ reply' = Quiet
    BY <1>4, <2>1 DEF FreeEnd, Returns
  <2>3. CASE ptr = NULL /\ freeing = {}
    <3>1. Calls!kernel_free_null
      BY <2>2, <2>3, SameOperators DEF Calls!kernel_free_null, Calls!heap_free
    <3> QED
      BY <3>1 DEF Calls!Next
  <2>4. ASSUME NEW a \in live, ptr = heap_block_to_address(a.start), freeing = {a}
        PROVE  Calls!Next
    <3>1. Calls!kernel_free(a)
      BY <2>2, <2>4, SameOperators DEF Calls!kernel_free, Calls!heap_free
    <3> QED
      BY <3>1 DEF Calls!Next
  <2> QED
    BY <2>1, <2>3, <2>4
<1>5. CASE ScanStep \/ TakeStep \/ FreeStep
  BY <1>5 DEF ScanStep, TakeStep, FreeStep, vars
<1>6. CASE \/ \E size \in Sizes : CallMalloc(size)
           \/ \E a \in live : CallFree(heap_block_to_address(a.start), {a})
           \/ CallFree(NULL, {})
  BY <1>6 DEF CallMalloc, CallFree, vars
<1>7. CASE UNCHANGED scanVars
  BY <1>7 DEF scanVars, vars, loopVars
<1> QED
  BY <1>1, <1>2, <1>3, <1>4, <1>5, <1>6, <1>7 DEF ScanNext, LoopStep

\* The loops of heap.c compute what Heap says of each call: the refinement.
THEOREM LoopsImplementHeap == ScanSpec => ImplementsHeap
<1>1. ScanInit => Calls!Init
  BY DEF ScanInit, Init, Calls!Init, Calls!HEAP_BLOCK_TABLE_ENTRY_FREE,
     HEAP_BLOCK_TABLE_ENTRY_FREE, Calls!Quiet, Quiet, Calls!NoBlock, NoBlock
<1> QED
  BY <1>1, InitLoopInv, NextLoopInv, StepIsCall, PTL
     DEF ScanSpec, ImplementsHeap, Calls!Spec

\* The table of the call is one that callers' allocations are described by.
LEMMA InitCalled == Calls!Init => Described(before, live, reply)
BY TotalAssumption DEF Calls!Init, Described, Typed, NotEmpty, Apart, Taken, Untaken,
   Calls!Quiet, Calls!NoBlock, NoBlock, Entry, Calls!HEAP_BLOCK_TABLE_ENTRY_FREE,
   HEAP_BLOCK_TABLE_ENTRY_FREE, Table

LEMMA NextCalled == Calls!Next => Called(before, before')
<1>1. ASSUME NEW size \in Sizes, Calls!kernel_malloc(size) PROVE Called(before, before')
  BY <1>1, SameOperators DEF Calls!kernel_malloc, Called
<1>2. ASSUME NEW a \in live, Calls!kernel_free(a) PROVE Called(before, before')
  BY <1>2, SameOperators DEF Calls!kernel_free, Calls!heap_free, Called
<1>3. CASE Calls!kernel_free_null
  BY <1>3, SameOperators DEF Calls!kernel_free_null, Calls!heap_free, Called
<1> QED
  BY <1>1, <1>2, <1>3 DEF Calls!Next

\* Through the loops, too, the table keeps its type, no two allocations share a
\* block, and between two calls the table says exactly what the callers hold.
THEOREM LoopsAreSafe ==
  ScanSpec => [](TypeOK /\ NoOverlap /\ TableMatchesLiveBetweenCalls)
<1> DEFINE Before == Described(before, live, reply)
<1>1. Calls!Init => Before
  BY InitCalled
<1>2. Before /\ [Calls!Next]_(Calls!vars) => Before'
  <2>1. CASE Calls!Next
    BY <2>1, NextCalled, CallKeeps
  <2>2. CASE UNCHANGED Calls!vars
    BY <2>2 DEF Calls!vars
  <2> QED
    BY <2>1, <2>2
<1>3. LoopInv /\ Before => TypeOK /\ NoOverlap
  BY DEF LoopInv, Described, Typed, Apart, TypeOK, NoOverlap, Table
<1>4. LoopInv /\ Before => TableMatchesLiveBetweenCalls
  <2> SUFFICES ASSUME LoopInv, Before, pc = "idle" PROVE TableMatchesLive
    BY DEF TableMatchesLiveBetweenCalls
  <2>1. IInv
    BY DEF LoopInv, Idle, IInv
  <2> QED
    BY <2>1, IInvGivesTable
<1>5. ScanSpec => []LoopInv
  BY InitLoopInv, NextLoopInv, PTL DEF ScanSpec
<1> HIDE DEF Before
<1>6. Calls!Spec => []Before
  BY <1>1, <1>2, PTL DEF Calls!Spec
<1> QED
  BY <1>3, <1>4, <1>5, <1>6, LoopsImplementHeap, PTL DEF ImplementsHeap
==============================================================================
