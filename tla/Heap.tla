--------------------------------- MODULE Heap ---------------------------------
(***************************************************************************)
(* The kernel heap: src/memory/heap/heap.c and kernelHeap.c.  The heap is  *)
(* an array of blocks; a table holds one entry byte per block.  An entry   *)
(* is kept as the set of its flags, so that | is \cup and & is \cap.       *)
(*                                                                         *)
(* The loops over the table are written by what they compute; HeapScan     *)
(* holds them step by step and is checked to implement this module.       *)
(*                                                                         *)
(* "live" is the callers' side: the pointers kernel_malloc returned that   *)
(* were not yet given to kernel_free.                                      *)
(***************************************************************************)
EXTENDS Integers

CONSTANTS
  HEAP_BLOCK_SIZE,  \* bytes of a block
  HEAP_ADDRESS,     \* address of block 0
  TABLE_TOTAL,      \* table->total, the number of blocks
  WORD,             \* 2^32: size_t and uint32_t wrap here
  Sizes             \* byte counts callers ask for

ASSUME BlockSizeAssumption == HEAP_BLOCK_SIZE \in Nat \ {0}

ASSUME TotalAssumption == TABLE_TOTAL \in Nat \ {0}

\* heap_create checks the alignment; the heap is neither at address 0 nor so
\* high that the (wrapped) block number of NULL falls inside the table.
ASSUME AddressAssumption ==
  /\ HEAP_ADDRESS \in Nat \ {0}
  /\ HEAP_ADDRESS % HEAP_BLOCK_SIZE = 0
  /\ HEAP_ADDRESS \div HEAP_BLOCK_SIZE + TABLE_TOTAL <= WORD

ASSUME WordAssumption == WORD \in Nat /\ HEAP_BLOCK_SIZE < WORD

NULL == 0
NO_MEMORY_ERROR == 3

VARIABLES
  entries,  \* table->entries
  live,     \* allocations in the callers' hands: [start, len]
  reply     \* what the last call answered: [asked, start]

vars == <<entries, live, reply>>

------------------------------------------------------------------------------
(* The table. *)

HEAP_BLOCK_TABLE_ENTRY_FREE == {}

Entry == SUBSET {"TAKEN", "IS_FIRST", "HAS_NEXT"}

\* Mutant: the wrong mask.
heap_get_entry_type_first(entry) == entry \cap {"IS_FIRST"}

heap_get_entry_type(entry) == entry \cap {"TAKEN"}

IsFree(e, i) == heap_get_entry_type(e[i]) = HEAP_BLOCK_TABLE_ENTRY_FREE

FreeRun(e, from, to) == \A i \in from .. to : IsFree(e, i)

\* Where a run of n free blocks starts.
Runs(e, n) == {s \in 0 .. TABLE_TOTAL - n : FreeRun(e, s, s + n - 1)}

\* Where a run of free blocks that reaches the end of the table starts.
LastRun(e) == {s \in 0 .. TABLE_TOTAL - 1 : FreeRun(e, s, TABLE_TOTAL - 1)}

Least(S) == CHOOSE s \in S : \A t \in S : s <= t

\* The scan stops at the first run that is long enough.  Without one it still
\* answers with the run it was counting when the table ended; it fails only
\* when the last block is taken.
heap_get_start_block(e, n) ==
  IF n > 0 /\ Runs(e, n) # {} THEN Least(Runs(e, n))
  ELSE IF LastRun(e) # {} THEN Least(LastRun(e))
  ELSE -NO_MEMORY_ERROR

\* Entries written past the table are memory the heap never reads again.
heap_mark_blocks_taken(e, s, n) ==
  [i \in DOMAIN e |->
     IF i \in s .. s + n - 1
     THEN {"TAKEN"} \cup (IF i = s THEN {"IS_FIRST"} ELSE {})
                    \cup (IF i # s + n - 1 THEN {"HAS_NEXT"} ELSE {})
     ELSE e[i]]

\* A block is freed when every block from the first one up to it had a next.
\* The int block number becomes a size_t, so that a negative one is huge.
heap_mark_blocks_free(e, starting_block) ==
  LET first == starting_block % WORD
  IN  [i \in DOMAIN e |->
         IF first <= i /\ \A j \in first .. i - 1 : "HAS_NEXT" \in e[j]
         THEN HEAP_BLOCK_TABLE_ENTRY_FREE
         ELSE e[i]]

------------------------------------------------------------------------------
(* Addresses and sizes. *)

heap_align_value_to_upper(val) ==
  IF val % HEAP_BLOCK_SIZE = 0 THEN val
  ELSE (val - (val % HEAP_BLOCK_SIZE) + HEAP_BLOCK_SIZE) % WORD

BlocksFor(size) == heap_align_value_to_upper(size) \div HEAP_BLOCK_SIZE

\* Callers ask for at least one byte, and for no size so close to 2^32 that
\* rounding it up wraps to 0 (ProcessMemory has the calls that may ask for 0).
ASSUME SizesAssumption ==
  \A size \in Sizes : size \in 0 .. WORD - 1 /\ BlocksFor(size) \in Nat \ {0}

heap_block_to_address(block) == HEAP_ADDRESS + block * HEAP_BLOCK_SIZE

\* C division: towards zero.
heap_address_to_block(address) ==
  LET offset == address - HEAP_ADDRESS
  IN  IF offset >= 0 THEN offset \div HEAP_BLOCK_SIZE
      ELSE -((-offset) \div HEAP_BLOCK_SIZE)

------------------------------------------------------------------------------
(* The operations. *)

NoBlock == -1

Quiet == [asked |-> 0, start |-> NoBlock]

Init ==
  /\ entries = [i \in 0 .. TABLE_TOTAL - 1 |-> HEAP_BLOCK_TABLE_ENTRY_FREE]
  /\ live = {}
  /\ reply = Quiet

kernel_malloc(size) ==
  LET n == BlocksFor(size)
      s == heap_get_start_block(entries, n)
  IN  \/ /\ s < 0
         /\ reply' = [asked |-> n, start |-> NoBlock]
         /\ UNCHANGED <<entries, live>>
      \/ /\ s >= 0
         /\ entries' = heap_mark_blocks_taken(entries, s, n)
         /\ live' = live \cup {[start |-> s, len |-> n]}
         /\ reply' = [asked |-> n, start |-> s]

heap_free(ptr) ==
  entries' = heap_mark_blocks_free(entries, heap_address_to_block(ptr))

\* A caller gives back an allocation it holds.
kernel_free(a) ==
  /\ heap_free(heap_block_to_address(a.start))
  /\ live' = live \ {a}
  /\ reply' = Quiet

\* process_free and fclose paths may pass a null pointer.
kernel_free_null ==
  /\ heap_free(NULL)
  /\ reply' = Quiet
  /\ UNCHANGED live

Next ==
  \/ \E size \in Sizes : kernel_malloc(size)
  \/ \E a \in live : kernel_free(a)
  \/ kernel_free_null

Spec == Init /\ [][Next]_vars

------------------------------------------------------------------------------
(* Properties. *)

Allocation == [start : 0 .. TABLE_TOTAL - 1, len : Nat]

\* Entries are bytes of the three flags, kernel_malloc answers with a block of
\* the table or with NULL.
TypeOK ==
  /\ entries \in [0 .. TABLE_TOTAL - 1 -> Entry]
  /\ live \subseteq Allocation
  /\ reply \in [asked : Nat, start : Nat \cup {NoBlock}]

Blocks(a) == a.start .. (a.start + a.len - 1)

\* No two allocations that callers hold at the same time share a block: what
\* heap_get_start_block finds is never memory somebody still uses.
NoOverlap ==
  \A a, b \in live : a # b => Blocks(a) \cap Blocks(b) = {}

\* The table says exactly what the callers hold: a block is taken iff it
\* belongs to a live allocation, the first one alone is marked IS_FIRST, and
\* HAS_NEXT links each block to the next up to the allocation's last block,
\* where heap_mark_blocks_free has to stop.
TableMatchesLive ==
  \A i \in 0 .. TABLE_TOTAL - 1 :
    IF \E a \in live : i \in Blocks(a)
    THEN \E a \in live :
           /\ i \in Blocks(a)
           /\ entries[i] = {"TAKEN"}
                \cup (IF i = a.start THEN {"IS_FIRST"} ELSE {})
                \cup (IF i # a.start + a.len - 1 THEN {"HAS_NEXT"} ELSE {})
    ELSE entries[i] = HEAP_BLOCK_TABLE_ENTRY_FREE

\* Every allocation lies inside the heap ("100MB heap size", config.h:9).
InsideHeap == \A a \in live : a.start + a.len <= TABLE_TOTAL

\* The callers see the Allocator: grants never overlap, a refusal means that
\* no run was long enough, a free gives back one grant and NULL none.
Abstract == INSTANCE Allocator WITH Requests <- {BlocksFor(s) : s \in Sizes}

ImplementsAllocator == Abstract!Spec
==============================================================================
