------------------------------- MODULE HeapScan -------------------------------
(***************************************************************************)
(* The kernel heap with the loops of src/memory/heap/heap.c spelled out,   *)
(* one step per iteration:                                                 *)
(*   kernel_malloc: heap_get_start_block, then heap_mark_blocks_taken      *)
(*   kernel_free:   heap_mark_blocks_free                                  *)
(* Module Heap has each call as one step and each loop as one expression;  *)
(* here the loops are shown to compute those.                              *)
(***************************************************************************)
EXTENDS Heap

VARIABLES
  pc,             \* idle, or which loop is running
  before,         \* the table when the call was made
  total_blocks,
  i,              \* the loop variable
  block_start,
  block_current,
  entry,          \* the entry heap_mark_blocks_taken writes next
  freeing         \* the allocations, at most one, that kernel_free gives back

loopVars == <<before, total_blocks, i, block_start, block_current, entry,
              freeing>>

scanVars == <<vars, pc, loopVars>>

ScanInit ==
  /\ Init
  /\ pc = "idle"
  /\ before = entries
  /\ total_blocks = 0 /\ i = 0 /\ block_start = -1 /\ block_current = 0
  /\ entry = {} /\ freeing = {}

------------------------------------------------------------------------------
(* kernel_malloc *)

CallMalloc(size) ==
  /\ pc = "idle" /\ pc' = "scan"
  /\ total_blocks' = BlocksFor(size)
  /\ UNCHANGED <<vars, before, i, block_start, block_current, entry, freeing>>

\* Mutant: break instead of continue at a taken entry.
ScanStep_break ==
  /\ pc = "scan" /\ i < TABLE_TOTAL
  /\ i' = i + 1
  /\ \/ /\ ~IsFree(entries, i)
        /\ block_current' = 0 /\ block_start' = -1
        /\ pc' = "found"
     \/ /\ IsFree(entries, i)
        /\ block_start' = IF block_start = -1 THEN i ELSE block_start
        /\ block_current' = block_current + 1
        /\ pc' = IF block_current' = total_blocks THEN "found" ELSE "scan"
  /\ UNCHANGED <<vars, before, total_blocks, entry, freeing>>

\* One iteration of the for loop of heap_get_start_block.
ScanStep ==
  /\ pc = "scan" /\ i < TABLE_TOTAL
  /\ i' = i + 1
  /\ \/ /\ ~IsFree(entries, i)
        /\ block_current' = 0 /\ block_start' = -1
        /\ UNCHANGED pc
     \/ /\ IsFree(entries, i)
        /\ block_start' = IF block_start = -1 THEN i ELSE block_start
        /\ block_current' = block_current + 1
        /\ pc' = IF block_current' = total_blocks THEN "found" ELSE "scan"
  /\ UNCHANGED <<vars, before, total_blocks, entry, freeing>>

\* The call is over.
Returns ==
  /\ pc' = "idle"
  /\ before' = entries'
  /\ total_blocks' = 0 /\ i' = 0 /\ block_start' = -1 /\ block_current' = 0
  /\ entry' = {} /\ freeing' = {}

\* Mutant: the error of heap_get_start_block is not checked.
ScanEnd_unchecked ==
  /\ pc = "found" \/ (pc = "scan" /\ i = TABLE_TOTAL)
  /\ pc' = "take"
  /\ i' = block_start
  /\ entry' = {"TAKEN", "IS_FIRST"}
                \cup (IF total_blocks > 1 THEN {"HAS_NEXT"} ELSE {})
  /\ UNCHANGED <<vars, before, total_blocks, block_start, block_current,
                 freeing>>

\* The end of heap_get_start_block and the test in heap_malloc_blocks, then
\* the first lines of heap_mark_blocks_taken.
ScanEnd ==
  /\ pc = "found" \/ (pc = "scan" /\ i = TABLE_TOTAL)
  /\ \/ /\ block_start = -1
        /\ reply' = [asked |-> total_blocks, start |-> NoBlock]
        /\ UNCHANGED <<entries, live>>
        /\ Returns
     \/ /\ block_start # -1
        /\ pc' = "take"
        /\ i' = block_start
        /\ entry' = {"TAKEN", "IS_FIRST"}
                      \cup (IF total_blocks > 1 THEN {"HAS_NEXT"} ELSE {})
        /\ UNCHANGED <<vars, before, total_blocks, block_start, block_current,
                       freeing>>

end_block == (block_start + total_blocks) - 1

\* Mutant: the flag of the last block is decided one iteration late.
TakeStep_late ==
  /\ pc = "take" /\ i <= end_block
  /\ entries' = IF i < TABLE_TOTAL THEN [entries EXCEPT ![i] = entry]
                                   ELSE entries
  /\ entry' = {"TAKEN"} \cup (IF i # end_block THEN {"HAS_NEXT"} ELSE {})
  /\ i' = i + 1
  /\ UNCHANGED <<live, reply, pc, before, total_blocks, block_start,
                 block_current, freeing>>

\* Mutant: the loop variable is not advanced.
TakeStep_stuck ==
  /\ pc = "take" /\ i <= end_block
  /\ entries' = IF i < TABLE_TOTAL THEN [entries EXCEPT ![i] = entry]
                                   ELSE entries
  /\ UNCHANGED <<live, reply, pc, loopVars>>

\* One iteration of the for loop of heap_mark_blocks_taken.  What it writes
\* past the table is memory the heap never reads again.
TakeStep ==
  /\ pc = "take" /\ i <= end_block
  /\ entries' = IF i < TABLE_TOTAL THEN [entries EXCEPT ![i] = entry]
                                   ELSE entries
  /\ entry' = {"TAKEN"} \cup (IF i # end_block - 1 THEN {"HAS_NEXT"} ELSE {})
  /\ i' = i + 1
  /\ UNCHANGED <<live, reply, pc, before, total_blocks, block_start,
                 block_current, freeing>>

TakeEnd ==
  /\ pc = "take" /\ i > end_block
  /\ live' = live \cup {[start |-> block_start, len |-> total_blocks]}
  /\ reply' = [asked |-> total_blocks, start |-> block_start]
  /\ UNCHANGED entries
  /\ Returns

------------------------------------------------------------------------------
(* kernel_free *)

CallFree(ptr, S) ==
  /\ pc = "idle" /\ pc' = "free"
  /\ i' = heap_address_to_block(ptr) % WORD
  /\ freeing' = S
  /\ UNCHANGED <<vars, before, total_blocks, block_start, block_current, entry>>

\* Mutant: HAS_NEXT is read after the entry was cleared.
FreeStep_cleared ==
  /\ pc = "free" /\ i < TABLE_TOTAL
  /\ entries' = [entries EXCEPT ![i] = HEAP_BLOCK_TABLE_ENTRY_FREE]
  /\ i' = IF "HAS_NEXT" \in entries'[i] THEN i + 1 ELSE TABLE_TOTAL
  /\ UNCHANGED <<live, reply, pc, before, total_blocks, block_start,
                 block_current, entry, freeing>>

\* One iteration of the for loop of heap_mark_blocks_free; the break at the
\* last block of an allocation ends the loop like the bound does.
FreeStep ==
  /\ pc = "free" /\ i < TABLE_TOTAL
  /\ entries' = [entries EXCEPT ![i] = HEAP_BLOCK_TABLE_ENTRY_FREE]
  /\ i' = IF "HAS_NEXT" \in entries[i] THEN i + 1 ELSE TABLE_TOTAL
  /\ UNCHANGED <<live, reply, pc, before, total_blocks, block_start,
                 block_current, entry, freeing>>

FreeEnd ==
  /\ pc = "free" /\ i >= TABLE_TOTAL
  /\ live' = live \ freeing
  /\ reply' = Quiet
  /\ UNCHANGED entries
  /\ Returns

------------------------------------------------------------------------------

LoopStep == ScanStep \/ ScanEnd \/ TakeStep \/ TakeEnd \/ FreeStep \/ FreeEnd

ScanNext ==
  \/ \E size \in Sizes : CallMalloc(size)
  \/ \E a \in live : CallFree(heap_block_to_address(a.start), {a})
  \/ CallFree(NULL, {})
  \/ LoopStep

ScanSpec == ScanInit /\ [][ScanNext]_scanVars /\ WF_scanVars(LoopStep)

------------------------------------------------------------------------------
(* Properties. *)

\* Between two calls the table says exactly what the callers hold, although
\* each loop rewrites it entry by entry and decides HAS_NEXT one entry ahead.
TableMatchesLiveBetweenCalls == pc = "idle" => TableMatchesLive

\* The loops compute what Heap says in one step: the scan finds the first run
\* that is long enough, else the free run at the end of the table, else it
\* fails; the marking loops leave the table Heap says, NULL included.
Calls == INSTANCE Heap WITH entries <- before

ImplementsHeap == Calls!Spec

\* Each call returns: the loops end for every table, also when block_current
\* can never equal total_blocks.
CallsReturn == []<>(pc = "idle")
==============================================================================
