---------------------------- MODULE ProcessMemory ----------------------------
(***************************************************************************)
(* Who owns which heap memory: process_load_for_slot, process_malloc,      *)
(* process_free, process_inject_arguments and process_terminate of         *)
(* src/task/process.c and the user pages they map (src/memory/paging),     *)
(* called by commands 0, 4, 5, 6 and 7 and by exceptions.                  *)
(*                                                                         *)
(* The heap is the table of module Heap with blocks of one byte, the first *)
(* at address 1: a size is a number of blocks, a page is a block.  An ELF  *)
(* image (struct elf_file and its memory), and a task with its page        *)
(* tables, count as one allocation of one block each; which pages of an    *)
(* image its segments make writable is in AddressSpace, what opening the   *)
(* file takes and loses in FileTable.                                      *)
(***************************************************************************)
EXTENDS Integers, Sequences, FiniteSets

CONSTANTS
  TABLE_TOTAL,                 \* blocks of the heap
  WORD,
  OS_MAX_PROGRAM_ALLOCATIONS,
  Process,                     \* slots of the process table
  Sizes                        \* what programs pass to malloc

ASSUME TotalAssumption == TABLE_TOTAL \in Nat \ {0}

\* The block number of NULL, wrapped, is outside the table.
ASSUME WordAssumption == WORD \in Nat /\ TABLE_TOTAL < WORD

ASSUME AllocationsAssumption == OS_MAX_PROGRAM_ALLOCATIONS \in Nat

ASSUME SizesAssumption == Sizes \subseteq Nat \ {0}

VARIABLES
  entries,  \* the heap's block table
  process,  \* the struct process in each slot, or NoProcess
  leaked    \* history: addresses of allocations that nobody will free

vars == <<entries, process, leaked>>

Heap == INSTANCE Heap WITH
          HEAP_BLOCK_SIZE <- 1, HEAP_ADDRESS <- 1, live <- {}, reply <- {}

NULL == 0

AllocationSlot == 0 .. OS_MAX_PROGRAM_ALLOCATIONS - 1

NoAllocation == [ptr |-> NULL, size |-> 0]

NoProcess == [self |-> NULL, program |-> NULL, stack |-> NULL, task |-> NULL,
              allocations |-> [i \in AllocationSlot |-> NoAllocation],
              writable |-> {}]  \* pages the page directory lets it write

Live == {p \in Process : process[p].self # NULL}

Range(ptr, size) == ptr .. ptr + size - 1

------------------------------------------------------------------------------
(* The heap calls: what they leave of a table. *)

\* Mutant: heap_malloc_blocks does not check the start block.
kernel_zalloc_unchecked(e, n) ==
  LET s == Heap!heap_get_start_block(e, n)
  IN  [entries |-> Heap!heap_mark_blocks_taken(e, s, n),
       ptr |-> Heap!heap_block_to_address(s)]

kernel_zalloc(e, n) ==
  LET s == Heap!heap_get_start_block(e, n)
  IN  IF s < 0 THEN [entries |-> e, ptr |-> NULL]
      ELSE [entries |-> Heap!heap_mark_blocks_taken(e, s, n),
            ptr |-> Heap!heap_block_to_address(s)]

kernel_free(e, ptr) ==
  Heap!heap_mark_blocks_free(e, Heap!heap_address_to_block(ptr))

------------------------------------------------------------------------------
(* Allocations of a program: m is a table and a struct process. *)

Slots(proc, ptr) == {i \in AllocationSlot : proc.allocations[i].ptr = ptr}

First(S) == CHOOSE i \in S : \A j \in S : i <= j

process_find_free_allocation_index(proc) == First(Slots(proc, NULL))

\* Mutant: without a free slot the new memory is kept.
process_malloc_leaky(m, size) ==
  LET z == kernel_zalloc(m.entries, size)
  IN  IF z.ptr = NULL THEN m
      ELSE IF Slots(m.proc, NULL) = {} THEN [m EXCEPT !.entries = z.entries]
      ELSE [entries |-> z.entries,
            proc |-> [m.proc EXCEPT
              !.writable = @ \cup Range(z.ptr, size),
              !.allocations[process_find_free_allocation_index(m.proc)] =
                [ptr |-> z.ptr, size |-> size]]]

\* Without a free slot the new memory goes back.
process_malloc(m, size) ==
  LET z == kernel_zalloc(m.entries, size)
  IN  IF z.ptr = NULL THEN m
      ELSE IF Slots(m.proc, NULL) = {}
      THEN [m EXCEPT !.entries = kernel_free(z.entries, z.ptr)]
      ELSE [entries |-> z.entries,
            proc |-> [m.proc EXCEPT
              !.writable = @ \cup Range(z.ptr, size),
              !.allocations[process_find_free_allocation_index(m.proc)] =
                [ptr |-> z.ptr, size |-> size]]]

\* Mutant: any pointer is given to kernel_free.
process_free_unchecked(m, ptr) ==
  [entries |-> kernel_free(m.entries, ptr),
   proc |-> [m.proc EXCEPT
     !.writable = @ \ {ptr},
     !.allocations = [i \in AllocationSlot |->
        IF i \in Slots(m.proc, ptr) THEN NoAllocation ELSE @[i]]]]

\* NULL names an empty slot, of size 0, whose "memory" is outside the table.
process_free(m, ptr) ==
  IF Slots(m.proc, ptr) = {} THEN m
  ELSE LET size == m.proc.allocations[First(Slots(m.proc, ptr))].size
       IN  [entries |-> kernel_free(m.entries, ptr),
            proc |-> [m.proc EXCEPT
              !.writable = @ \ Range(ptr, size),
              !.allocations = [i \in AllocationSlot |->
                 IF i \in Slots(m.proc, ptr) THEN NoAllocation ELSE @[i]]]]

Memory(p) == [entries |-> entries, proc |-> process[p]]

Becomes(p, m) ==
  /\ entries' = m.entries
  /\ process' = [process EXCEPT ![p] = m.proc]

------------------------------------------------------------------------------
(* Loading. *)

\* The table and the addresses after k allocations of one block.
Grab(k) ==
  LET grab[i \in 0 .. k] ==
        IF i = 0 THEN [entries |-> entries, ptrs |-> << >>]
        ELSE LET z == kernel_zalloc(grab[i - 1].entries, 1)
             IN  [entries |-> z.entries, ptrs |-> Append(grab[i - 1].ptrs, z.ptr)]
  IN  grab[k]

Granted(g) == \A i \in DOMAIN g.ptrs : g.ptrs[i] # NULL

Elements(s) == {s[i] : i \in DOMAIN s}

\* process_load_for_slot gives up, for want of memory or because of the file,
\* after its struct process, also after the ELF image, after a binary image,
\* or, when process_map_memory fails, after the stack.  Only the task goes
\* back to the heap.
LoadFails(p) ==
  /\ p \notin Live
  /\ \E k \in 0 .. 4 :
       /\ Granted(Grab(k))
       /\ entries' = Grab(k).entries
       /\ leaked' = leaked \cup Elements(Grab(k).ptrs)
  /\ UNCHANGED process

\* What process_load_for_slot leaves when it succeeds: g are its allocations.
Loaded(g) ==
  LET n == Len(g.ptrs)
  IN  [entries |-> g.entries,
       proc |-> [NoProcess EXCEPT
         !.self = g.ptrs[1], !.program = g.ptrs[n - 2],
         !.stack = g.ptrs[n - 1], !.task = g.ptrs[n],
         !.writable = {g.ptrs[n - 2], g.ptrs[n - 1]}]]

\* argv and one argument of the new program; the second is not tried when the
\* first fails.
process_inject_arguments(m) ==
  LET argv == process_malloc(m, 1)
  IN  IF argv.proc = m.proc THEN argv ELSE process_malloc(argv, 1)

------------------------------------------------------------------------------
(* The commands. *)

Init ==
  /\ entries = [i \in 0 .. TABLE_TOTAL - 1 |-> Heap!HEAP_BLOCK_TABLE_ENTRY_FREE]
  /\ process = [p \in Process |-> NoProcess]
  /\ leaked = {}

\* A file that is not ELF is read again as a binary; what elf_load had
\* allocated for it stays behind.  There is memory left for the task.
process_load(p, arguments) ==
  /\ p \notin Live
  /\ \E k \in {4, 5} :  \* ELF, binary
       LET g == Grab(k)
       IN  /\ Granted(g)
           /\ Becomes(p, IF arguments THEN process_inject_arguments(Loaded(g))
                                      ELSE Loaded(g))
           /\ leaked' = leaked \cup (IF k = 4 THEN {} ELSE {g.ptrs[2]})

isr80h_command6_process_load_start(p) == process_load(p, FALSE)

\* kernel_main loads its programs the same way.
isr80h_command7_invoke_system_command(p) == process_load(p, TRUE)

isr80h_command4_malloc(p) ==
  /\ p \in Live
  /\ \E size \in Sizes : Becomes(p, process_malloc(Memory(p), size))
  /\ UNCHANGED leaked

\* A program may pass any pointer, its own or not.
isr80h_command5_free(p) ==
  /\ p \in Live
  /\ \E ptr \in 0 .. TABLE_TOTAL : Becomes(p, process_free(Memory(p), ptr))
  /\ UNCHANGED leaked

\* Each slot's pointer in turn, NULL ones included.
process_terminate_allocations(m) ==
  LET free[i \in 0 .. OS_MAX_PROGRAM_ALLOCATIONS] ==
        IF i = 0 THEN m
        ELSE process_free(free[i - 1], free[i - 1].proc.allocations[i - 1].ptr)
  IN  free[OS_MAX_PROGRAM_ALLOCATIONS]

\* Command 0 and exceptions.  The struct process itself is never freed.
process_terminate(p) ==
  LET m == process_terminate_allocations(Memory(p))
      e1 == kernel_free(m.entries, m.proc.program)
      e2 == kernel_free(e1, m.proc.stack)
  IN  /\ p \in Live
      /\ entries' = kernel_free(e2, m.proc.task)
      /\ process' = [process EXCEPT ![p] = NoProcess]
      /\ leaked' = leaked \cup {process[p].self}

Next ==
  \E p \in Process :
    \/ LoadFails(p)  \* in command 6 or 7
    \/ isr80h_command6_process_load_start(p)
    \/ isr80h_command7_invoke_system_command(p)
    \/ isr80h_command4_malloc(p) \/ isr80h_command5_free(p)
    \/ process_terminate(p)

Spec == Init /\ [][Next]_vars

------------------------------------------------------------------------------
(* Properties. *)

Address == 0 .. TABLE_TOTAL

\* Every pointer a struct process keeps is NULL or an address in the heap.
TypeOK ==
  /\ entries \in [0 .. TABLE_TOTAL - 1 -> Heap!Entry]
  /\ leaked \subseteq Address
  /\ \A p \in Process :
       /\ {process[p].self, process[p].program, process[p].stack,
           process[p].task} \subseteq Address
       /\ process[p].allocations \in
            [AllocationSlot -> [ptr : Address, size : Sizes \cup {0, 1}]]

\* What a program may use: its image, its stack and what malloc gave it.
UserMemory(p) ==
  {process[p].program, process[p].stack} \cup
  UNION {Range(process[p].allocations[i].ptr, process[p].allocations[i].size) :
           i \in AllocationSlot}

Memories(p) ==
  IF p \in Live THEN UserMemory(p) \cup {process[p].self, process[p].task} ELSE {}

TakenAddresses == {i + 1 : i \in {j \in DOMAIN entries : entries[j] # {}}}

\* Every block that a live process uses is taken in the heap's table and no
\* other process has it, whatever pointers programs pass to free and however
\* loads fail: nothing a program does gives another's memory away.  The page
\* directory of a process lets it write its own memory and nothing else:
\* process_free takes the page back before the block is reused.
MemoryIsOwned ==
  /\ \A p \in Live : process[p].writable = UserMemory(p)
  /\ \A p \in Live : Memories(p) \cap Address \subseteq TakenAddresses
  /\ \A p, q \in Live : p # q => Memories(p) \cap Memories(q) = {}

\* No block is lost but the struct process of a program that has ended, what
\* failed loads had allocated, and the ELF image of a file that was none: a
\* full allocation table, any free and process_terminate return the rest.
Accounted ==
  TakenAddresses = (leaked \cup UNION {Memories(p) : p \in Process}) \cap Address
==============================================================================
