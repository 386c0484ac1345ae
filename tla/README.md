# A TLA+ model of own-kernel

own-kernel is a small 32-bit x86 kernel in C and assembly: a boot loader, a
block heap, paging, a FAT16 reader, an ELF loader, processes with one task
each, round-robin preemption, keyboard input, and system commands on
`int 0x80`; user programs are a shell and a library. This directory holds TLA+
modules of its core, TLC configurations that check them on small instances, and
TLAPS proofs about the heap, the memory of processes, the scheduler, the context
switch, the keyboard, open files with the loads of programs, and the address
spaces on their page tables. File names below are relative to `src/src/`, those
of user programs to `src/`.

## 1. Inventory

| Component | State | Operations | Module |
|---|---|---|---|
| Kernel heap (`memory/heap`) | one entry byte per block: TAKEN, IS_FIRST, HAS_NEXT | `kernel_malloc`, `kernel_zalloc`, `kernel_free` | `Allocator`, `Heap`, `HeapScan`, `HeapProofs` |
| Tasks (`task/task.c`) | doubly linked list, `task_head`, `task_tail`, `current_task` | `task_new`, `task_list_remove`, `task_free`, `task_next`, `task_switch` | `Scheduler`, `SchedulerProofs` |
| Processes (`task/process.c`) | `processes[]`, `current_process` (foreground), struct process | load, switch, unlink, terminate | `Scheduler`, `SchedulerProofs` |
| Memory of processes (`task/process.c`, `isr80h/heap.c`) | allocation table, program, stack, page permissions | load, `process_malloc`, `process_free`, arguments, terminate | `ProcessMemory`, `ProcessMemoryProofs` |
| Context switch (`task/task.asm`, `idt/idt.asm`, `kernel.asm`) | processor registers, segments, cr3, interrupt frame, `task->registers` | entry stubs, save, restore, `task_return`, page directory switches | `Context`, `ContextProofs` |
| Interrupts and commands (`idt/idt.c`, `isr80h`) | callback and command tables | clock, exception, keyboard, commands 0 to 7 | `Scheduler`, `Context`, `Keyboard`, `ProcessMemory`, `AddressSpace`, `Shell` |
| Keyboard (`keyboard`) | ring buffer per process, caps lock | push from the interrupt, pop by `getkey` | `KeyQueue`, `Keyboard`, `KeyboardProofs` |
| Open files (`fileSystem/file.c`, `pathParser.c`, `fat/fat16.c`, `disk/disk.c`) | the file system found, descriptor table, private data, position | mount, `fopen`, `fread`, `fseek`, `fstat`, `fclose` | `FileTable`, `FileTableProofs` |
| Reading programs (`task/process.c`, `loader/formats/elfloader.c`) | descriptor and result of the load | `process_load_data`, `elf_load`, `process_load_binary` | `Loader`, `FileTableProofs` |
| FAT16 read (`fat/fat16.c`, `disk/streamer.c`) | file allocation table, stream position | `fat16_read`, `disk_stream_read` | `FatRead`, `FatReadProofs` |
| Paging (`memory/paging`) | page directories and tables in heap blocks | new, map, set, get, free, switch | `PageMap`, `Paging`, `AddressSpaceProofs` |
| Address spaces (`task/process.c`, `task/task.c`, `loader/formats`) | a directory per process, ELF image, cr3, cached translations | load and map, malloc, free, copy a string, terminate | `AddressSpace`, `AddressSpaceProofs` |
| Terminal (`kernel.c`) | cursor, video memory | `terminal_writechar`, `print` | `Terminal` |
| Shell and library (`programs/shell`, `programs/stdlib`) | line buffer, words, the shell's allocations | `os_terminal_readline`, `strtok`, `os_parse_command`, `os_system_run` | `Shell` |
| `kernel_main` (`kernel.c`) | | boot sequence, panic | `Scheduler`, `AddressSpace` |
| String and memory helpers of the kernel; GDT and TSS; port I/O; boot sector | | | not modelled |

How they interact. There is one processor and no locking: all kernel code runs
from an interrupt, a command or `kernel_main`. Interrupts are shared by all: the
timer calls `task_next`, the keyboard interrupt pushes to the *foreground*
process (`process_current`), while commands serve the process that *runs*
(`task_current()->process`); these are often not the same. Loads take memory
from the heap, open files, link a task and register a process; exits and
exceptions undo that. `task_return` leaves the kernel for good, without
returning to the handler that was interrupted.

What is hard here:

* order: tasks are removed in any order; processes end while in the foreground
  or in the background; keys arrive between any two of these;
* partial failure: a load may fail after each of its allocations, after the
  task was linked, or after the process was registered;
* state that crosses a switch: registers in `task->registers`, segment
  selectors, the page directory, `current_task` while its struct is freed;
* edges: the end of the block table, block numbers that wrap, `malloc(0)`,
  ring buffer indices that wrap as ints, the last descriptor, cluster and
  sector limits;
* what the processor remembers: translations stay in use until cr3 is loaded,
  tables are found through words in memory, tables and data share the heap;
* progress: every task has to run, keys have to arrive and to be read, loops have
  to end.

What makes each component correct is stated as the properties of section 4.

## 2. Plan

Modelled and checked: the heap (three levels, proofs), scheduler and process
table, context switch with the interrupt and command tables, keyboard, process
memory, page tables and address spaces, reads of FAT16 files, open files, the
loaders, screen and shell.

Proved (section 6): the heap on all three levels, process memory, the scheduler's
list and table, the context switch, the keyboard's buffers, open files and loads,
reads of files, and every property of the address spaces, with `Paging` implementing
`PageMap` for every table size. That is each safety property of the passing runs but
the two of `Shell`.

Modules are written to be proved about: no `RECURSIVE` operator, assumptions on constants
are named and are where the constants are declared.

## 3. Modules

Names of actions and operators are those of the C functions where they model
one. Operators whose comment says *Mutant* are wrong versions of the definition
that follows them; no specification uses them, they serve to show that the
properties notice such an error.

**Allocator** says what callers of the heap rely on: grants do not overlap, a
request is refused only if no run of free blocks is long enough, a release gives
back one grant. It does not promise that a grant ends inside the heap (see
`heap_end`).

**Heap** has `kernel_malloc` and `kernel_free` as one step each. An entry is the
set of its flags. `heap_get_start_block` is written by what it computes: the
first run that is long enough, else the free run at the end of the table, else an
error. Block numbers wrap when they become `size_t`, which is what makes
`kernel_free(NULL)` harmless. `live` and `reply` record what callers hold and
were told.

**HeapScan** has the loops of `heap.c` iteration by iteration. With `before`, the
table at the call, in place of `entries`, it implements `Heap`.

**Scheduler** has `process.c` and `task.c` together: the table, the foreground,
the list. Each interrupt or command is one action, because the gates are
interrupt gates (flags 0xEE) and the kernel never enables interrupts before
`task_return`. Memory of a struct task is used again after `task_free`. When
`task_list_remove` goes through a `prev` that no longer names the predecessor it
writes to memory that is not its own; the behaviour is undefined from there on
and the model stops in mode `wild`. The last process to end makes
`process_switch_to_any` panic (mode `panic`).

**Context** has the way out of a program and back: stack frame, save, the
callbacks, reads of user memory in the caller's address space, a fault in such a
read, and the two ways back (`iret` with the frame, `task_return`). Which callback
an interrupt has and whether a command number has a function is looked up in the
tables that boot fills; an exception with an error code leaves a frame that is one
word off. A value of a register is told apart by its owner, its register and a bit
the program may turn. Which task runs next is free here.

**KeyQueue** is what programs expect of `getkey`: a queue per process.
**Keyboard** has the ring buffers with wrapping int indices, caps lock, the
scancode classes, and all that changes who runs and who is in the foreground.

**ProcessMemory** runs loads, `malloc`, `free`, arguments and termination on
the block table of `Heap` (blocks of one byte, so that a page is a block).

**FatRead** is one call of `fat16_read`, by member, cluster and sector. A byte is
its position on the disk, so that the result can be compared with the file. The
disk is external: its table (`Followers`, `NextCluster`) is what FAT16 prescribes for
`Files`, and a word read from anywhere else is `stray`.

**FileTable** has the mounting of the disk and the descriptors with `fopen` (path
parser, directory search and `fat16_open` included), `fread` (by its result),
`fseek`, `fstat`, `fclose`. Allocations are counted in units listed in its header.
**Loader** puts its actions together to the two loads of a program's file, step
by step with every way out; loads begin after any sequence of other calls.

**PageMap** is what paging promises: a map from pages to words for each owner,
made and dropped as a whole, in which a call changes a range of pages of one
owner. **Paging** has the functions of `paging.c` on directories and tables that
are blocks of memory: words are addresses plus flags, and a table is found
through the word in its directory.

**AddressSpace** builds on it what a process sees: the checks and bounds of the
ELF loader, `process_map_memory` segment by segment, `malloc` and `free`, the
temporary mapping of `copy_string_from_task`, termination. Page tables, images,
stacks and allocations come from one heap, kept as `Allocator` describes it with
the first fit of `Heap`. The processor is modelled as remembering, from each load
of cr3, the translation of the directory at that time (`tlb`): every change that
it may not notice shows. Page faults of the copy are taken in the kernel. What it
assumes of the files (`ImageAssumption`) is what `programs/*/linker.ld` makes: a
segment begins as far into a page of memory as of the file, and loaded segments have
memory. A segment may have no bytes in the file: the programs of this repository
have a `.bss` and no `.data`. Nothing bounds blank data but that its end does not
wrap: neither the linker script nor `process_map_elf` makes it end in the blocks the
file was read into, and where it does not, the program gets what lies behind the file
in the heap (`BehindFile`). `LayoutAssumption` says that segments, stack, heap and
the kernel's pages do not share a page of a directory.

**Terminal** has the screen with the cursor as two 16-bit numbers; it does not
scroll, and stores outside the screen are recorded. **Shell** has the shell's main
loop key by key, `strtok` and the parsing of lines into words that `strncpy` cuts to the size of an
argument, `print` and `putchar` on the
screen, `getkey` on a queue (`KeyQueue`), and the start of a program with its
arguments, beside which the shell goes on.

## 4. Runs

| Run | Result | Shows | Bounds |
|---|---|---|---|
| `heap` | pass | `NoOverlap`, `TableMatchesLiveBetweenCalls`, every call returns, HeapScan implements Heap and Allocator | 6 blocks of 4 bytes; requests of 1 to 4 blocks, exact and one byte over |
| `heap_end` | violation | `InsideHeap` fails | same |
| `scheduler` | pass | list in one piece, table and list agree, the running and the foreground process are registered, only the running process ends, every task runs | 4 slots, 4 task structs, 5 process structs |
| `sched_current` | violation | `CurrentTaskLive` fails | same |
| `context` | pass | registers but ebp and flags come back; a program runs in its own address space with the user's es, fs and gs and a ds that is not the kernel's, and is the user's until its first interrupt; handlers run in the kernel's address space; saved registers stay | 3 tasks, symmetric; 5 interrupts, 5 command numbers |
| `keyboard` | pass | ring buffers are queues until they overflow, no key forged or given twice even then, keys arrive once loads and exits have stopped | 2 processes, buffers of 2, indices wrap at 4, 5 keys |
| `process_memory` | pass | memory of processes is disjoint and taken, pages match it, nothing lost but what is listed | 2 processes, 2 slots each, 10 blocks |
| `fat_read` | pass | the buffer is filled and not overrun, the first cluster is read right, the call returns | sectors of 4, clusters of 8 bytes, files of 1 to 3 clusters |
| `fat_read_chain` | violation | `FileIsRead` fails behind the first cluster | same |
| `file_table` | pass | descriptors have their own memory and stand for the named file, memory is accounted for, loads close their files and succeed only with a file (`LoadsEndClean`) | 3 descriptors, 6 directory entries, 11 addresses, 2-bit positions, 4 volumes, 4 programs |
| `address_space` | pass | directories in heap blocks implement `PageMap`, no stale translation is used, programs see their own image and write their own memory and only what `BehindFile` says beside it, the kernel's pages stay reachable | pages of 8 bytes, 7 entries per table, 33 blocks, 2 processes, 3 loads, an ELF and a flat file |
| `shell` | pass | the screen shows the line, lines become the programs and arguments that were typed, each cut to what an argument holds, keys are read | 7 by 4 screen, lines of 4 and arguments of 3 characters, 6 keys, 2 allocations, 16-bit numbers cut to 5 bits |

Why the bounds are enough. 6 blocks hold three allocations with gaps of every
kind around them, among them a short run at the end. Four tasks are the least
with which a middle, a head and a tail removal differ and one more can be loaded
into freed memory. Two processes are enough where a property speaks of two (a
third adds only symmetric cases); three tasks in `Context` let one be loaded while
two wait. Buffers of two wrap after two keys, and five keys take the indices
around the int as well. The heap of `ProcessMemory` is full with both processes
loaded and two blocks to spare, so that every allocation in a load can be the one
that fails. Clusters of two sectors, sizes and positions up to nine make every
alignment of members, clusters and sectors. Memory for a full table and one more
open makes `fopen` fail at each place where it checks, and a load find the table
with no descriptor but the last one, and with none. Seven entries of eight bytes
put program, stack and heap into different tables and let a segment start in the
middle of a page, end behind its file or have no part in it. The ELF file's blank
data reaches over its last block, to the stack of the process and to its page
directory when the heap is new, to whatever else is there later; three loads on two slots reuse the
tables and images of a process that has ended. A screen of seven columns makes a
line of four characters wrap, a word of four is one too long for an argument, six keys make two lines with corrections, and two
allocations are used up by two words.

Fairness. `HeapScan` and `FatRead` are straight-line loops: weak fairness of
their steps says that the processor goes on. In `Scheduler` the boot goes on and
the timer always ticks again (`WF(idt_clock)`): `task_return` sets the interrupt
flag for every program, and a handler always ends. In `Keyboard` a process
that waits for keys calls `getkey` whenever it runs, as `os_getkey_block` of the
programs' library does (strong fairness of `keyboard_pop` while it runs); and if
loads and exits stop (`Settles`), each process gets the processor again and again,
which is `EveryTaskRuns`. Nothing is assumed of the clock's choice before that, for
one task may be passed over as often as others start programs that exit; `KeysArrive`
has the same condition. With three processes it fails without the condition, which
TLC shows with one key. In `Shell` its own steps go on (`WF(Step)`), again by
`EveryTaskRuns`: there is one other program, and keys, and so loads, are finitely
many. Nothing is assumed of the program it starts or of the user.
Deadlock is checked in every run; `Stopped` and `Returned` are the loops of
`panic` and the finished call.

`EveryTaskRuns` is stated for the time after loads and exits have stopped, since
`task_list_remove` and `task_next` both move on after an exit and so pass over
one task each time.

## 5. Where the code and its comments disagree

* `heap_end`: a request longer than every free run is granted at the end of the
  table if the last block is free, and reaches past the heap (`heap.c:101`).
* `sched_current`: `task_list_remove` does not set `next->prev`. With tasks
  A, B, C, when B exits and then C, `A->next` still names the freed C and
  `task_next` makes it `current_task` (`task.c:72`).
* `fat_read_chain`: `fat16_get_fat_entry` multiplies where it has to add
  (`fat16.c:371`).

Seen while reading, and part of the models: `restore_general_purpose_registers`
overwrites the `ebp` it has restored and `task_return` pushes the kernel's flags,
so that these two do not come back (`ResumesWhereItLeft` leaves them out);
`user_registers` writes dx for ds, which is null in a program that `iret` has gone
back to;
the caller of a load comes back with the command number in eax; a failed load
leaks its struct process, ELF image and stack; a struct process is never freed;
after a ring buffer overflows, tail stays ahead of head for ever; a scancode equal
to the table's size reads one byte past it; a failed argument injection leaves the
new process in the foreground; the last descriptor of the table is refused by all
calls but `fopen`; `a/b/c` is parsed to `a`, `c`; subdirectories are loaded, lost
and then treated as files; every `fopen` leaks the parsed path; a load that fails
for its format leaks what `elf_load` allocated; `print` also writes the terminating
NUL, since `strlen` counts it; a backspace at the left margin takes the column to
65535, one on an empty line becomes a character of it; the shell never frees the
words of a line, and a word of 512 characters or more, of a line that may have 1023,
is cut to 511; a fault while a string is copied loses the temporary block; blank
data is not cleared, and where the linker gives `.bss` no place in the file it is
what is at offset 0, the ELF header; nothing is allocated for blank data, and if it is
longer than the file's last block the program can write the heap behind its file, page
tables included; a file behind deleted entries of the root directory may not be
found. Not
part of them: `malloc(0)` registers an address whose block stays free, so that
another process may get it too.

## 6. Proofs

`HeapProofs` proves, for every block size, table size, address, word size and set
of request sizes that satisfy the assumptions of `Heap`:

* `HeapTypeOK`: `Spec => []TypeOK`
* `HeapSafety`: `Spec => [](NoOverlap /\ TableMatchesLive)`
* `HeapImplementsAllocator`: `Spec => ImplementsAllocator`

Assumptions: block and table size are positive; the heap's address is positive
and aligned and so low that the wrapped block number of NULL is outside the table
(with the real values 0x01000000, 4096 and 25600 it is); a request is at least one
byte and does not wrap when it is rounded up.

`NoOverlap` is not inductive: whether a new allocation overlaps an old one
depends on the table, and whether a free clears the right entries depends on its
HAS_NEXT flags. The inductive invariant `IInv`
has the parts `Typed`, `NotEmpty`, `Apart`, `Taken` and `Untaken`: allocations have at
least one block and are disjoint; each entry of a live allocation has exactly the
flags its position asks for; every other entry is free. The parts are stated of any
table and any allocations, since the loops have two tables. An allocation may reach past the
table, so `Taken` speaks only of blocks inside it. Then

1. what `heap_get_start_block` returns is the start of a run whose blocks inside
   the table are free, hence, by `Taken`, disjoint from every live allocation.
   If it is the run at the end of the table, no live allocation reaches past it,
   for such an allocation would hold the last block;
2. `heap_mark_blocks_taken` establishes `Taken` for the new allocation and
   leaves the entries of the others alone, by 1;
3. `heap_mark_blocks_free` clears the blocks of one allocation: HAS_NEXT is set in
   all but its last one, by `Taken`, and it leaves the others alone by `Apart`;
4. the block number of NULL wraps to one outside the table, so nothing changes.

The refinement follows from the same facts: 1 is the Allocator's `FreeFor`, and
an error means that the last block is taken and no run is long enough, which by
`Taken` and `Untaken` is the condition of `Refuse`. It says nothing of the end of the
heap, since `Grant` does not: that is the matter of `InsideHeap`, which fails.

Its second half proves, from the same assumptions, that the loops of `heap.c` are
those steps:

* `LoopsImplementHeap`: `ScanSpec => ImplementsHeap`
* `LoopsAreSafe`: no two allocations share a block in the middle of a loop
  either, and between calls the table is what callers hold; by transfer of the
  theorems about `Heap` along the refinement

`LoopInv` says for each place of the loops how far they are: while scanning, that
every block seen since `block_start` is free and no earlier run is long enough;
while marking and freeing, that the entries passed are as after the call and the
others as before it. That the result is `heap_get_start_block` of the table at
the call follows when the loop ends, not before, which is why the refinement maps
`entries` to `before`.

`ProcessMemoryProofs`, for any heap, word, number of processes, of allocations and
any sizes of at least 1:

* `ProcessMemoryTypeOK`: `Spec => []TypeOK`
* `ProcessesKeepTheirMemory`: `Spec => []MemoryIsOwned`
* `NothingElseIsLost`: `Spec => []Accounted`

Assumptions: the wrapped block number of NULL is outside the table, as above, and
programs ask for at least one byte (`malloc(0)` is in section 7). `MemoryIsOwned`
is not inductive: to free one allocation and leave the rest alone, the table's
flags, the slots of the process and the allocations of all others have to agree.
`IInv` says that the table describes (`Describes`, the flags of every block) the
allocations that processes hold together with the lost ones, that each is held
once, and that a struct process is `WellFormed`: no pointer in it occurs twice, an
empty slot has size 0, and the writable pages are those of its own memory. Each
operation is a lemma of the form *a table and a process in order, and the
allocations of all others, are in order afterwards* (`Good`): `Zalloc`, `FreeOne`,
`FreeNull` for the heap, then `Malloc`, `Free`, `TerminateAllocations`, `Load`,
`Inject`. The loops over slots and allocations are recursive functions; facts
about them are proved by a least counterexample (`FreesExists`, `GrabAll`).

`SchedulerProofs`, for any number of slots and any finite memory for structs:

* `SchedulerTypeOK`: `Spec => []TypeOK`
* `ListStaysWhole`: `Spec => []ListHoldsTasks`
* `RunningTaskIsRegistered`: `Spec => []RunningIsRegistered`
* `ProcessesAndTasksMatch`: `Spec => []OneTaskPerProcess`
* `OnlyTheRunningProcessLeaves`: `Spec => OnlySelfTerminates`

`IInv` says that, until a panic or a write through a stale `prev`, the list is a
`Chain`: the tasks that are not freed in some order, each `next` naming the
following one; process and task name each other; the running task is in the list
and the foreground process in the table. Nothing is said of `prev`, which
`task_list_remove` does not keep up to date: where it matters, the model goes to
mode `wild`, and these theorems say nothing of what follows (see `sched_current`).

`ContextProofs`, for any tasks, interrupts and command numbers, KERNEL being no
task and the vectors being what `VectorAssumption` says:

* `ContextTypeOK`: `Spec => []TypeOK`
* `ProgramsResume`: `Spec => []ResumesWhereItLeft`
* `ProgramsRunInTheirOwnSpace`: `Spec => []OwnAddressSpace`
* `WaitingTasksAreSaved`: `Spec => []SavedWhileWaiting`

What a program finds depends on where the kernel is: `IInv` adds to these that the
frame on the stack, at the places that go back through it, and `task->registers`,
from the save on, hold what the running program had (`FrameIsDue`, `SavedIsDue`),
that the others' are saved in the kernel too (`OthersSaved`), that the task the
kernel works for has been interrupted (`WasInterrupted`: until then its ds is the one
`task_return` loaded), and that the kernel
runs in its own directory but while it reads for a caller (`KernelPage`).

`KeyboardProofs`, for any buffer size, processes and characters, the range of the
indices being a multiple of the size (2^32 and 1024 in the code):

* `KeyboardTypeOK`: `Spec => []TypeOK`
* `KeysAreTyped`: `Spec => []NeverForgedOrTwice`
* `BuffersImplementQueues`: `Spec => ImplementsKeyQueue`

`IInv` says that a buffer holds no character more often than it was pushed and not
yet popped, overflowed or not (`OwedInBuffer`), and that one that has not
overflowed has characters exactly in the slots from head to tail (`RingOK`), which
is what a pop relies on when it takes an empty slot for an empty buffer. The
abstract queue is read off these slots; that a push appends and a pop removes
the first rests on lemmas about remainders of wrapped indices.

`FileTableProofs`, for any number of descriptors, directory, paths, memory of at
least 3 units and offsets, for the calls alone (`TableIsSafe`) and for calls
followed by loads (`LoaderSpec`):

* `LoadsKeepTypes`: `LoaderSpec => []TypeOK`
* `OpenFilesKeepApart`: `LoaderSpec => []OwnMemory`
* `MemoryIsAccounted`: `LoaderSpec => []Accounted`
* `DescriptorsNameFiles`: `LoaderSpec => []OpensNamedFile`
* `EveryLoadEndsClean`: `LoaderSpec => []LoadsEndClean`

`TableInv` has the first four together with two facts that the steps need: the
memory of a descriptor is disjoint from that of every other and in use
(`Separate`), and the directory entry it copied exists (`ItemsExist`). `LoadInv`
adds what a load knows at each of its steps about the descriptor it opened, so
that each way out closes that one and no other.

`AddressSpaceProofs`, for page and table sizes of at least 8 bytes and one entry,
any heap, number of processes, allocations and loads, any files and sizes:

* `Types`: `Spec => []TypeOK`
* `Translations`: `Spec => []NoStaleTranslation`
* `Reachable`: `Spec => []KernelReachable`
* `OwnImage`: `Spec => []SeesOwnImage`
* `OwnMemory`: `Spec => []WritableIsOwn`
* `Implements`: `Spec => ImplementsPageMap`

Assumptions: KERNEL is no process; the heap starts on a page behind page 0 and ends
below the last address; a request is at least one byte and does not wrap when it is
rounded up; files and layout as in section 3.

None of these properties is inductive: where a page leads depends on a table that
is found through a word in a block of the heap, and so on nobody else writing to
that block. `IInv` (theorem `Inductive`) is the conjunction of

* `Control`: where in the kernel each value of cr3, of the current process and of
  the process being mapped occurs;
* `Owned`: blocks of the heap do not overlap; what a loaded process holds (`Holds`)
  are blocks of the right length, each held once and by one process; the words of
  its directory name different tables of its own, and there are no other tables;
  entry point and span are what the loader finds in the file (`Described`);
* `Mapped`: in the map of a process the areas of its file that
  `process_map_memory` has reached lead where the file was read to, everything
  else below and above the heap to itself; the heap leads to itself and is
  writable exactly in what `malloc` gave (`HeapMapped`), but for the page that
  `copy_string_from_task` has replaced for the moment (`View`); task and chunk,
  which the kernel reads on the way to a program, are present (`Pinned`);
* `NoStaleTranslation` itself.

The argument has three layers. Of numbers: a page has one place in directory and
table and no other page has it, and rounding goes as far as `paging.c` means it to.
Of tables: `paging_set_physical_address` changes one entry of the map of one
directory and nothing of any other (`Remapped`), so that `paging_map_to` changes a
range (`RangeMap`), while `paging_new_4gb` and `paging_free_4gb` add and take away
one map. Of operations: for each of load, map, malloc, free, copy and terminate, that
blocks, tables and map are in order afterwards. In the end `WritableIsOwn` follows
because the frames the map lets a program write are those `Mapped` names; of these
stack, allocations and the image as far as the file goes are in blocks that are
disjoint by `Owned` (`OwnInBlocks`), and the rest is `BehindFile`, of which nothing
more is true: it may be another program's memory or a page table. Programs do not
write to tables in this model, so that the theorems hold up to the first such store; `SeesOwnImage` because each byte of a segment is in
an area, and each loop over program headers has found their span; and the
refinement because every step changes at most one range of one map.

`FatReadProofs`, for any size of sectors and clusters, any tables and root directory,
any files, and any `size`, `nmemb` and `pos`:

* `ReadInvariant`: `Spec => []IInv`
* `BufferFilled`: `Spec => []FillsBuffer`
* `FirstClusterRead`: `Spec => []FirstClusterIsRead`

Assumptions: sectors, clusters and the reserved area are not empty, the root directory
is a whole number of sectors; a file has at least one cluster, and cluster numbers and
words of the table are not negative; `size` and `nmemb` are not 0, which `fread`
turns down. `FillsBuffer` is not inductive: the room that is left in the buffer depends
on what the member still needs. `Counted` says that the buffer has `i` whole members,
the part of the next one that `total` says, and the part of the request to the
disk that `want` says; `Placed` that the offset in the file has moved as far; `InFirst`
that within the first cluster stream and buffer are at the same byte of the file, and
that every byte read so far is the right one. Where the chain leads does not matter to
the first theorem, only that `fat16_get_cluster_for_offset` has a value: it is a
recursive function, shown to exist by its least counterexample. It matters to the
second, which stops at the first cluster for the reason in section 5.

Each inductive invariant was checked by TLC on the instance of the component's run
before it was proved; in `LoopInv` the pointer of a free then ranges over a bounded
set instead of the integers.

Only model-checked: liveness (`CallsReturn`, `EveryTaskRuns`, `KeysArrive`,
`ReadReturns`, `KeysAreRead`), which needs fairness and is out of the prover's
reach; and the two properties of `Shell`: `StartsWhatWasTyped` is about what recursive
functions over lines compute, and `EchoMatchesLine` needs an account of everything that
moves the cursor which has not been written.

## 7. What is not modelled

* Lack of memory in `task_new` and wherever `kernel_zalloc` is not checked: the
  code writes through NULL.
* `malloc(0)`: programs ask for at least one byte.
* Requests that the heap cannot meet are in `ProcessMemory` and `Heap`; in
  `AddressSpace` a load whose page tables do not fit is not tried.
* The TSS, the GDT and the boot sector: fixed tables and code that runs once.
* ATA port I/O, colours, wording of output: pure I/O. Program headers other than
  what `process_map_elf` and `elf_process_pheaders` read.
* Characters of paths and names and their lengths; `memory.c`, `string.c`
  of the kernel and the library's string helpers other than `strtok` and `strncpy`. `istrncmp` is equality of names.
* Command 8 (`process_get_arguments`), which copies argc and argv to its caller:
  `Context` dispatches it as any command, what it copies is not kept. `sum` has no
  command number.
* Stores of a program behind its file (`BehindFile`).
* `keyboard_backspace`, `pathparser_free` and the section headers of ELF files are
  never used.
* The library's `printf`, `itoa` and `malloc` wrappers, and what programs compute.
