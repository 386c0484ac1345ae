----------------------------- MODULE AddressSpace -----------------------------
(***************************************************************************)
(* The address spaces of programs, from the loading of a file to the end   *)
(* of its process: elf_validate_loaded and elf_process_pheaders            *)
(* (src/loader/formats/elfloader.c), process_load_for_slot,                *)
(* process_map_memory, process_malloc, process_free and process_terminate  *)
(* (src/task/process.c), task_init, task_free, task_switch and             *)
(* copy_string_from_task (src/task/task.c) over the page tables of module  *)
(* Paging, which are blocks of the heap like everything else that is       *)
(* allocated.  The heap is kept as its callers see it (module Allocator),  *)
(* with the choice of Heap: the first run of blocks that is long enough.   *)
(*                                                                         *)
(* The kernel's own directory maps every page to itself and never changes. *)
(* The processor keeps translations until cr3 is loaded: "tlb" is what it  *)
(* may still use, the translation of the directory when it was loaded.     *)
(*                                                                         *)
(* Requests the heap cannot meet are left to ProcessMemory and Heap; a     *)
(* load whose page tables do not fit is not tried.                         *)
(***************************************************************************)
EXTENDS Paging, FiniteSets

CONSTANTS
  HEAP_ADDRESS, TABLE_TOTAL,                   \* the heap
  Process,                                     \* slots of the process table
  KERNEL,                                      \* the kernel, as owner of cr3
  ImageOf,                                     \* the program files by name
  Sizes,                                       \* what programs ask of malloc
  OS_MAX_PROGRAM_ALLOCATIONS,
  OS_PROGRAM_VIRTUAL_ADDRESS,
  OS_USER_PROGRAM_VIRTUAL_STACK_ADDRESS_END,
  OS_USER_PROGRAM_VIRTUAL_STACK_SIZE,
  KernelPages,                                 \* the kernel's code, data, stack
  MAX_LOADS                                    \* bound: programs ever loaded

ASSUME ProcessAssumption == KERNEL \notin Process

\* The heap is in the mapped memory, below its end, and starts on a page; page
\* 0 is not part of it.
ASSUME HeapAssumption ==
  /\ HEAP_ADDRESS \in Nat \ {0} /\ TABLE_TOTAL \in Nat
  /\ HEAP_ADDRESS % PAGING_PAGE_SIZE = 0
  /\ HEAP_ADDRESS + TABLE_TOTAL * PAGING_PAGE_SIZE < WORD

\* A request is rounded up to at least one page, and without wrapping.
ASSUME SizesAssumption ==
  Sizes \cup {OS_USER_PROGRAM_VIRTUAL_STACK_SIZE} \subseteq 1 .. WORD - PAGING_PAGE_SIZE

VARIABLES
  heap,     \* what is allocated: addresses and their numbers of pages
  table,    \* the page tables
  process,  \* what each slot holds
  current,  \* the process of current_task
  cr3,      \* the owner of the loaded directory
  tlb,      \* translations the processor may use
  pc,       \* "user", or where in the kernel
  next,     \* process_map_elf: the process and its next program header
  loads,    \* programs loaded so far
  copy      \* copy_string_from_task: tmp and old_entry

vars == <<heap, table, process, current, cr3, tlb, pc, next, loads, copy>>

NULL == 0

\* No translation is remembered of the kernel's directory.
NoTlb == << >>

\* The addresses of a struct elf_file.
NoSpan == [virtual_base |-> 0, physical_base |-> 0,
           virtual_end |-> 0, physical_end |-> 0]

\* A struct process; allocations holds the used entries of its table.
NoProcess == [filename |-> "", self |-> NULL, elf_file |-> NULL, ptr |-> NULL,
              stack |-> NULL, task |-> NULL, chunk |-> NULL,
              directory |-> NULL, ip |-> NULL, span |-> NoSpan,
              allocations |-> {}]

Image(proc) == ImageOf[proc.filename]

Live == {p \in Process : process[p].self # NULL}

------------------------------------------------------------------------------
(* The heap. *)

Pages(size) == paging_align_address(size) \div PAGING_PAGE_SIZE

PagesFrom(ptr, n) == {ptr + i * PAGING_PAGE_SIZE : i \in 0 .. n - 1}

Taken(h) == UNION {PagesFrom(ptr, h[ptr]) : ptr \in DOMAIN h}

HeapPages == PagesFrom(HEAP_ADDRESS, TABLE_TOTAL)

\* Where a run of n free blocks starts.
Runs(h, n) ==
  LET free == HeapPages \ Taken(h)
  IN  {ptr \in free : PagesFrom(ptr, n) \subseteq free}

Fits(h, size) == Runs(h, Pages(size)) # {}

kernel_zalloc(h, size) ==
  LET runs == Runs(h, Pages(size))
      ptr == CHOOSE a \in runs : \A b \in runs : a <= b
  IN  [heap |-> [a \in DOMAIN h \cup {ptr} |-> IF a = ptr THEN Pages(size) ELSE h[a]],
       ptr |-> ptr]

kernel_free(h, ptrs) == [a \in DOMAIN h \ ptrs |-> h[a]]

\* Several requests one after the other; ok as long as all of them fit.
Grab(h, sizes) ==
  LET grab[i \in 0 .. Len(sizes)] ==
        IF i = 0 THEN [heap |-> h, ptrs |-> << >>, ok |-> TRUE]
        ELSE LET g == grab[i - 1]
             IN  IF ~g.ok \/ ~Fits(g.heap, sizes[i])
                 THEN [g EXCEPT !.ok = FALSE]
                 ELSE LET z == kernel_zalloc(g.heap, sizes[i])
                      IN  [heap |-> z.heap, ok |-> TRUE,
                           ptrs |-> Append(g.ptrs, z.ptr)]
  IN  grab[Len(sizes)]

------------------------------------------------------------------------------
(* The ELF file. *)

\* elf_valid_signature, elf_valid_class and elf_valid_encoding.
elf_valid_ident(header) ==
  /\ header.signature
  /\ header.class \in {"ELFCLASSNONE", "ELFCLASS32"}
  /\ header.data \in {"ELFDATANONE", "ELFDATA2LSB"}

elf_has_program_header(header) == header.phoff # 0

elf_validate_loaded(header) ==
  elf_valid_ident(header) /\ elf_has_program_header(header)

elf_phdr_phys_address(memory, phdr) == memory + phdr.offset

\* The lowest base and the highest end so far; 0 stands for none.
elf_process_phdr_pt_load(s, memory, phdr) ==
  LET end == phdr.vaddr + phdr.filesz
      low == s.virtual_base = 0 \/ s.virtual_base >= phdr.vaddr
      high == s.virtual_end = 0 \/ s.virtual_end <= end
  IN  [virtual_base |-> IF low THEN phdr.vaddr ELSE s.virtual_base,
       physical_base |-> IF low THEN elf_phdr_phys_address(memory, phdr)
                        ELSE s.physical_base,
       virtual_end |-> IF high THEN end ELSE s.virtual_end,
       physical_end |-> IF high THEN memory + phdr.offset + phdr.filesz
                        ELSE s.physical_end]

elf_process_pheaders(memory, phdrs) ==
  LET s[i \in 0 .. Len(phdrs)] ==
        IF i = 0 THEN NoSpan
        ELSE IF phdrs[i].type = "PT_LOAD"
        THEN elf_process_phdr_pt_load(s[i - 1], memory, phdrs[i])
        ELSE s[i - 1]
  IN  s[Len(phdrs)]

------------------------------------------------------------------------------
(* The files, as programs/*/linker.ld makes them, and where they are mapped. *)

ProgramHeader ==
  [type : STRING, vaddr : Nat, offset : Nat, filesz : Nat, memsz : Nat,
   write : BOOLEAN]

\* A segment begins as far into its page as into a page of the file.  Those
\* that are loaded have memory, but not always bytes in the file (.bss is a
\* segment of its own where there is no .data); no others have such bytes.
\* Blank data may be longer than the blocks the file was read into, but not so
\* long that its end, wherever in the heap the file is, would wrap.
ASSUME ImageAssumption ==
  \A name \in DOMAIN ImageOf :
    /\ ImageOf[name].size \in 1 .. WORD - PAGING_PAGE_SIZE
    /\ ImageOf[name].phdrs \in Seq(ProgramHeader)
    /\ \A i \in DOMAIN ImageOf[name].phdrs :
         LET phdr == ImageOf[name].phdrs[i]
         IN  /\ HEAP_ADDRESS + TABLE_TOTAL * PAGING_PAGE_SIZE
                  + phdr.offset + phdr.memsz <= WORD - PAGING_PAGE_SIZE
             /\ phdr.vaddr % PAGING_PAGE_SIZE = phdr.offset % PAGING_PAGE_SIZE
             /\ phdr.filesz <= phdr.memsz
             /\ phdr.memsz = 0 => paging_is_aligned(phdr.offset)
             /\ phdr.type = "PT_LOAD" => phdr.vaddr > 0 /\ phdr.memsz > 0
             /\ phdr.filesz > 0 => phdr.type = "PT_LOAD"
    /\ elf_validate_loaded(ImageOf[name].header) =>
         \E i \in DOMAIN ImageOf[name].phdrs :
           LET phdr == ImageOf[name].phdrs[i]
           IN  ImageOf[name].header.entry \in phdr.vaddr .. phdr.vaddr + phdr.filesz - 1

Segments(image) ==
  IF elf_validate_loaded(image.header) THEN Len(image.phdrs) ELSE 1

\* What is mapped for a file: its segments, or a plain binary as a whole, and
\* after them the stack.
Area(image, k) ==
  IF k > Segments(image)
  THEN [first |-> OS_USER_PROGRAM_VIRTUAL_STACK_ADDRESS_END,
        pages |-> Pages(OS_USER_PROGRAM_VIRTUAL_STACK_SIZE)]
  ELSE IF elf_validate_loaded(image.header)
  THEN LET phdr == image.phdrs[k]
       IN  [first |-> paging_align_to_lower_page(phdr.vaddr),
            pages |-> (paging_align_address(phdr.offset + phdr.memsz)
                         - paging_align_to_lower_page(phdr.offset)) \div PAGING_PAGE_SIZE]
  ELSE [first |-> OS_PROGRAM_VIRTUAL_ADDRESS, pages |-> Pages(image.size)]

\* Programs are linked for addresses below the heap, where neither the kernel
\* nor the stack is, and no page is in two segments.
ASSUME LayoutAssumption ==
  /\ KernelPages \subseteq Page \ HeapPages
  /\ \A name \in DOMAIN ImageOf : \A k \in 1 .. Segments(ImageOf[name]) + 1 :
       LET area == Area(ImageOf[name], k)
           pages == PagesFrom(area.first, area.pages)
       IN  /\ area.first \in Page
           /\ pages \subseteq Page \ (HeapPages \cup KernelPages)
           /\ \A j \in 1 .. Segments(ImageOf[name]) + 1 : j # k =>
                LET other == Area(ImageOf[name], j)
                IN  pages \cap PagesFrom(other.first, other.pages) = {}

------------------------------------------------------------------------------
(* cr3. *)

\* paging_switch to the directory of a process; in the same step its tables
\* and the process may be new.
paging_switch(p) ==
  /\ cr3' = p
  /\ tlb' = Translation(table', process'[p].directory)

kernel_page == cr3' = KERNEL /\ tlb' = NoTlb

------------------------------------------------------------------------------
(* Loading. *)

Init ==
  /\ heap = << >>
  /\ table = << >>
  /\ process = [p \in Process |-> NoProcess]
  /\ current = KERNEL
  /\ cr3 = KERNEL /\ tlb = NoTlb
  /\ pc = "kernel"
  /\ next = [p |-> KERNEL, header |-> 0]
  /\ loads = 0
  /\ copy = [tmp |-> NULL, old_entry |-> 0]

\* The requests of process_load_for_slot in their order: struct process, the
\* struct elf_file and its memory, for a file that is not ELF the memory of
\* process_load_binary as well, stack, task, directory, tables, chunk.
Requests(image) ==
  <<1, 1, image.size>>
    \o (IF elf_validate_loaded(image.header) THEN << >> ELSE <<image.size>>)
    \o <<OS_USER_PROGRAM_VIRTUAL_STACK_SIZE, 1>>
    \o [i \in 1 .. PAGING_TOTAL_ENTRIES_PER_TABLE + 1 |-> PAGING_PAGE_SIZE]
    \o <<1>>

\* task_init: everything readable from user mode, mapped to itself.
InitialFlags == PAGING_IS_PRESENT + PAGING_ACCESS_FROM_ALL

\* process_load_for_slot up to task_new, at boot or in command 6 or 7.  What
\* elf_load took for a file that is not ELF is forgotten.
process_load(p, filename) ==
  LET image == ImageOf[filename]
      elf == elf_validate_loaded(image.header)
      g == Grab(heap, Requests(image))
      n == IF elf THEN 4 ELSE 5  \* where the stack is
  IN  /\ pc = "copied" \/ pc = "kernel"
      /\ p \notin Live /\ loads < MAX_LOADS
      /\ g.ok
      /\ heap' = g.heap
      /\ table' = paging_new_4gb(table,
           SubSeq(g.ptrs, n + 2, n + 2 + PAGING_TOTAL_ENTRIES_PER_TABLE),
           InitialFlags)
      /\ process' = [process EXCEPT ![p] =
           [filename |-> filename, self |-> g.ptrs[1],
            elf_file |-> IF elf THEN g.ptrs[2] ELSE NULL,
            ptr |-> g.ptrs[n - 1], stack |-> g.ptrs[n], task |-> g.ptrs[n + 1],
            chunk |-> g.ptrs[Len(g.ptrs)], directory |-> g.ptrs[n + 2],
            ip |-> IF elf THEN image.header.entry
                   ELSE OS_PROGRAM_VIRTUAL_ADDRESS,
            span |-> IF elf THEN elf_process_pheaders(g.ptrs[n - 1], image.phdrs)
                     ELSE NoSpan,
            allocations |-> {}]]
      /\ next' = [p |-> p, header |-> 1]
      /\ loads' = loads + 1
      /\ pc' = "mapping"
      /\ UNCHANGED <<current, cr3, tlb, copy>>

\* One turn of process_map_elf, whatever the type of the header.
PhdrMap(t, proc, phdr) ==
  LET phys == elf_phdr_phys_address(proc.ptr, phdr)
  IN  paging_map_to(t, proc.directory,
        paging_align_to_lower_page(phdr.vaddr),
        paging_align_to_lower_page(phys),
        paging_align_address(phys + phdr.memsz),
        InitialFlags + (IF phdr.write THEN PAGING_IS_WRITEABLE ELSE 0))

process_map_elf ==
  LET proc == process[next.p]
  IN  /\ pc = "mapping" /\ proc.elf_file # NULL
      /\ next.header <= Len(Image(proc).phdrs)
      /\ table' = PhdrMap(table, proc, Image(proc).phdrs[next.header])
      /\ next' = [next EXCEPT !.header = @ + 1]
      /\ UNCHANGED <<heap, process, current, cr3, tlb, pc, copy, loads>>

UserWritable == InitialFlags + PAGING_IS_WRITEABLE

process_map_binary ==
  LET proc == process[next.p]
  IN  /\ pc = "mapping" /\ proc.elf_file = NULL /\ next.header = 1
      /\ table' = paging_map_to(table, proc.directory,
                    OS_PROGRAM_VIRTUAL_ADDRESS, proc.ptr,
                    paging_align_address(proc.ptr + Image(proc).size),
                    UserWritable)
      /\ next' = [next EXCEPT !.header = 2]
      /\ UNCHANGED <<heap, process, current, cr3, tlb, pc, copy, loads>>

\* process_map_memory ends with the stack.
process_map_memory ==
  LET proc == process[next.p]
  IN  /\ pc = "mapping"
      /\ next.header > (IF proc.elf_file # NULL THEN Len(Image(proc).phdrs) ELSE 1)
      /\ table' = paging_map_to(table, proc.directory,
                    OS_USER_PROGRAM_VIRTUAL_STACK_ADDRESS_END, proc.stack,
                    paging_align_address(proc.stack
                                         + OS_USER_PROGRAM_VIRTUAL_STACK_SIZE),
                    UserWritable)
      /\ pc' = "loaded"
      /\ UNCHANGED <<heap, process, current, cr3, tlb, next, copy, loads>>

\* task_switch and task_return: at the end of commands 6 and 7 and of boot to
\* the new program, by task_next to any other.
Run(p) ==
  /\ current' = p
  /\ paging_switch(p)
  /\ pc' = "user"

\* kernel_main loads several programs before it runs the first of them.
RunLoaded ==
  /\ pc = "loaded"
  /\ next' = [p |-> KERNEL, header |-> 0]
  /\ UNCHANGED <<heap, table, process, copy, loads>>
  /\ \/ Run(next.p)
     \/ /\ current = KERNEL
        /\ pc' = "kernel" /\ UNCHANGED <<current, cr3, tlb>>

task_run_first_ever_task ==
  /\ pc = "kernel" /\ current = KERNEL
  /\ UNCHANGED <<heap, table, process, next, copy, loads>>
  /\ \E p \in Live : Run(p)

------------------------------------------------------------------------------
(* Between a program and the kernel. *)

\* Every handler begins with kernel_page.
Enter ==
  /\ pc = "user"
  /\ kernel_page
  /\ pc' = "kernel"
  /\ UNCHANGED <<heap, table, process, current, next, copy, loads>>

\* task_page and iret, or task_next.
Leave ==
  /\ pc \in {"kernel", "done", "copied"} /\ current # KERNEL
  /\ UNCHANGED <<heap, table, process, next, copy, loads>>
  /\ \E p \in Live : Run(p)

\* Whose allocations the kernel changes: the caller's, and in command 7 the
\* new program's, for its arguments.
Caller == IF pc = "loaded" THEN next.p ELSE current

CanAllocate == pc = "loaded" \/ (pc = "kernel" /\ current # KERNEL)

Allocation(ptr, size) == [ptr |-> ptr, size |-> size]

\* Without an entry in the table the memory goes back.
process_malloc(size) ==
  LET proc == process[Caller]
      z == kernel_zalloc(heap, size)
  IN  /\ CanAllocate
      /\ Fits(heap, size)
      /\ Cardinality(proc.allocations) < OS_MAX_PROGRAM_ALLOCATIONS
      /\ heap' = z.heap
      /\ table' = paging_map_to(table, proc.directory, z.ptr, z.ptr,
                    paging_align_address(z.ptr + size), UserWritable)
      /\ process' = [process EXCEPT ![Caller].allocations =
                       @ \cup {Allocation(z.ptr, size)}]
      /\ pc' = IF pc = "loaded" THEN "loaded" ELSE "done"
      /\ UNCHANGED <<current, cr3, tlb, next, copy, loads>>

process_free(a) ==
  LET proc == process[current]
  IN  /\ pc = "kernel" /\ current # KERNEL
      /\ table' = paging_map_to(table, proc.directory, a.ptr, a.ptr,
                    paging_align_address(a.ptr + a.size), 0)
      /\ heap' = kernel_free(heap, {a.ptr})
      /\ process' = [process EXCEPT ![current].allocations = @ \ {a}]
      /\ pc' = "done"
      /\ UNCHANGED <<current, cr3, tlb, next, copy, loads>>

Free ==
  /\ current # KERNEL
  /\ \E a \in process[current].allocations : process_free(a)

\* elf_close or process_free_binary_data, the stack, and task_free with the
\* page tables; the struct process is never freed.
process_terminate(p) ==
  LET proc == process[p]
  IN  /\ heap' = kernel_free(heap,
           {a.ptr : a \in proc.allocations}
             \cup TablesOf(table, proc.directory)
             \cup {proc.ptr, proc.stack, proc.task, proc.chunk}
             \cup ({proc.elf_file} \ {NULL}))
      /\ table' = paging_free_4gb(table, proc.directory)
      /\ process' = [process EXCEPT ![p] = NoProcess]

\* Command 0 and idt_handle_exception, then task_next, or panic when it was
\* the last program.
Terminate ==
  /\ pc \in {"kernel", "exception"} /\ current # KERNEL
  /\ process_terminate(current)
  /\ IF Live = {current}
     THEN pc' = "panic" /\ UNCHANGED <<current, cr3, tlb>>
     ELSE \E p \in Live \ {current} : Run(p)
  /\ UNCHANGED <<next, copy, loads>>

Stopped == pc = "panic" /\ UNCHANGED vars

------------------------------------------------------------------------------
(* copy_string_from_task. *)

StringSize == 1  \* bytes; less than a page, so tmp is one block

\* Mutant: the page is mapped after the directory was loaded.
CopyMap_late ==
  LET z == kernel_zalloc(heap, StringSize)
      d == process[current].directory
  IN  /\ pc = "kernel" /\ current # KERNEL
      /\ Fits(heap, StringSize)
      /\ heap' = z.heap
      /\ copy' = [tmp |-> z.ptr, old_entry |-> paging_get(table, d, z.ptr)]
      /\ table' = paging_map(table, d, z.ptr, z.ptr, UserWritable)
      /\ pc' = "reading"
      /\ cr3' = current /\ tlb' = Translation(table, d)
      /\ UNCHANGED <<process, current, next, loads>>

\* Mutant: tmp is expected to be there already.
CopyMap_unmapped ==
  LET z == kernel_zalloc(heap, StringSize)
      d == process[current].directory
  IN  /\ pc = "kernel" /\ current # KERNEL
      /\ Fits(heap, StringSize)
      /\ heap' = z.heap
      /\ copy' = [tmp |-> z.ptr, old_entry |-> paging_get(table, d, z.ptr)]
      /\ pc' = "reading"
      /\ UNCHANGED <<table, process, current, next, loads>>
      /\ paging_switch(current)

\* tmp may be a page that the program freed and that is not present in its
\* directory: it is mapped for the time of the copy.
CopyMap ==
  LET z == kernel_zalloc(heap, StringSize)
      d == process[current].directory
  IN  /\ pc = "kernel" /\ current # KERNEL
      /\ Fits(heap, StringSize)
      /\ heap' = z.heap
      /\ copy' = [tmp |-> z.ptr, old_entry |-> paging_get(table, d, z.ptr)]
      /\ table' = paging_map(table, d, z.ptr, z.ptr, UserWritable)
      /\ pc' = "reading"
      /\ UNCHANGED <<process, current, next, loads>>
      /\ paging_switch(current)

\* The string is in a page that is not present: the fault is taken in the
\* kernel and ends the process.  Nobody frees tmp.
CopyFault ==
  /\ pc = "reading"
  /\ \E page \in Page : ~Has(tlb[page], PAGING_IS_PRESENT)
  /\ kernel_page
  /\ copy' = [tmp |-> NULL, old_entry |-> 0]
  /\ pc' = "exception"
  /\ UNCHANGED <<heap, table, process, current, next, loads>>

\* Mutant: the entry is not put back.
CopyRestore_not ==
  /\ pc = "reading"
  /\ kernel_page
  /\ heap' = kernel_free(heap, {copy.tmp})
  /\ copy' = [tmp |-> NULL, old_entry |-> 0]
  /\ pc' = "copied"
  /\ UNCHANGED <<table, process, current, next, loads>>

\* kernel_page, the old entry, and tmp is freed.
CopyRestore ==
  /\ pc = "reading"
  /\ kernel_page
  /\ table' = paging_set_physical_address(table, process[current].directory,
                                          copy.tmp, copy.old_entry)
  /\ heap' = kernel_free(heap, {copy.tmp})
  /\ copy' = [tmp |-> NULL, old_entry |-> 0]
  /\ pc' = "copied"
  /\ UNCHANGED <<process, current, next, loads>>

Next ==
  \/ \E p \in Process, filename \in DOMAIN ImageOf : process_load(p, filename)
  \/ process_map_elf \/ process_map_binary \/ process_map_memory
  \/ RunLoaded \/ task_run_first_ever_task
  \/ Enter \/ Leave
  \/ \E size \in Sizes : process_malloc(size)
  \/ Free \/ Terminate \/ Stopped
  \/ CopyMap \/ CopyFault \/ CopyRestore

Spec == Init /\ [][Next]_vars

------------------------------------------------------------------------------
(* Properties. *)

Address == 0 .. WORD - 1

\* Every word of every page table is a word, and the tables are blocks that
\* are taken in the heap: no directory is left half freed.
TypeOK ==
  /\ Taken(heap) \subseteq HeapPages
  /\ \A a \in DOMAIN table :
       /\ table[a] \in [Index -> Address]
       /\ a \in DOMAIN heap
  /\ DOMAIN table = UNION {TablesOf(table, process[p].directory) : p \in Live}
  /\ current \in Process \cup {KERNEL} /\ cr3 \in Process \cup {KERNEL}

Map(p) == IF p \in Live THEN Translation(table, process[p].directory) ELSE NoTlb

\* The directories in the heap behave as flat maps, one per process: a call
\* of paging_map_to changes the pages it names, in the directory it names,
\* although tables are found through words, come from freed blocks and are
\* next to each other in memory.
PM == INSTANCE PageMap WITH
        Owner <- Process,
        Fresh <- [page \in Page |-> page + InitialFlags],
        Nothing <- NoTlb,
        map <- [p \in Process |-> Map(p)]

ImplementsPageMap == PM!Spec

\* While a program's directory is loaded, for the program or for the kernel's
\* copy of its string, the processor holds no translation that the tables no
\* longer have: every change comes before the next load of cr3.
NoStaleTranslation == cr3 # KERNEL => tlb = Map(cr3)

Ready(p) == p \in Live /\ next.p # p

\* The bytes of a program: where it was linked to find each, where the kernel
\* maps it to, and whether the file has it (it has no blank data).
ImageBytes(proc) ==
  IF proc.elf_file = NULL
  THEN {[v |-> OS_PROGRAM_VIRTUAL_ADDRESS + i, at |-> proc.ptr + i,
         write |-> TRUE, file |-> TRUE] : i \in 0 .. Image(proc).size - 1}
  ELSE UNION {{[v |-> h.vaddr + i, at |-> proc.ptr + h.offset + i,
                write |-> h.write, file |-> i < h.filesz] : i \in 0 .. h.memsz - 1} :
              h \in {k \in {Image(proc).phdrs[i] : i \in DOMAIN Image(proc).phdrs} :
                       k.type = "PT_LOAD"}}

\* A program finds every byte of its segments at the address it was linked for,
\* readable from user mode and writable only if the segment is, whatever it
\* allocates and frees later; its entry point is one of the file's.  (Blank
\* data has the place it would have in a longer file, which need not be the
\* program's own: WritableIsOwn.)  The span of the file begins with the first
\* byte and ends behind the last one of the file, or where a segment without
\* bytes of the file begins.
SeesOwnImage ==
  \A p \in Live : Ready(p) =>
    LET proc == process[p]
        bytes == ImageBytes(proc)
        m == Map(p)
        word(b) == m[paging_align_to_lower_page(b.v)]
    IN  /\ \A b \in bytes :
             /\ paging_get_physical_address(table, proc.directory, b.v) = b.at
             /\ Has(word(b), PAGING_IS_PRESENT)
             /\ Has(word(b), PAGING_ACCESS_FROM_ALL)
             /\ Has(word(b), PAGING_IS_WRITEABLE) <=> b.write
        /\ \E b \in bytes : b.file /\ b.v = proc.ip
        /\ proc.elf_file # NULL =>
             /\ \A b \in bytes : /\ proc.span.virtual_base <= b.v
                                 /\ b.file => b.v < proc.span.virtual_end
             /\ \E b \in bytes : /\ b.v = proc.span.virtual_base
                                 /\ b.at = proc.span.physical_base
             /\ \E b \in bytes : LET n == IF b.file THEN 1 ELSE 0
                                 IN  /\ b.v + n = proc.span.virtual_end
                                     /\ b.at + n = proc.span.physical_end

\* Frames that user mode can write with the directory of p.
Writable(p) ==
  LET m == Map(p)
  IN  {Frame(word) : word \in {w \in {m[page] : page \in Page} :
        \A f \in {PAGING_IS_PRESENT, PAGING_IS_WRITEABLE, PAGING_ACCESS_FROM_ALL} :
          Has(w, f)}}

FramesFrom(ptr, size) ==
  {Frame(a) : a \in {ptr + i : i \in 0 .. size - 1}}

\* The frames of the image that its headers make writable, blank data (memsz)
\* included.
ImageFrames(proc) ==
  IF proc.elf_file = NULL THEN FramesFrom(proc.ptr, Image(proc).size)
  ELSE UNION {FramesFrom(proc.ptr + h.offset, h.memsz) :
                h \in {k \in {Image(proc).phdrs[i] : i \in DOMAIN Image(proc).phdrs} :
                         k.write}}

\* The blocks that the file was read into.
FileFrames(proc) == FramesFrom(proc.ptr, Image(proc).size)

\* What a program should write: its stack, what malloc gave it, and the
\* writable part of its image.
WritableOwn(proc) ==
  FramesFrom(proc.stack, OS_USER_PROGRAM_VIRTUAL_STACK_SIZE)
  \cup (UNION {FramesFrom(a.ptr, a.size) : a \in proc.allocations})
  \cup (ImageFrames(proc) \cap FileFrames(proc))

\* Blank data that runs over the end of the file: nothing is allocated for it,
\* and the program gets whatever lies behind the file in the heap.
BehindFile(proc) == ImageFrames(proc) \ FileFrames(proc)

\* A program, whenever one runs, can write its own memory and, only if its
\* blank data is longer than the file's last block, the frames next to the file
\* up to the end of that data; nothing else: nothing that was freed or that the
\* kernel used for a moment (copy_string_from_task) has stayed writable.  Its
\* own memory is no other program's and no page table.
WritableIsOwn ==
  pc = "user" => \A p \in Live :
    /\ Writable(p) = WritableOwn(process[p]) \cup BehindFile(process[p])
    /\ \A q \in Live \ {p} : WritableOwn(process[p]) \cap WritableOwn(process[q]) = {}
    /\ WritableOwn(process[p]) \cap DOMAIN table = {}

\* What the kernel touches while a program's directory is loaded is mapped to
\* itself and present there: its own pages, the task and the chunk that
\* task_return and paging_switch read, and tmp while a string is copied,
\* although the program can make any page it was given not present again.
KernelReachable ==
  /\ \A p \in Live : LET m == Map(p) IN
       \A page \in KernelPages \cup {process[p].task, process[p].chunk} :
         Frame(m[page]) = page /\ Has(m[page], PAGING_IS_PRESENT)
  /\ pc = "reading" => /\ Frame(tlb[copy.tmp]) = copy.tmp
                       /\ Has(tlb[copy.tmp], PAGING_IS_PRESENT)
==============================================================================
