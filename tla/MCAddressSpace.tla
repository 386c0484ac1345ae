---------------------------- MODULE MCAddressSpace ----------------------------
(* Two processes; 7 tables of 7 entries map 49 pages of 8 bytes: 2 of the    *)
(* kernel, the stack at page 2, the program from page 5 on (across the end   *)
(* of the first table, which is at page 7), the heap from page 9 on.         *)
EXTENDS AddressSpace, TLC

Symmetry == Permutations(Process)

MCSizes == {9}  \* one byte more than a page

Phdr(type, vaddr, offset, filesz, memsz, write) ==
  [type |-> type, vaddr |-> vaddr, offset |-> offset, filesz |-> filesz,
   memsz |-> memsz, write |-> write]

\* Code that does not begin on a page, data over two pages, the second of them
\* blank and behind the file's two blocks (where the stack is when the heap is
\* new), blank data alone two blocks further (the directory), a header without
\* memory; the headers are not in the order of their addresses.
MCElf ==
  [size |-> 14,
   header |-> [signature |-> TRUE, class |-> "ELFCLASS32", data |-> "ELFDATA2LSB",
               phoff |-> 1, entry |-> 42],
   phdrs |-> <<Phdr("PT_LOAD", 48, 8, 6, 12, TRUE),
               Phdr("PT_LOAD", 41, 1, 6, 6, FALSE),
               Phdr("PT_LOAD", 64, 32, 0, 4, TRUE),
               Phdr("PT_GNU_STACK", 0, 0, 0, 0, TRUE)>>]

\* Not for this machine, and so taken for a plain binary.
MCBinary ==
  [size |-> 5,
   header |-> [signature |-> TRUE, class |-> "ELFCLASS64", data |-> "ELFDATA2LSB",
               phoff |-> 1, entry |-> 0],
   phdrs |-> << >>]

MCImageOf == [elf |-> MCElf, binary |-> MCBinary]
MCKernelPages == {0, 8}
==============================================================================
