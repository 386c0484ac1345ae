-------------------------------- MODULE Paging --------------------------------
(***************************************************************************)
(* Two-level page tables: src/memory/paging/paging.c.  A table is an array *)
(* of PAGING_TOTAL_ENTRIES_PER_TABLE words in a block of the heap; "t" is  *)
(* the memory that holds them, a function from a table's address to its    *)
(* words.  The tables of a directory are found through its words.          *)
(*                                                                         *)
(* A word is an aligned address with flags in its low bits, so that | is   *)
(* + and & 0xFFFFF000 is rounding down.                                    *)
(***************************************************************************)
EXTENDS Integers, Sequences

CONSTANTS
  PAGING_PAGE_SIZE,
  PAGING_TOTAL_ENTRIES_PER_TABLE

\* The flags fit below the address.
ASSUME PageAssumption == PAGING_PAGE_SIZE \in Nat /\ PAGING_PAGE_SIZE >= 8

ASSUME TableAssumption == PAGING_TOTAL_ENTRIES_PER_TABLE \in Nat \ {0}

PAGING_IS_PRESENT == 1
PAGING_IS_WRITEABLE == 2
PAGING_ACCESS_FROM_ALL == 4

Flags(word) == word % PAGING_PAGE_SIZE

Frame(word) == word - Flags(word)

Has(word, flag) == (Flags(word) \div flag) % 2 = 1

Index == 0 .. PAGING_TOTAL_ENTRIES_PER_TABLE - 1

\* Bytes that one table maps.
TableSpan == PAGING_TOTAL_ENTRIES_PER_TABLE * PAGING_PAGE_SIZE

\* 2^32: the tables map all of it, addresses wrap there.
WORD == PAGING_TOTAL_ENTRIES_PER_TABLE * TableSpan

Page == {n * PAGING_PAGE_SIZE : n \in 0 .. WORD \div PAGING_PAGE_SIZE - 1}

------------------------------------------------------------------------------

paging_is_aligned(address) == address % PAGING_PAGE_SIZE = 0

paging_align_to_lower_page(addr) == addr - (addr % PAGING_PAGE_SIZE)

paging_align_address(ptr) ==
  IF paging_is_aligned(ptr) THEN ptr
  ELSE (ptr + PAGING_PAGE_SIZE - (ptr % PAGING_PAGE_SIZE)) % WORD

\* Mutant: the entry in the table is not reduced to one table.
paging_get_indexes_folded(virtual_address) ==
  [directory |-> virtual_address \div TableSpan,
   table |-> (virtual_address \div PAGING_PAGE_SIZE)
               % (PAGING_TOTAL_ENTRIES_PER_TABLE - 1)]

\* Both indexes keep the 0 of the callers when the address is not aligned.
paging_get_indexes(virtual_address) ==
  IF ~paging_is_aligned(virtual_address) THEN [directory |-> 0, table |-> 0]
  ELSE [directory |-> virtual_address \div TableSpan,
        table |-> (virtual_address % TableSpan) \div PAGING_PAGE_SIZE]

\* The table that the directory at address d uses for an address.
TableOf(t, d, virtual_address) ==
  Frame(t[d][paging_get_indexes(virtual_address).directory])

paging_set_physical_address(t, d, virtual_address, val) ==
  IF ~paging_is_aligned(virtual_address) THEN t
  ELSE [t EXCEPT ![TableOf(t, d, virtual_address)]
                  [paging_get_indexes(virtual_address).table] = val]

paging_get(t, d, virtual_address) ==
  t[TableOf(t, d, virtual_address)][paging_get_indexes(virtual_address).table]

paging_get_physical_address(t, d, virtual_address) ==
  LET page == paging_align_to_lower_page(virtual_address)
  IN  Frame(paging_get(t, d, page)) + (virtual_address - page)

paging_map(t, d, virtual_address, physical_address, flags) ==
  IF paging_is_aligned(virtual_address) /\ paging_is_aligned(physical_address)
  THEN paging_set_physical_address(t, d, virtual_address, physical_address + flags)
  ELSE t

\* The addresses of a page and of the frame keep their distance, so that one
\* refused page means that every page is refused.
paging_map_range(t, d, virtual_address, physical_address, total_pages, flags) ==
  LET mapped[i \in 0 .. total_pages] ==
        IF i = 0 THEN t
        ELSE paging_map(mapped[i - 1], d,
                        (virtual_address + (i - 1) * PAGING_PAGE_SIZE) % WORD,
                        (physical_address + (i - 1) * PAGING_PAGE_SIZE) % WORD,
                        flags)
  IN  mapped[total_pages]

\* What paging_map_to answers: INVALID_ARGUMENT_ERROR unless all of it holds.
MapToAccepts(virtual_address, physical_address, physical_end_address) ==
  /\ paging_is_aligned(virtual_address)
  /\ paging_is_aligned(physical_address)
  /\ paging_is_aligned(physical_end_address)
  /\ physical_end_address >= physical_address

\* Mutant: the last page is left out.
paging_map_to_short(t, d, virtual_address, physical_address, physical_end_address, flags) ==
  IF ~MapToAccepts(virtual_address, physical_address, physical_end_address) THEN t
  ELSE LET n == (physical_end_address - physical_address) \div PAGING_PAGE_SIZE
       IN  paging_map_range(t, d, virtual_address, physical_address,
                            IF n > 1 THEN n - 1 ELSE n, flags)

paging_map_to(t, d, virtual_address, physical_address, physical_end_address, flags) ==
  IF ~MapToAccepts(virtual_address, physical_address, physical_end_address) THEN t
  ELSE paging_map_range(t, d, virtual_address, physical_address,
         (physical_end_address - physical_address) \div PAGING_PAGE_SIZE, flags)

\* Mutant: the offset is advanced before the table is filled.
paging_new_4gb_ahead(t, blocks, flags) ==
  LET table(i) == [j \in Index |-> (i + 1) * TableSpan + j * PAGING_PAGE_SIZE + flags]
      directory == [i \in Index |-> blocks[i + 2] + flags + PAGING_IS_WRITEABLE]
      written(a) == IF a = blocks[1] THEN directory
                    ELSE table((CHOOSE i \in Index : blocks[i + 2] = a))
      used == {blocks[k] : k \in 1 .. PAGING_TOTAL_ENTRIES_PER_TABLE + 1}
  IN  [a \in DOMAIN t \cup used |-> IF a \in used THEN written(a) ELSE t[a]]

\* paging_new_4gb in the blocks it was given: the directory is in blocks[1],
\* the table of index i in blocks[i + 2]; every page is mapped to itself.
paging_new_4gb(t, blocks, flags) ==
  LET table(i) == [j \in Index |-> i * TableSpan + j * PAGING_PAGE_SIZE + flags]
      directory == [i \in Index |-> blocks[i + 2] + flags
                     + (IF Has(flags, PAGING_IS_WRITEABLE) THEN 0
                        ELSE PAGING_IS_WRITEABLE)]
      written(a) == IF a = blocks[1] THEN directory
                    ELSE table((CHOOSE i \in Index : blocks[i + 2] = a))
      used == {blocks[k] : k \in 1 .. PAGING_TOTAL_ENTRIES_PER_TABLE + 1}
  IN  [a \in DOMAIN t \cup used |-> IF a \in used THEN written(a) ELSE t[a]]

\* The blocks that paging_free_4gb gives back: what the directory's words
\* name, and the directory itself.
TablesOf(t, d) == {Frame(t[d][i]) : i \in Index} \cup {d}

paging_free_4gb(t, d) == [a \in DOMAIN t \ TablesOf(t, d) |-> t[a]]

\* The translation of every page, as the processor finds it.
Translation(t, d) == [page \in Page |-> paging_get(t, d, page)]
==============================================================================
