-------------------------- MODULE AddressSpaceProofs --------------------------
(***************************************************************************)
(* Proofs about the page tables and the address spaces made of them, for   *)
(* every page size and table length, any heap, any number of processes,    *)
(* any requests and any files that are laid out as AddressSpace assumes.   *)
(***************************************************************************)
EXTENDS AddressSpace, TLAPS, NaturalsInduction, WellFoundedInduction

P == PAGING_PAGE_SIZE

E == PAGING_TOTAL_ENTRIES_PER_TABLE

------------------------------------------------------------------------------
(* Where the kernel is. *)

Kernel == {"kernel", "mapping", "loaded", "done", "copied", "exception", "panic"}

\* A directory of a program is loaded as long as the program runs or its
\* string is copied, and it is the directory of the current process; a
\* process is there while it is current or is being loaded.
Control ==
  /\ current \in Process \cup {KERNEL} /\ cr3 \in Process \cup {KERNEL}
  /\ pc \in Kernel \cup {"user", "reading"}
  /\ pc \in Kernel => cr3 = KERNEL
  /\ pc \in {"user", "reading"} => cr3 = current
  /\ pc \in {"user", "reading", "done", "copied", "exception"} => current # KERNEL
  /\ current # KERNEL /\ pc # "panic" => current \in Live
  /\ pc \in {"mapping", "loaded"} => next.p \in Live
  /\ pc \notin {"mapping", "loaded"} => next.p = KERNEL

------------------------------------------------------------------------------
(* The heap and its owners. *)

\* Blocks do not overlap and do not leave the heap.
HeapOK(h) ==
  /\ DOMAIN h \subseteq HeapPages
  /\ h \in [DOMAIN h -> Nat \ {0}]
  /\ \A a \in DOMAIN h : PagesFrom(a, h[a]) \subseteq HeapPages
  /\ \A a, b \in DOMAIN h : a # b => PagesFrom(a, h[a]) \cap PagesFrom(b, h[b]) = {}

Span == [virtual_base : Nat, physical_base : Nat, virtual_end : Nat, physical_end : Nat]

Proc ==
  [filename : DOMAIN ImageOf \cup {""}, self : HeapPages \cup {NULL},
   elf_file : HeapPages \cup {NULL}, ptr : HeapPages \cup {NULL},
   stack : HeapPages \cup {NULL}, task : HeapPages \cup {NULL},
   chunk : HeapPages \cup {NULL}, directory : HeapPages \cup {NULL},
   ip : Nat, span : Span, allocations : SUBSET [ptr : HeapPages, size : Sizes]]

\* What a process owns besides its page tables.
Fixed(r) ==
  {r.self, r.ptr, r.stack, r.task, r.chunk} \cup ({r.elf_file} \ {NULL})

Data(r) == Fixed(r) \cup {a.ptr : a \in r.allocations}

\* The second level of a directory.
Leaves(t, d) == {Frame(t[d][i]) : i \in Index}

\* The words of a directory name a table each.
Directory(t, d) ==
  /\ d \in DOMAIN t
  /\ \A i \in Index : Frame(t[d][i]) \in DOMAIN t /\ Frame(t[d][i]) # d
  /\ \A i, j \in Index : i # j => Frame(t[d][i]) # Frame(t[d][j])

Tables(t) == t \in [DOMAIN t -> [Index -> Address]]

\* What the loader found out about the file.
Described(r) ==
  /\ r.elf_file # NULL <=> elf_validate_loaded(Image(r).header)
  /\ r.ip = IF r.elf_file # NULL THEN Image(r).header.entry
            ELSE OS_PROGRAM_VIRTUAL_ADDRESS
  /\ r.elf_file # NULL => r.span = elf_process_pheaders(r.ptr, Image(r).phdrs)

\* What a process that was loaded holds of a heap h with the tables t.
Holds(h, t, r) ==
  /\ r.filename \in DOMAIN ImageOf
  /\ {r.self, r.ptr, r.stack, r.task, r.chunk, r.directory} \subseteq HeapPages
  /\ Described(r)
  /\ Data(r) \subseteq DOMAIN h \ DOMAIN t
  /\ h[r.ptr] = Pages(Image(r).size)
  /\ h[r.stack] = Pages(OS_USER_PROGRAM_VIRTUAL_STACK_SIZE)
  /\ \A a \in r.allocations : a.ptr \notin Fixed(r) /\ h[a.ptr] = Pages(a.size)
  /\ \A a, b \in r.allocations : a.ptr = b.ptr => a = b
  /\ Directory(t, r.directory)

LiveIn(ps) == {p \in Process : ps[p].self # NULL}

\* No two processes of ps have a block in common, and every table is one's.
OwnedIn(h, t, ps) ==
  /\ HeapOK(h)
  /\ ps \in [Process -> Proc]
  /\ \A p \in LiveIn(ps) : Holds(h, t, ps[p])
  /\ \A p, q \in LiveIn(ps) : p # q =>
       /\ Data(ps[p]) \cap Data(ps[q]) = {}
       /\ TablesOf(t, ps[p].directory) \cap TablesOf(t, ps[q].directory) = {}
  /\ Tables(t) /\ DOMAIN t \subseteq DOMAIN h
  /\ DOMAIN t = UNION {TablesOf(t, ps[p].directory) : p \in LiveIn(ps)}

\* A block that the kernel has taken for itself.
Unowned(h, t, ps, x) ==
  x \in DOMAIN h \ DOMAIN t /\ \A p \in LiveIn(ps) : x \notin Data(ps[p])

Owned ==
  /\ OwnedIn(heap, table, process)
  /\ pc = "reading" => Unowned(heap, table, process, copy.tmp)

------------------------------------------------------------------------------
(* What is mapped. *)

\* The memory behind an area of a file, and how it may be used.
At(r, k) ==
  IF k > Segments(Image(r)) THEN r.stack
  ELSE IF r.elf_file # NULL
  THEN r.ptr + paging_align_to_lower_page(Image(r).phdrs[k].offset)
  ELSE r.ptr

AreaFlags(r, k) ==
  IF k <= Segments(Image(r)) /\ r.elf_file # NULL /\ ~Image(r).phdrs[k].write
  THEN InitialFlags ELSE UserWritable

In(r, k, v) ==
  LET area == Area(Image(r), k)
  IN  area.first <= v /\ v < area.first + area.pages * P

AreaWord(r, k, v) == At(r, k) + (v - Area(Image(r), k).first) + AreaFlags(r, k)

\* Outside the heap the first n areas are mapped and everything else is mapped
\* to itself.
AreasMapped(r, m, n) ==
  \A v \in Page \ HeapPages :
    /\ \A k \in 1 .. n : In(r, k, v) => m[v] = AreaWord(r, k, v)
    /\ (\A k \in 1 .. n : ~In(r, k, v)) => m[v] = v + InitialFlags

AllocPages(r) == UNION {PagesFrom(a.ptr, Pages(a.size)) : a \in r.allocations}

\* The heap is mapped to itself; writable is what malloc gave, and only what
\* was given back may be gone.
HeapMapped(r, m) ==
  \A v \in HeapPages :
    /\ m[v] \in {v, v + InitialFlags, v + UserWritable}
    /\ m[v] = v + UserWritable <=> v \in AllocPages(r)

\* What the kernel reads on the way to a program.
Pinned(r, m) == \A v \in {r.task, r.chunk} : m[v] = v + InitialFlags

Done(p) ==
  IF pc = "mapping" /\ next.p = p THEN next.header - 1
  ELSE Segments(Image(process[p])) + 1

\* The map of p without what copy_string_from_task put in it for a moment.
View(p) ==
  IF pc = "reading" /\ p = current THEN [Map(p) EXCEPT ![copy.tmp] = copy.old_entry]
  ELSE Map(p)

MappedFor(p) ==
  /\ AreasMapped(process[p], Map(p), Done(p))
  /\ Pinned(process[p], Map(p))
  /\ ~(p = current /\ pc = "exception") => HeapMapped(process[p], View(p))

Mapped ==
  /\ \A p \in Live : MappedFor(p)
  /\ pc = "mapping" => next.header \in 1 .. Segments(Image(process[next.p])) + 1
  /\ pc = "reading" => Map(current)[copy.tmp] = copy.tmp + UserWritable

IInv == Control /\ Owned /\ Mapped /\ NoStaleTranslation

------------------------------------------------------------------------------
(* Arithmetic. *)

LEMMA DivMod ==
  ASSUME NEW a \in Nat, NEW b \in Nat \ {0}
  PROVE  /\ a \div b \in Nat /\ a % b \in 0 .. b - 1
         /\ a = (b * (a \div b)) + (a % b)
<1>1. PICK q, r : q = a \div b /\ r = a % b
  OBVIOUS
<1>2. q \in Int /\ r \in 0 .. b - 1 /\ a = b * q + r
  BY <1>1
<1>3. ~(q < 0)
  <2> SUFFICES ASSUME q < 0 PROVE FALSE
    OBVIOUS
  <2>1. b * q <= -b
    BY <1>2
  <2> QED
    BY <1>2, <2>1
<1> QED
  BY <1>1, <1>2, <1>3

LEMMA Multiple ==
  ASSUME NEW a \in Nat, NEW b \in Nat \ {0}, a % b = 0
  PROVE  \E n \in Nat : a = b * n
<1>1. PICK q, r : q = a \div b /\ r = a % b
  OBVIOUS
<1>2. q \in Nat /\ r = 0 /\ a = b * q + r
  BY <1>1, DivMod
<1> QED
  BY <1>2

LEMMA TimesOrder ==
  ASSUME NEW x \in Int, NEW y \in Int, NEW b \in Nat \ {0}, x < y
  PROVE  x * b + b <= y * b
BY SMT

LEMMA DivUnique ==
  ASSUME NEW a \in Nat, NEW b \in Nat \ {0}, NEW q \in Nat, NEW r \in 0 .. b - 1,
         a = q * b + r
  PROVE  a \div b = q /\ a % b = r
BY SMT

LEMMA Constants ==
  /\ P \in Nat \ {0} /\ P >= 8 /\ E \in Nat \ {0}
  /\ TableSpan \in Nat \ {0} /\ TableSpan = E * P /\ TableSpan >= P
  /\ WORD \in Nat \ {0} /\ WORD = E * TableSpan /\ WORD = (E * E) * P /\ WORD >= P
  /\ WORD \div P = E * E
  /\ Page = {n * P : n \in 0 .. E * E - 1}
<1>1. P \in Nat /\ P >= 8 /\ E \in Nat \ {0} /\ TableSpan = E * P /\ WORD = E * TableSpan
  BY PageAssumption, TableAssumption DEF P, E, TableSpan, WORD
<1>2. TableSpan \in Nat /\ TableSpan >= P
  BY <1>1
<1>3. WORD \in Nat /\ WORD >= TableSpan /\ WORD = (E * E) * P
  BY <1>1, <1>2
<1>4. WORD \div P = E * E
  <2>1. PICK q, b, a : q = E * E /\ b = P /\ a = WORD
    OBVIOUS
  <2>2. q \in Nat /\ b \in Nat \ {0} /\ a \in Nat /\ a = q * b + 0 /\ 0 \in 0 .. b - 1
    BY <1>1, <1>3, <2>1
  <2> QED
    BY <2>1, <2>2, DivUnique
<1>5. Page = {n * P : n \in 0 .. E * E - 1}
  BY <1>4 DEF Page, P
<1> QED
  BY <1>1, <1>2, <1>3, <1>4, <1>5

\* The addresses where pages start.
LEMMA PageAddress ==
  ASSUME NEW v
  PROVE  v \in Page <=> v \in Nat /\ v % P = 0 /\ v < WORD
<1>1. ASSUME v \in Page PROVE v \in Nat /\ v % P = 0 /\ v < WORD
  <2>1. PICK n \in 0 .. E * E - 1 : v = n * P
    BY <1>1, Constants
  <2>2. n \in Int /\ E * E \in Int /\ n < E * E /\ n >= 0
    BY <2>1, Constants
  <2>3. n * P + P <= (E * E) * P
    <3>1. P \in Nat \ {0}
      BY Constants
    <3> QED
      BY <2>2, <3>1, TimesOrder
  <2>4. v \in Nat /\ v = n * P + 0 /\ 0 \in 0 .. P - 1
    BY <2>1, <2>2, Constants
  <2> QED
    BY <2>1, <2>2, <2>3, <2>4, Constants, DivUnique
<1>2. ASSUME v \in Nat, v % P = 0, v < WORD PROVE v \in Page
  <2>1. PICK n \in Nat : v = P * n
    BY <1>2, Constants, Multiple
  <2>2. n < E * E
    <3> SUFFICES ASSUME E * E <= n PROVE FALSE
      BY Constants
    <3>1. (E * E) * P <= n * P
      BY Constants
    <3> QED
      BY <1>2, <2>1, <3>1, Constants
  <2> QED
    BY <2>1, <2>2, Constants
<1> QED
  BY <1>1, <1>2

\* A page has one entry, and an entry one page.
LEMMA Indexes ==
  ASSUME NEW v \in Page, NEW ix, ix = paging_get_indexes(v)
  PROVE  /\ paging_is_aligned(v)
         /\ ix.directory \in Index /\ ix.table \in Index
         /\ v = ix.directory * TableSpan + ix.table * P
<1>1. v \in Nat /\ v % P = 0 /\ v < WORD
  BY PageAddress
<1>2. paging_is_aligned(v)
  BY <1>1 DEF paging_is_aligned, P
<1>3. PICK i, j, r : i = v \div TableSpan /\ r = v % TableSpan /\ j = r \div P
  OBVIOUS
<1>4. ix.directory = i /\ ix.table = j
  BY <1>2, <1>3 DEF paging_get_indexes, P
<1>5. i \in Nat /\ r \in Nat /\ r < TableSpan /\ v = TableSpan * i + r
  <2>1. TableSpan \in Nat \ {0}
    BY Constants
  <2>2. i \in Nat /\ r \in 0 .. TableSpan - 1 /\ v = (TableSpan * i) + r
    BY <1>1, <1>3, <2>1, DivMod
  <2> QED
    BY <2>1, <2>2
<1>6. PICK n \in Nat : v = P * n
  BY <1>1, Constants, Multiple
<1>7. j \in Nat /\ r = (P * j) + (r % P) /\ r % P \in 0 .. P - 1
  BY <1>3, <1>5, Constants, DivMod
<1>8. r % P = 0
  <2>1. r = P * (n - E * i)
    BY <1>5, <1>6, Constants
  <2>2. n - E * i \in Int
    BY <1>5, Constants
  <2>3. n - E * i >= 0
    <3> SUFFICES ASSUME n - E * i < 0 PROVE FALSE
      BY <2>2
    <3>1. P * (n - E * i) < 0
      BY <2>2, Constants
    <3> QED
      BY <1>5, <2>1, <3>1
  <2>4. PICK q \in Nat : q = n - E * i
    BY <2>2, <2>3
  <2>5. r = q * P + 0 /\ 0 \in 0 .. P - 1
    BY <2>1, <2>4, Constants
  <2> QED
    BY <1>5, <2>5, Constants, DivUnique
<1>9. i < E
  <2> SUFFICES ASSUME E <= i PROVE FALSE
    BY <1>5, Constants
  <2>1. E * TableSpan <= TableSpan * i
    BY <1>5, Constants
  <2> QED
    BY <1>1, <1>5, <2>1, Constants
<1>10. j < E
  <2> SUFFICES ASSUME E <= j PROVE FALSE
    BY <1>7, Constants
  <2>1. E * P <= P * j
    BY <1>7, Constants
  <2> QED
    BY <1>5, <1>7, <2>1, Constants
<1>11. i \in Index /\ j \in Index
  BY <1>5, <1>7, <1>9, <1>10, Constants DEF Index, E
<1>12. v = i * TableSpan + j * P
  BY <1>5, <1>7, <1>8, Constants
<1> QED
  BY <1>2, <1>4, <1>11, <1>12

Aligned(a) == a \in Nat /\ a % P = 0

LEMMA AlignedTimes == ASSUME NEW n \in Nat PROVE Aligned(n * P)
<1>1. PICK a : a = n * P
  OBVIOUS
<1>2. a \in Nat /\ a = (n * P) + 0 /\ 0 \in 0 .. P - 1 /\ P \in Nat \ {0}
  BY <1>1, Constants
<1>3. a % P = 0
  BY <1>2, DivUnique
<1> QED
  BY <1>1, <1>2, <1>3 DEF Aligned

LEMMA AlignedIs ==
  ASSUME NEW a, Aligned(a)
  PROVE  \E n \in Nat : a = n * P
<1>1. a \in Nat /\ a % P = 0 /\ P \in Nat \ {0}
  BY Constants DEF Aligned
<1>2. PICK n \in Nat : a = P * n
  BY <1>1, Multiple
<1>3. a = n * P
  BY <1>1, <1>2
<1> QED
  BY <1>3

\* Aligned addresses are closed under sums and differences and are at least a
\* page apart.
LEMMA AlignedArithmetic ==
  ASSUME NEW a, Aligned(a), NEW b, Aligned(b)
  PROVE  /\ a \in Nat /\ b \in Nat
         /\ Aligned(a + b)
         /\ b <= a => Aligned(a - b)
         /\ a < b => a + P <= b
<1>1. PICK m \in Nat : a = m * P
  BY AlignedIs
<1>2. PICK n \in Nat : b = n * P
  BY AlignedIs
<1>3. P \in Nat \ {0}
  BY Constants
<1>4. a \in Nat /\ b \in Nat
  BY <1>1, <1>2, <1>3
<1>5. Aligned(a + b)
  <2>1. a + b = (m + n) * P /\ m + n \in Nat
    BY <1>1, <1>2, <1>3
  <2> QED
    BY <2>1, AlignedTimes
<1>6. ASSUME b <= a PROVE Aligned(a - b)
  <2>1. ~(m < n)
    <3> SUFFICES ASSUME m < n PROVE FALSE
      OBVIOUS
    <3>1. m * P + P <= n * P
      BY <1>3, TimesOrder
    <3> QED
      BY <1>1, <1>2, <1>3, <1>4, <1>6, <3>1
  <2>2. a - b = (m - n) * P /\ m - n \in Nat
    BY <1>1, <1>2, <1>3, <2>1
  <2> QED
    BY <2>2, AlignedTimes
<1>7. ASSUME a < b PROVE a + P <= b
  <2>1. m < n
    <3> SUFFICES ASSUME n <= m PROVE FALSE
      OBVIOUS
    <3>1. n * P <= m * P
      BY <1>3
    <3> QED
      BY <1>1, <1>2, <1>4, <1>7, <3>1
  <2>2. m * P + P <= n * P
    BY <1>3, <2>1, TimesOrder
  <2> QED
    BY <1>1, <1>2, <2>2
<1> QED
  BY <1>4, <1>5, <1>6, <1>7

\* A word is an address and flags.
LEMMA WordParts ==
  ASSUME NEW a, Aligned(a), NEW f \in 0 .. 7
  PROVE  Flags(a + f) = f /\ Frame(a + f) = a
<1>1. PICK n \in Nat : a = n * P
  BY AlignedIs
<1>2. a \in Nat /\ f \in 0 .. P - 1 /\ P \in Nat \ {0}
  BY Constants DEF Aligned
<1>3. PICK w : w = a + f
  OBVIOUS
<1>4. w \in Nat /\ w = n * P + f
  BY <1>1, <1>2, <1>3
<1>5. w % P = f
  BY <1>2, <1>4, DivUnique
<1> QED
  BY <1>2, <1>3, <1>5 DEF Flags, Frame, P

LEMMA FlagBits ==
  ASSUME NEW w
  PROVE  /\ Flags(w) = 0 => ~Has(w, PAGING_IS_PRESENT)
         /\ Flags(w) = InitialFlags =>
              /\ Has(w, PAGING_IS_PRESENT) /\ Has(w, PAGING_ACCESS_FROM_ALL)
              /\ ~Has(w, PAGING_IS_WRITEABLE)
         /\ Flags(w) = UserWritable =>
              /\ Has(w, PAGING_IS_PRESENT) /\ Has(w, PAGING_ACCESS_FROM_ALL)
              /\ Has(w, PAGING_IS_WRITEABLE)
<1>1. PICK f : f = Flags(w)
  OBVIOUS
<1>2. f = 0 => ~((f \div 1) % 2 = 1)
  OBVIOUS
<1>3. f = 5 => (f \div 1) % 2 = 1 /\ (f \div 4) % 2 = 1 /\ ~((f \div 2) % 2 = 1)
  OBVIOUS
<1>4. f = 7 => (f \div 1) % 2 = 1 /\ (f \div 4) % 2 = 1 /\ (f \div 2) % 2 = 1
  OBVIOUS
<1>5. InitialFlags = 5 /\ UserWritable = 7
  BY DEF InitialFlags, UserWritable, PAGING_IS_PRESENT, PAGING_ACCESS_FROM_ALL, PAGING_IS_WRITEABLE
<1> QED
  BY <1>1, <1>2, <1>3, <1>4, <1>5
     DEF Has, PAGING_IS_PRESENT, PAGING_ACCESS_FROM_ALL, PAGING_IS_WRITEABLE

LEMMA AlignLower ==
  ASSUME NEW a \in Nat, NEW d, d = paging_align_to_lower_page(a)
  PROVE  Aligned(d) /\ d <= a /\ a < d + P /\ a - d = a % P
<1>1. P \in Nat \ {0}
  BY Constants
<1>2. PICK q, r : q = a \div P /\ r = a % P
  OBVIOUS
<1>3. q \in Nat /\ r \in 0 .. P - 1 /\ a = (P * q) + r
  BY <1>1, <1>2, DivMod
<1>4. d = a - r
  BY <1>2 DEF paging_align_to_lower_page, P
<1>5. d = q * P
  BY <1>1, <1>3, <1>4
<1>6. d <= a /\ a < d + P /\ a - d = r
  BY <1>1, <1>3, <1>4
<1>7. Aligned(d)
  BY <1>3, <1>5, AlignedTimes
<1> QED
  BY <1>2, <1>6, <1>7

LEMMA AlignUpper ==
  ASSUME NEW a \in Nat, a <= WORD - P, NEW u, u = paging_align_address(a)
  PROVE  Aligned(u) /\ a <= u /\ u < a + P
<1>1. P \in Nat \ {0} /\ WORD \in Nat
  BY Constants
<1>2. CASE paging_is_aligned(a)
  BY <1>1, <1>2 DEF paging_align_address, paging_is_aligned, Aligned, P
<1>3. CASE ~paging_is_aligned(a)
  <2>1. PICK q, r : q = a \div P /\ r = a % P
    OBVIOUS
  <2>2. q \in Nat /\ r \in 0 .. P - 1 /\ a = (P * q) + r
    BY <1>1, <2>1, DivMod
  <2>3. r # 0
    BY <1>3, <2>1 DEF paging_is_aligned, P
  <2>4. PICK s : s = a + P - r
    OBVIOUS
  <2>5. s \in Nat /\ s < WORD /\ a <= s /\ s < a + P
    BY <1>1, <2>2, <2>3, <2>4
  <2>6. u = s % WORD
    BY <1>3, <2>1, <2>4 DEF paging_align_address, P
  <2>7. u = s
    BY <1>1, <2>5, <2>6
  <2>8. s = (q + 1) * P /\ q + 1 \in Nat
    BY <1>1, <2>2, <2>4
  <2> QED
    BY <2>5, <2>7, <2>8, AlignedTimes
<1> QED
  BY <1>2, <1>3

LEMMA PageAligned == ASSUME NEW v PROVE v \in Page <=> Aligned(v) /\ v < WORD
BY PageAddress DEF Aligned

\* A size in pages.
LEMMA SizeInPages ==
  ASSUME NEW size \in 1 .. WORD - P, NEW n, n = Pages(size)
  PROVE  n \in Nat \ {0} /\ n * P = paging_align_address(size) /\ size <= n * P /\ n * P < size + P
<1>1. P \in Nat \ {0} /\ WORD \in Nat
  BY Constants
<1>2. size \in Nat /\ size >= 1 /\ size <= WORD - P
  BY <1>1
<1>3. PICK u : u = paging_align_address(size)
  OBVIOUS
<1>4. Aligned(u) /\ size <= u /\ u < size + P
  BY <1>2, <1>3, AlignUpper
<1>5. PICK m \in Nat : u = m * P
  BY <1>4, AlignedIs
<1>6. u \in Nat /\ u = m * P + 0 /\ 0 \in 0 .. P - 1
  BY <1>1, <1>5
<1>7. u \div P = m
  BY <1>1, <1>6, DivUnique
<1>8. n = m
  BY <1>3, <1>7 DEF Pages, P
<1>9. m # 0
  BY <1>1, <1>2, <1>4, <1>5
<1> QED
  BY <1>3, <1>4, <1>5, <1>8, <1>9

LEMMA PagesFromIs ==
  ASSUME NEW a, Aligned(a), NEW n \in Nat, NEW x
  PROVE  x \in PagesFrom(a, n) <=> Aligned(x) /\ a <= x /\ x < a + n * P
<1>1. P \in Nat \ {0} /\ a \in Nat
  BY Constants DEF Aligned
<1>2. ASSUME x \in PagesFrom(a, n) PROVE Aligned(x) /\ a <= x /\ x < a + n * P
  <2>1. PICK i \in 0 .. n - 1 : x = a + i * P
    BY <1>2 DEF PagesFrom, P
  <2>2. i \in Nat /\ i < n
    OBVIOUS
  <2>3. i * P + P <= n * P /\ i * P \in Nat
    BY <1>1, <2>2, TimesOrder
  <2>4. Aligned(i * P)
    BY <2>2, AlignedTimes
  <2>5. Aligned(a + i * P)
    BY <2>4, AlignedArithmetic
  <2>6. a <= a + i * P /\ a + i * P < a + n * P
    BY <1>1, <2>3
  <2> QED
    BY <2>1, <2>5, <2>6
<1>3. ASSUME Aligned(x), a <= x, x < a + n * P PROVE x \in PagesFrom(a, n)
  <2>1. Aligned(x - a) /\ x \in Nat
    BY <1>3, AlignedArithmetic
  <2>2. PICK i \in Nat : x - a = i * P
    BY <2>1, AlignedIs
  <2>3. i < n
    <3> SUFFICES ASSUME n <= i PROVE FALSE
      OBVIOUS
    <3>1. n * P <= i * P
      BY <1>1
    <3> QED
      BY <1>1, <1>3, <2>1, <2>2, <3>1
  <2>4. x = a + i * P /\ i \in 0 .. n - 1
    BY <1>1, <2>1, <2>2, <2>3
  <2> QED
    BY <2>4 DEF PagesFrom, P
<1> QED
  BY <1>2, <1>3

LEMMA HeapPagesAre ==
  /\ Aligned(HEAP_ADDRESS) /\ HEAP_ADDRESS # 0 /\ TABLE_TOTAL \in Nat
  /\ TABLE_TOTAL * P \in Nat /\ HEAP_ADDRESS + TABLE_TOTAL * P < WORD
  /\ HeapPages \subseteq Page
  /\ \A x : x \in HeapPages <=> Aligned(x) /\ HEAP_ADDRESS <= x /\ x < HEAP_ADDRESS + TABLE_TOTAL * P
  /\ NULL \notin HeapPages
<1>1. P \in Nat \ {0} /\ WORD \in Nat
  BY Constants
<1>2. /\ Aligned(HEAP_ADDRESS) /\ HEAP_ADDRESS # 0 /\ HEAP_ADDRESS \in Nat /\ TABLE_TOTAL \in Nat
      /\ HEAP_ADDRESS + TABLE_TOTAL * P < WORD
  BY HeapAssumption DEF Aligned, P
<1>3. TABLE_TOTAL * P \in Nat
  BY <1>1, <1>2
<1>4. \A x : x \in HeapPages <=> Aligned(x) /\ HEAP_ADDRESS <= x /\ x < HEAP_ADDRESS + TABLE_TOTAL * P
  BY <1>2, PagesFromIs DEF HeapPages
<1>5. \A x \in HeapPages : x \in Page
  <2> TAKE x \in HeapPages
  <2>1. Aligned(x) /\ x < HEAP_ADDRESS + TABLE_TOTAL * P /\ x \in Nat
    BY <1>4 DEF Aligned
  <2>2. x < WORD
    BY <1>1, <1>2, <1>3, <2>1
  <2> QED
    BY <2>1, <2>2, PageAligned
<1>6. NULL \notin HeapPages
  BY <1>2, <1>4 DEF NULL
<1> QED
  BY <1>2, <1>3, <1>4, <1>5, <1>6

LEMMA SmallWord ==
  ASSUME NEW x \in Nat, x < WORD
  PROVE  x % WORD = x
<1>1. WORD \in Nat
  BY Constants
<1> QED
  BY <1>1

\* The addresses of the heap leave room for flags.
LEMMA HeapWord ==
  ASSUME NEW x \in HeapPages
  PROVE  Aligned(x) /\ x \in Nat \ {0} /\ x \in Page /\ x + P < WORD /\ \A f \in 0 .. 7 : x + f \in Address
<1>1. /\ Aligned(x) /\ HEAP_ADDRESS <= x /\ x < HEAP_ADDRESS + TABLE_TOTAL * P
      /\ Aligned(HEAP_ADDRESS) /\ HEAP_ADDRESS # 0 /\ TABLE_TOTAL \in Nat
      /\ HEAP_ADDRESS + TABLE_TOTAL * P < WORD /\ x \in Page /\ TABLE_TOTAL * P \in Nat
  BY HeapPagesAre
<1>2. Aligned(HEAP_ADDRESS + TABLE_TOTAL * P)
  BY <1>1, AlignedTimes, AlignedArithmetic
<1>3. x + P <= HEAP_ADDRESS + TABLE_TOTAL * P /\ x \in Nat /\ HEAP_ADDRESS \in Nat
  BY <1>1, <1>2, AlignedArithmetic
<1>4. x + P < WORD /\ WORD \in Nat /\ P >= 8 /\ P \in Nat
  BY <1>1, <1>3, Constants
<1> QED
  BY <1>1, <1>3, <1>4 DEF Address

------------------------------------------------------------------------------
(* The heap. *)

LEMMA LeastExists ==
  ASSUME NEW S \in SUBSET Nat, S # {}
  PROVE  \E x \in S : \A y \in S : x <= y
<1> DEFINE R == OpToRel(<, Nat)
<1>1. \A y, z \in Nat : y < z => <<y, z>> \in R
  BY SMT DEF OpToRel
<1> HIDE DEF R
<1>2. IsWellFoundedOn(R, Nat)
  BY NatLessThanWellFounded DEF R
<1>3. PICK x \in S : \A y \in S : ~(<<y, x>> \in R)
  BY <1>2, WFMin
<1>4. \A y \in S : x <= y
  <2> SUFFICES ASSUME NEW y \in S PROVE ~(y < x)
    OBVIOUS
  <2>1. x \in Nat /\ y \in Nat
    OBVIOUS
  <2> QED
    BY <1>1, <1>3, <2>1
<1> QED
  BY <1>4

\* The heap g is h and a new block.
Added(h, g, ptr, n) ==
  /\ HeapOK(g)
  /\ ptr \in HeapPages \ DOMAIN h
  /\ DOMAIN g = DOMAIN h \cup {ptr}
  /\ g[ptr] = n
  /\ \A a \in DOMAIN h : g[a] = h[a]

LEMMA HeapBlocks ==
  ASSUME NEW h, HeapOK(h), NEW a \in DOMAIN h
  PROVE  /\ h[a] \in Nat \ {0}
         /\ a \in PagesFrom(a, h[a]) /\ a \in HeapPages
<1>1. h[a] \in Nat \ {0} /\ PagesFrom(a, h[a]) \subseteq HeapPages
  BY DEF HeapOK
<1>2. PICK n : n = h[a]
  OBVIOUS
<1>3. a + 0 * P \in PagesFrom(a, n)
  <2>1. 0 \in 0 .. n - 1
    BY <1>1, <1>2
  <2> QED
    BY <2>1 DEF PagesFrom, P
<1>4. 0 * P = 0
  BY Constants
<1>5. a \in HeapPages
  BY DEF HeapOK
<1>6. a \in Nat
  BY <1>5, HeapWord
<1> QED
  BY <1>1, <1>2, <1>3, <1>4, <1>5, <1>6

LEMMA Zalloc ==
  ASSUME NEW h, HeapOK(h), NEW size \in 1 .. WORD - P, Fits(h, size),
         NEW z, z = kernel_zalloc(h, size)
  PROVE  Added(h, z.heap, z.ptr, Pages(size))
<1>1. PICK n : n = Pages(size)
  OBVIOUS
<1>2. n \in Nat \ {0}
  BY <1>1, SizeInPages
<1>3. PICK free : free = HeapPages \ Taken(h)
  OBVIOUS
<1>4. PICK runs : runs = {ptr \in free : PagesFrom(ptr, n) \subseteq free}
  OBVIOUS
<1>5. runs = Runs(h, n)
  BY <1>3, <1>4 DEF Runs
<1>6. runs # {}
  BY <1>1, <1>5 DEF Fits
<1>7. runs \in SUBSET Nat
  BY <1>3, <1>4, HeapWord
<1>8. PICK ptr : ptr = CHOOSE a \in runs : \A b \in runs : a <= b
  OBVIOUS
<1>9. ptr \in runs
  BY <1>6, <1>7, <1>8, LeastExists
<1>10. /\ z.ptr = ptr
       /\ z.heap = [a \in DOMAIN h \cup {ptr} |-> IF a = ptr THEN n ELSE h[a]]
  BY <1>1, <1>5, <1>8 DEF kernel_zalloc
<1>11. PICK g : g = z.heap
  OBVIOUS
<1>12. \A a \in DOMAIN h : PagesFrom(a, h[a]) \cap PagesFrom(ptr, n) = {}
  BY <1>3, <1>4, <1>9 DEF Taken
<1>13. ptr \notin DOMAIN h
  <2> SUFFICES ASSUME ptr \in DOMAIN h PROVE FALSE
    OBVIOUS
  <2>1. ptr \in PagesFrom(ptr, h[ptr])
    BY HeapBlocks
  <2> QED
    BY <1>3, <1>4, <1>9, <2>1 DEF Taken
<1>14. DOMAIN g = DOMAIN h \cup {ptr} /\ g[ptr] = n /\ \A a \in DOMAIN h : g[a] = h[a]
  BY <1>10, <1>11, <1>13
<1>15. g \in [DOMAIN g -> Nat \ {0}]
  <2>1. \A a \in DOMAIN g : g[a] \in Nat \ {0}
    BY <1>2, <1>14 DEF HeapOK
  <2> QED
    BY <1>10, <1>11, <1>14, <2>1
<1>16. \A a \in DOMAIN g : PagesFrom(a, g[a]) \subseteq HeapPages
  BY <1>3, <1>4, <1>9, <1>14 DEF HeapOK
<1>17. \A a, b \in DOMAIN g : a # b => PagesFrom(a, g[a]) \cap PagesFrom(b, g[b]) = {}
  BY <1>12, <1>14 DEF HeapOK
<1>18. HeapOK(g)
  BY <1>3, <1>4, <1>9, <1>14, <1>15, <1>16, <1>17 DEF HeapOK
<1> QED
  BY <1>1, <1>3, <1>4, <1>9, <1>10, <1>11, <1>13, <1>14, <1>18 DEF Added

\* kernel_free leaves the other blocks alone.
LEMMA FreeHeap ==
  ASSUME NEW h, HeapOK(h), NEW S
  PROVE  /\ HeapOK(kernel_free(h, S))
         /\ DOMAIN kernel_free(h, S) = DOMAIN h \ S
         /\ \A a \in DOMAIN h \ S : kernel_free(h, S)[a] = h[a]
<1>1. PICK g : g = kernel_free(h, S)
  OBVIOUS
<1>2. g = [a \in DOMAIN h \ S |-> h[a]]
  BY <1>1 DEF kernel_free
<1>3. DOMAIN g = DOMAIN h \ S /\ \A a \in DOMAIN h \ S : g[a] = h[a]
  BY <1>2
<1>4. HeapOK(g)
  BY <1>2, <1>3 DEF HeapOK
<1> QED
  BY <1>1, <1>3, <1>4

------------------------------------------------------------------------------
(* Several requests in a row. *)

Nothing(h) == [heap |-> h, ptrs |-> << >>, ok |-> TRUE]

GrabOne(g, size) ==
  IF ~g.ok \/ ~Fits(g.heap, size) THEN [g EXCEPT !.ok = FALSE]
  ELSE LET z == kernel_zalloc(g.heap, size)
       IN  [heap |-> z.heap, ok |-> TRUE, ptrs |-> Append(g.ptrs, z.ptr)]

\* f[i] is what i requests have come to.
Grabs(h, sizes, k, f) ==
  f = [i \in 0 .. k |-> IF i = 0 THEN Nothing(h) ELSE GrabOne(f[i - 1], sizes[i])]

LEMMA GrabsExists ==
  ASSUME NEW h, NEW sizes, NEW n \in Nat
  PROVE  \E f : Grabs(h, sizes, n, f)
<1> DEFINE S == {k \in Nat : ~\E f : Grabs(h, sizes, k, f)}
<1> SUFFICES ASSUME S # {} PROVE FALSE
  OBVIOUS
<1>1. S \in SUBSET Nat
  OBVIOUS
<1>2. PICK k \in S : \A j \in S : k <= j
  BY <1>1, LeastExists
<1>3. CASE k = 0
  <2>1. PICK f : f = [i \in 0 .. k |-> Nothing(h)]
    OBVIOUS
  <2>2. \A i \in 0 .. k : i = 0
    BY <1>3
  <2>3. f = [i \in 0 .. k |-> IF i = 0 THEN Nothing(h) ELSE GrabOne(f[i - 1], sizes[i])]
    BY <2>1, <2>2
  <2> QED
    BY <2>3 DEF Grabs
<1>4. CASE k # 0
  <2>1. k - 1 \in Nat /\ k - 1 \notin S
    BY <1>2, <1>4
  <2>2. PICK g : Grabs(h, sizes, k - 1, g)
    BY <2>1
  <2>3. PICK f : f = [i \in 0 .. k |-> IF i = k THEN GrabOne(g[k - 1], sizes[k]) ELSE g[i]]
    OBVIOUS
  <2>4. \A i \in 0 .. k - 1 : g[i] = IF i = 0 THEN Nothing(h) ELSE GrabOne(g[i - 1], sizes[i])
    BY <2>2 DEF Grabs
  <2>5. \A i \in 0 .. k : f[i] = IF i = 0 THEN Nothing(h) ELSE GrabOne(f[i - 1], sizes[i])
    <3> SUFFICES ASSUME NEW i \in 0 .. k
                 PROVE  f[i] = IF i = 0 THEN Nothing(h) ELSE GrabOne(f[i - 1], sizes[i])
      OBVIOUS
    <3>1. CASE i = k
      <4>1. k - 1 \in 0 .. k /\ k - 1 # k /\ k \in 0 .. k
        BY <2>1
      <4>2. f[k] = GrabOne(g[k - 1], sizes[k]) /\ f[k - 1] = g[k - 1]
        BY <2>3, <4>1
      <4> QED
        BY <1>4, <3>1, <4>2
    <3>2. CASE i # k
      <4>1. i \in 0 .. k - 1 /\ f[i] = g[i]
        BY <2>1, <2>3, <3>2
      <4>2. CASE i = 0
        BY <2>4, <4>1, <4>2
      <4>3. CASE i # 0
        <5>1. i - 1 \in 0 .. k /\ i - 1 # k
          BY <2>1, <4>1, <4>3
        <5>2. f[i - 1] = g[i - 1]
          BY <2>3, <5>1
        <5> QED
          BY <2>4, <4>1, <4>3, <5>2
      <4> QED
        BY <4>2, <4>3
    <3> QED
      BY <3>1, <3>2
  <2>6. f = [i \in 0 .. k |-> f[i]]
    BY <2>3
  <2>7. f = [i \in 0 .. k |-> IF i = 0 THEN Nothing(h) ELSE GrabOne(f[i - 1], sizes[i])]
    BY <2>5, <2>6
  <2> QED
    BY <2>7 DEF Grabs
<1> QED
  BY <1>3, <1>4

\* After k requests that were met: k new blocks, each in a place of its own.
NewBlocks(h, sizes, k, e, s) ==
  /\ HeapOK(e)
  /\ s \in Seq(HeapPages) /\ Len(s) = k
  /\ DOMAIN e = DOMAIN h \cup {s[i] : i \in 1 .. k}
  /\ \A a \in DOMAIN h : e[a] = h[a]
  /\ \A i \in 1 .. k : s[i] \notin DOMAIN h /\ e[s[i]] = Pages(sizes[i])
  /\ \A i, j \in 1 .. k : i # j => s[i] # s[j]

Grabbed(h, sizes, k, g) ==
  g.ok \in BOOLEAN /\ (g.ok => NewBlocks(h, sizes, k, g.heap, g.ptrs))

LEMMA GrabStep ==
  ASSUME NEW h, NEW sizes, NEW k \in Nat, NEW g, Grabbed(h, sizes, k, g),
         g = [heap |-> g.heap, ptrs |-> g.ptrs, ok |-> g.ok],
         sizes[k + 1] \in 1 .. WORD - P,
         NEW u, u = GrabOne(g, sizes[k + 1])
  PROVE  Grabbed(h, sizes, k + 1, u) /\ u = [heap |-> u.heap, ptrs |-> u.ptrs, ok |-> u.ok]
<1>1. PICK size : size = sizes[k + 1]
  OBVIOUS
<1>2. CASE ~g.ok \/ ~Fits(g.heap, size)
  <2>1. u = [g EXCEPT !.ok = FALSE]
    BY <1>1, <1>2 DEF GrabOne
  <2>2. u = [heap |-> g.heap, ptrs |-> g.ptrs, ok |-> FALSE]
    BY <2>1
  <2> QED
    BY <2>2 DEF Grabbed
<1>3. CASE g.ok /\ Fits(g.heap, size)
  <2>1. PICK e, s, z : e = g.heap /\ s = g.ptrs /\ z = kernel_zalloc(e, size)
    OBVIOUS
  <2>2. PICK f, x, t : f = z.heap /\ x = z.ptr /\ t = Append(s, x)
    OBVIOUS
  <2>3. u = [heap |-> f, ok |-> TRUE, ptrs |-> t]
    BY <1>1, <1>3, <2>1, <2>2 DEF GrabOne
  <2>4. u.heap = f /\ u.ok = TRUE /\ u.ptrs = t
    BY <2>3
  <2>5. /\ HeapOK(e) /\ s \in Seq(HeapPages) /\ Len(s) = k
        /\ DOMAIN e = DOMAIN h \cup {s[i] : i \in 1 .. k}
        /\ \A a \in DOMAIN h : e[a] = h[a]
        /\ \A i \in 1 .. k : s[i] \notin DOMAIN h /\ e[s[i]] = Pages(sizes[i])
        /\ \A i, j \in 1 .. k : i # j => s[i] # s[j]
    BY <1>3, <2>1 DEF Grabbed, NewBlocks
  <2>6. Added(e, z.heap, z.ptr, Pages(size))
    BY <1>1, <1>3, <2>1, <2>5, Zalloc
  <2>7. /\ HeapOK(f) /\ x \in HeapPages /\ x \notin DOMAIN e
        /\ DOMAIN f = DOMAIN e \cup {x} /\ f[x] = Pages(size) /\ \A a \in DOMAIN e : f[a] = e[a]
    BY <2>2, <2>6 DEF Added
  <2>8. /\ t \in Seq(HeapPages) /\ Len(t) = k + 1 /\ t[k + 1] = x
        /\ \A i \in 1 .. k : t[i] = s[i]
    BY <2>2, <2>5, <2>7
  <2>9. \A i \in 1 .. k + 1 : i \in 1 .. k \/ i = k + 1
    OBVIOUS
  <2>10. \A i \in 1 .. k : i \in 1 .. k + 1 /\ k + 1 \in 1 .. k + 1
    OBVIOUS
  <2>11. k + 1 \in 1 .. k + 1
    OBVIOUS
  <2>12. {t[i] : i \in 1 .. k + 1} = {s[i] : i \in 1 .. k} \cup {x}
    <3>1. \A y \in {t[i] : i \in 1 .. k + 1} : y \in {s[i] : i \in 1 .. k} \cup {x}
      BY <2>8, <2>9
    <3>2. \A y \in {s[i] : i \in 1 .. k} : y \in {t[i] : i \in 1 .. k + 1}
      BY <2>8, <2>10
    <3>3. x \in {t[i] : i \in 1 .. k + 1}
      BY <2>8, <2>11
    <3> QED
      BY <3>1, <3>2, <3>3
  <2>13. DOMAIN f = DOMAIN h \cup {t[i] : i \in 1 .. k + 1}
    BY <2>5, <2>7, <2>12
  <2>14. \A a \in DOMAIN h : f[a] = h[a]
    BY <2>5, <2>7
  <2>15. \A i \in 1 .. k : s[i] \in DOMAIN e
    BY <2>5
  <2>16. \A i \in 1 .. k + 1 : t[i] \notin DOMAIN h /\ f[t[i]] = Pages(sizes[i])
    BY <1>1, <2>5, <2>7, <2>8, <2>9, <2>15
  <2>17. \A i, j \in 1 .. k + 1 : i # j => t[i] # t[j]
    BY <2>5, <2>7, <2>8, <2>9, <2>15
  <2>18. NewBlocks(h, sizes, k + 1, f, t)
    BY <2>7, <2>8, <2>13, <2>14, <2>16, <2>17 DEF NewBlocks
  <2>19. Grabbed(h, sizes, k + 1, u)
    BY <2>4, <2>18 DEF Grabbed
  <2> QED
    BY <2>3, <2>4, <2>19
<1>4. g.ok \in BOOLEAN
  BY DEF Grabbed
<1> QED
  BY <1>2, <1>3, <1>4

LEMMA GrabAll ==
  ASSUME NEW h, HeapOK(h), NEW sizes, NEW k \in Nat, Len(sizes) = k,
         \A i \in 1 .. k : sizes[i] \in 1 .. WORD - P,
         NEW g, g = Grab(h, sizes)
  PROVE  Grabbed(h, sizes, k, g)
<1>1. PICK f : f = CHOOSE x : Grabs(h, sizes, k, x)
  OBVIOUS
<1>2. g = f[k]
  BY <1>1 DEF Grab, Grabs, GrabOne, Nothing
<1>3. Grabs(h, sizes, k, f)
  BY <1>1, GrabsExists
<1>4. \A i \in 0 .. k : f[i] = IF i = 0 THEN Nothing(h) ELSE GrabOne(f[i - 1], sizes[i])
  BY <1>3 DEF Grabs
<1> DEFINE Ok(i) == Grabbed(h, sizes, i, f[i])
                      /\ f[i] = [heap |-> f[i].heap, ptrs |-> f[i].ptrs, ok |-> f[i].ok]
<1> DEFINE S == {i \in 0 .. k : ~Ok(i)}
<1>5. S = {}
  <2> SUFFICES ASSUME S # {} PROVE FALSE
    OBVIOUS
  <2>1. S \in SUBSET Nat
    OBVIOUS
  <2>2. PICK i \in S : \A j \in S : i <= j
    BY <2>1, LeastExists
  <2>3. CASE i = 0
    <3>1. f[i] = Nothing(h)
      BY <1>4, <2>3
    <3>2. \A j : j \notin 1 .. 0
      OBVIOUS
    <3>3. {<< >>[j] : j \in 1 .. 0} = {}
      BY <3>2
    <3>4. << >> \in Seq(HeapPages) /\ Len(<< >>) = 0
      OBVIOUS
    <3>5. NewBlocks(h, sizes, 0, h, << >>)
      BY <3>2, <3>3, <3>4 DEF NewBlocks
    <3>6. Grabbed(h, sizes, 0, Nothing(h))
      BY <3>5 DEF Grabbed, Nothing
    <3> QED
      BY <2>2, <2>3, <3>1, <3>6 DEF Nothing
  <2>4. CASE i # 0
    <3>1. i - 1 \in 0 .. k /\ i - 1 \in Nat /\ i \in 0 .. k
      BY <2>2, <2>4
    <3>2. i - 1 \notin S
      BY <2>2, <3>1
    <3>3. PICK u, j : u = f[i - 1] /\ j = i - 1
      OBVIOUS
    <3>4. j + 1 = i /\ j \in Nat /\ i \in 1 .. k
      BY <2>4, <3>1, <3>3
    <3>5. Grabbed(h, sizes, j, u) /\ u = [heap |-> u.heap, ptrs |-> u.ptrs, ok |-> u.ok]
      BY <3>1, <3>2, <3>3
    <3>6. f[i] = GrabOne(u, sizes[j + 1])
      BY <1>4, <2>4, <3>1, <3>3, <3>4
    <3>7. sizes[j + 1] \in 1 .. WORD - P
      BY <3>4
    <3>8. Grabbed(h, sizes, j + 1, f[i]) /\ f[i] = [heap |-> f[i].heap, ptrs |-> f[i].ptrs, ok |-> f[i].ok]
      BY <3>4, <3>5, <3>6, <3>7, GrabStep
    <3> QED
      BY <2>2, <3>4, <3>8
  <2> QED
    BY <2>3, <2>4
<1>6. k \in 0 .. k
  OBVIOUS
<1> QED
  BY <1>2, <1>5, <1>6

------------------------------------------------------------------------------
(* Page tables. *)

\* The tables u are t except that directory d now has the translation m.
Remapped(t, u, d, m) ==
  /\ Tables(u) /\ DOMAIN u = DOMAIN t
  /\ \A a \in DOMAIN t \ Leaves(t, d) : u[a] = t[a]
  /\ Translation(u, d) = m

\* What a directory finds for a page depends on its own tables only.
LEMMA PagingGet ==
  ASSUME NEW t, NEW d, Directory(t, d), NEW v \in Page, NEW ix, ix = paging_get_indexes(v)
  PROVE  /\ ix.directory \in Index /\ ix.table \in Index
         /\ TableOf(t, d, v) = Frame(t[d][ix.directory])
         /\ TableOf(t, d, v) \in Leaves(t, d) /\ TableOf(t, d, v) \in DOMAIN t
         /\ TableOf(t, d, v) # d
         /\ Translation(t, d)[v] = t[Frame(t[d][ix.directory])][ix.table]
<1>1. ix.directory \in Index /\ ix.table \in Index
  BY Indexes
<1>2. TableOf(t, d, v) = Frame(t[d][ix.directory])
  BY DEF TableOf
<1>3. TableOf(t, d, v) \in Leaves(t, d) /\ TableOf(t, d, v) \in DOMAIN t /\ TableOf(t, d, v) # d
  BY <1>1, <1>2 DEF Leaves, Directory
<1> QED
  BY <1>1, <1>2, <1>3 DEF Translation, paging_get

Updated(m, v, w) == [m EXCEPT ![v] = w]

\* A word that is written changes one page of one directory.
LEMMA SetWord ==
  ASSUME NEW t, Tables(t), NEW d, Directory(t, d), NEW v \in Page, NEW w \in Address,
         NEW u, u = paging_set_physical_address(t, d, v, w)
  PROVE  Remapped(t, u, d, Updated(Translation(t, d), v, w))
<1>1. PICK ix : ix = paging_get_indexes(v)
  OBVIOUS
<1>2. PICK i, j, l : i = ix.directory /\ j = ix.table /\ l = Frame(t[d][i])
  OBVIOUS
<1>3. /\ i \in Index /\ j \in Index /\ TableOf(t, d, v) = l
      /\ l \in Leaves(t, d) /\ l \in DOMAIN t /\ l # d
  BY <1>1, <1>2, PagingGet
<1>4. paging_is_aligned(v) /\ v = i * TableSpan + j * P
  BY <1>1, <1>2, Indexes
<1>5. u = [t EXCEPT ![l][j] = w]
  BY <1>1, <1>2, <1>3, <1>4 DEF paging_set_physical_address
<1>6. /\ u \in [DOMAIN t -> [Index -> Address]]
      /\ u[l] = [t[l] EXCEPT ![j] = w]
      /\ \A a \in DOMAIN t : a # l => u[a] = t[a]
  BY <1>3, <1>5 DEF Tables
<1>7. t[l] \in [Index -> Address] /\ u[d] = t[d] /\ DOMAIN u = DOMAIN t
  BY <1>3, <1>6 DEF Tables, Directory
<1>8. u[l][j] = w /\ \A k \in Index : k # j => u[l][k] = t[l][k]
  BY <1>3, <1>6, <1>7
<1>9. \A x \in Page : Translation(u, d)[x] = IF x = v THEN w ELSE Translation(t, d)[x]
  <2> SUFFICES ASSUME NEW x \in Page
               PROVE  Translation(u, d)[x] = IF x = v THEN w ELSE Translation(t, d)[x]
    OBVIOUS
  <2>1. PICK jx : jx = paging_get_indexes(x)
    OBVIOUS
  <2>2. PICK a, b : a = jx.directory /\ b = jx.table
    OBVIOUS
  <2>3. a \in Index /\ b \in Index /\ x = a * TableSpan + b * P
    BY <2>1, <2>2, Indexes
  <2>4. Translation(t, d)[x] = t[Frame(t[d][a])][b]
    BY <2>1, <2>2, PagingGet
  <2>5. Translation(u, d)[x] = u[Frame(t[d][a])][b]
    BY <1>7, <2>1, <2>2 DEF Translation, paging_get, TableOf
  <2>6. Frame(t[d][a]) \in DOMAIN t /\ (a # i => Frame(t[d][a]) # l)
    BY <1>2, <1>3, <2>3 DEF Directory
  <2>7. CASE a = i /\ b = j
    BY <1>2, <1>4, <1>8, <2>3, <2>5, <2>7
  <2>8. CASE a # i
    <3>1. u[Frame(t[d][a])] = t[Frame(t[d][a])]
      BY <1>6, <2>6, <2>8
    <3>2. x # v
      <4>1. a = jx.directory /\ i = ix.directory
        BY <1>2, <2>2
      <4> QED
        BY <1>1, <2>1, <2>8, <4>1
    <3> QED
      BY <2>4, <2>5, <3>1, <3>2
  <2>9. CASE a = i /\ b # j
    <3>1. x # v
      <4>1. b = jx.table /\ j = ix.table
        BY <1>2, <2>2
      <4> QED
        BY <1>1, <2>1, <2>9, <4>1
    <3> QED
      BY <1>2, <1>8, <2>3, <2>4, <2>5, <2>9, <3>1
  <2> QED
    BY <2>7, <2>8, <2>9
<1>10. Translation(u, d) = Updated(Translation(t, d), v, w)
  BY <1>9 DEF Translation, Updated
<1>11. \A a \in DOMAIN t \ Leaves(t, d) : u[a] = t[a]
  BY <1>3, <1>6
<1> QED
  BY <1>6, <1>7, <1>10, <1>11 DEF Remapped, Tables

\* The directories themselves stay as they are.
LEMMA RemappedDirectory ==
  ASSUME NEW t, NEW u, NEW d, NEW m, Remapped(t, u, d, m), Directory(t, d)
  PROVE  Directory(u, d) /\ Leaves(u, d) = Leaves(t, d) /\ TablesOf(u, d) = TablesOf(t, d)
<1>1. d \in DOMAIN t \ Leaves(t, d)
  BY DEF Directory, Leaves
<1>2. u[d] = t[d] /\ DOMAIN u = DOMAIN t
  BY <1>1 DEF Remapped
<1> QED
  BY <1>2 DEF Directory, Leaves, TablesOf

\* Another directory does not notice.
LEMMA RemappedOther ==
  ASSUME NEW t, NEW u, NEW d, NEW m, Remapped(t, u, d, m),
         NEW e, Directory(t, e), TablesOf(t, e) \cap TablesOf(t, d) = {}
  PROVE  /\ Directory(u, e) /\ TablesOf(u, e) = TablesOf(t, e)
         /\ Translation(u, e) = Translation(t, e)
<1>1. e \in DOMAIN t \ Leaves(t, d)
  BY DEF Directory, Leaves, TablesOf
<1>2. u[e] = t[e] /\ DOMAIN u = DOMAIN t
  BY <1>1 DEF Remapped
<1>3. Directory(u, e) /\ TablesOf(u, e) = TablesOf(t, e)
  BY <1>2 DEF Directory, TablesOf
<1>4. \A i \in Index : u[Frame(t[e][i])] = t[Frame(t[e][i])]
  BY DEF Remapped, Directory, Leaves, TablesOf
<1>5. \A v \in Page : Translation(u, e)[v] = Translation(t, e)[v]
  <2> TAKE v \in Page
  <2>1. PICK ix : ix = paging_get_indexes(v)
    OBVIOUS
  <2>2. ix.directory \in Index /\ Translation(t, e)[v] = t[Frame(t[e][ix.directory])][ix.table]
    BY <2>1, PagingGet
  <2>3. Translation(u, e)[v] = u[Frame(u[e][ix.directory])][ix.table]
    BY <1>3, <2>1, PagingGet
  <2> QED
    BY <1>2, <1>4, <2>2, <2>3
<1>6. Translation(u, e) = Translation(t, e)
  BY <1>5 DEF Translation
<1> QED
  BY <1>3, <1>6

LEMMA RemappedTwice ==
  ASSUME NEW t, NEW u, NEW w, NEW d, NEW m, NEW o, Directory(t, d),
         Remapped(t, u, d, m), Remapped(u, w, d, o)
  PROVE  Remapped(t, w, d, o)
<1>1. Leaves(u, d) = Leaves(t, d)
  BY RemappedDirectory
<1> QED
  BY <1>1 DEF Remapped

\* A map in which n pages from v on go to as many frames from a on.
RangeMap(m, v, a, n, f) ==
  [x \in Page |-> IF v <= x /\ x < v + n * P THEN a + (x - v) + f ELSE m[x]]

\* Turn i of the loop of paging_map_range.
MapTurn(u, d, v, a, i, f) ==
  paging_map(u, d, (v + (i - 1) * PAGING_PAGE_SIZE) % WORD,
             (a + (i - 1) * PAGING_PAGE_SIZE) % WORD, f)

\* g[i] are the tables after i turns.
MapTurns(t, d, v, a, f, k, g) ==
  g = [i \in 0 .. k |-> IF i = 0 THEN t ELSE MapTurn(g[i - 1], d, v, a, i, f)]

LEMMA MapTurnsExists ==
  ASSUME NEW t, NEW d, NEW v, NEW a, NEW fl, NEW n \in Nat
  PROVE  \E f : MapTurns(t, d, v, a, fl, n, f)
<1> DEFINE S == {k \in Nat : ~\E f : MapTurns(t, d, v, a, fl, k, f)}
<1> SUFFICES ASSUME S # {} PROVE FALSE
  OBVIOUS
<1>1. S \in SUBSET Nat
  OBVIOUS
<1>2. PICK k \in S : \A j \in S : k <= j
  BY <1>1, LeastExists
<1>3. CASE k = 0
  <2>1. PICK f : f = [i \in 0 .. k |-> t]
    OBVIOUS
  <2>2. \A i \in 0 .. k : i = 0
    BY <1>3
  <2>3. f = [i \in 0 .. k |-> IF i = 0 THEN t ELSE MapTurn(f[i - 1], d, v, a, i, fl)]
    BY <2>1, <2>2
  <2> QED
    BY <2>3 DEF MapTurns
<1>4. CASE k # 0
  <2>1. k - 1 \in Nat /\ k - 1 \notin S
    BY <1>2, <1>4
  <2>2. PICK g : MapTurns(t, d, v, a, fl, k - 1, g)
    BY <2>1
  <2>3. PICK f : f = [i \in 0 .. k |-> IF i = k THEN MapTurn(g[k - 1], d, v, a, k, fl) ELSE g[i]]
    OBVIOUS
  <2>4. \A i \in 0 .. k - 1 : g[i] = IF i = 0 THEN t ELSE MapTurn(g[i - 1], d, v, a, i, fl)
    BY <2>2 DEF MapTurns
  <2>5. \A i \in 0 .. k : f[i] = IF i = 0 THEN t ELSE MapTurn(f[i - 1], d, v, a, i, fl)
    <3> SUFFICES ASSUME NEW i \in 0 .. k
                 PROVE  f[i] = IF i = 0 THEN t ELSE MapTurn(f[i - 1], d, v, a, i, fl)
      OBVIOUS
    <3>1. CASE i = k
      <4>1. k - 1 \in 0 .. k /\ k - 1 # k /\ k \in 0 .. k
        BY <2>1
      <4>2. f[k] = MapTurn(g[k - 1], d, v, a, k, fl) /\ f[k - 1] = g[k - 1]
        BY <2>3, <4>1
      <4> QED
        BY <1>4, <3>1, <4>2
    <3>2. CASE i # k
      <4>1. i \in 0 .. k - 1 /\ f[i] = g[i]
        BY <2>1, <2>3, <3>2
      <4>2. CASE i = 0
        BY <2>4, <4>1, <4>2
      <4>3. CASE i # 0
        <5>1. i - 1 \in 0 .. k /\ i - 1 # k
          BY <2>1, <4>1, <4>3
        <5>2. f[i - 1] = g[i - 1]
          BY <2>3, <5>1
        <5> QED
          BY <2>4, <4>1, <4>3, <5>2
      <4> QED
        BY <4>2, <4>3
    <3> QED
      BY <3>1, <3>2
  <2>6. f = [i \in 0 .. k |-> f[i]]
    BY <2>3
  <2>7. f = [i \in 0 .. k |-> IF i = 0 THEN t ELSE MapTurn(f[i - 1], d, v, a, i, fl)]
    BY <2>5, <2>6
  <2> QED
    BY <2>7 DEF MapTurns
<1> QED
  BY <1>3, <1>4

\* Page x and the word w of turn k.
Turn(v, a, f, i, x, w, k) == x = v + i * P /\ w = (a + i * P) + f /\ k = i + 1

\* One turn adds a page to the range.
LEMMA RangeStep ==
  ASSUME NEW m, NEW v, Aligned(v), NEW a, Aligned(a), NEW f \in 0 .. 7, NEW i \in Nat,
         NEW x \in Page, NEW w, NEW k, Turn(v, a, f, i, x, w, k),
         NEW o, o = RangeMap(m, v, a, i, f)
  PROVE  Updated(o, x, w) = RangeMap(m, v, a, k, f)
<1>1. v \in Nat /\ a \in Nat /\ P \in Nat \ {0} /\ i * P \in Nat /\ (i + 1) * P = i * P + P
  BY Constants DEF Aligned
<1>2. PICK s : s = i * P
  OBVIOUS
<1>3. s \in Nat /\ x = v + s /\ k = i + 1 /\ k * P = s + P /\ w = (a + s) + f
  BY <1>1, <1>2 DEF Turn
<1>4. \A y \in Page : (v <= y /\ y < v + (s + P)) <=> ((v <= y /\ y < v + s) \/ y = x)
  <2> TAKE y \in Page
  <2>1. Aligned(y) /\ Aligned(x)
    BY PageAligned
  <2>2. y \in Nat /\ x \in Nat /\ (x < y => x + P <= y)
    BY <2>1, AlignedArithmetic
  <2> QED
    BY <1>1, <1>3, <2>2
<1>5. PICK r, q : r = RangeMap(m, v, a, i, f) /\ q = RangeMap(m, v, a, k, f)
  OBVIOUS
<1>6. r = [y \in Page |-> IF v <= y /\ y < v + s THEN a + (y - v) + f ELSE m[y]]
  BY <1>2, <1>5 DEF RangeMap
<1>7. q = [y \in Page |-> IF v <= y /\ y < v + (s + P) THEN a + (y - v) + f ELSE m[y]]
  BY <1>3, <1>5 DEF RangeMap
<1>8. \A y \in Page : q[y] = IF y = x THEN (a + s) + f ELSE r[y]
  <2> TAKE y \in Page
  <2>1. CASE y = x
    <3>1. q[y] = a + (x - v) + f
      BY <1>4, <1>7, <2>1
    <3> QED
      BY <1>1, <1>3, <2>1, <3>1
  <2>2. CASE y # x
    BY <1>4, <1>6, <1>7, <2>2
  <2> QED
    BY <2>1, <2>2
<1>9. q = [r EXCEPT ![x] = (a + s) + f]
  BY <1>6, <1>7, <1>8
<1> QED
  BY <1>3, <1>5, <1>9 DEF Updated

\* The pages of a range can be mapped, and there is memory to map them to.
CanMap(v, a, n) ==
  /\ Aligned(v) /\ Aligned(a) /\ n \in Nat
  /\ PagesFrom(v, n) \subseteq Page
  /\ PagesFrom(a, n) \subseteq Page

\* A page and its flags are a word.
LEMMA PageWord ==
  ASSUME NEW x \in Page, NEW f \in 0 .. 7
  PROVE  x + f \in Address
<1>1. Aligned(x) /\ x < WORD /\ x \in Nat
  BY PageAligned DEF Aligned
<1>2. WORD = (E * E) * P /\ E * E \in Nat /\ WORD \in Nat /\ P \in Nat /\ P >= 8
  BY Constants
<1>3. Aligned(WORD)
  BY <1>2, AlignedTimes
<1>4. x + P <= WORD
  BY <1>1, <1>3, AlignedArithmetic
<1> QED
  BY <1>1, <1>2, <1>4 DEF Address

\* paging_map_range gives consecutive pages consecutive frames.
LEMMA MapRangeRemaps ==
  ASSUME NEW t, Tables(t), NEW d, Directory(t, d), NEW v, NEW a, NEW n, CanMap(v, a, n),
         NEW f \in 0 .. 7, NEW u, u = paging_map_range(t, d, v, a, n, f)
  PROVE  Remapped(t, u, d, RangeMap(Translation(t, d), v, a, n, f))
<1>1. PICK g : g = CHOOSE x : MapTurns(t, d, v, a, f, n, x)
  OBVIOUS
<1>2. u = g[n]
  BY <1>1 DEF paging_map_range, MapTurns, MapTurn
<1>3. n \in Nat /\ Aligned(v) /\ Aligned(a)
  BY DEF CanMap
<1>4. MapTurns(t, d, v, a, f, n, g)
  BY <1>1, <1>3, MapTurnsExists
<1>5. \A i \in 0 .. n : g[i] = IF i = 0 THEN t ELSE MapTurn(g[i - 1], d, v, a, i, f)
  BY <1>4 DEF MapTurns
<1>6. PICK m : m = Translation(t, d)
  OBVIOUS
<1> DEFINE S == {i \in 0 .. n : ~Remapped(t, g[i], d, RangeMap(m, v, a, i, f))}
<1>7. S = {}
  <2> SUFFICES ASSUME S # {} PROVE FALSE
    OBVIOUS
  <2>1. S \in SUBSET Nat
    BY <1>3
  <2>2. PICK i \in S : \A j \in S : i <= j
    BY <2>1, LeastExists
  <2>3. CASE i = 0
    <3>1. g[i] = t
      BY <1>3, <1>5, <2>3
    <3>2. \A x \in Page : ~(v <= x /\ x < v + 0 * P)
      <4> TAKE x \in Page
      <4>1. x \in Nat /\ v \in Nat /\ 0 * P = 0
        BY <1>3, PageAligned, Constants DEF Aligned
      <4> QED
        BY <4>1
    <3>3. RangeMap(m, v, a, 0, f) = [x \in Page |-> m[x]]
      BY <3>2 DEF RangeMap
    <3>4. RangeMap(m, v, a, 0, f) = m
      BY <1>6, <3>3 DEF Translation
    <3>5. Remapped(t, t, d, m)
      BY <1>6 DEF Remapped
    <3> QED
      BY <2>2, <2>3, <3>1, <3>4, <3>5
  <2>4. CASE i # 0
    <3>1. i \in 0 .. n /\ i - 1 \in 0 .. n /\ i - 1 \in Nat /\ i \in Nat
      BY <1>3, <2>2, <2>4
    <3>2. PICK j, w, o : j = i - 1 /\ w = g[i - 1] /\ o = RangeMap(m, v, a, i - 1, f)
      OBVIOUS
    <3>3. j \in Nat /\ i = j + 1 /\ j < n
      BY <1>3, <3>1, <3>2
    <3>4. Remapped(t, w, d, o)
      BY <2>2, <3>1, <3>2
    <3>5. Tables(w) /\ Directory(w, d) /\ Translation(w, d) = o
      BY <3>4, RemappedDirectory DEF Remapped
    <3>6. PICK x, y : x = v + j * P /\ y = a + j * P
      OBVIOUS
    <3>7. j \in 0 .. n - 1
      BY <1>3, <3>3
    <3>8. x \in Page /\ y \in Page
      BY <3>6, <3>7 DEF CanMap, PagesFrom, P
    <3>9. x \in Nat /\ x < WORD /\ y \in Nat /\ y < WORD /\ Aligned(x) /\ Aligned(y)
      BY <3>8, PageAligned DEF Aligned
    <3>10. x % WORD = x /\ y % WORD = y
      BY <3>9, SmallWord
    <3>11. g[i] = MapTurn(w, d, v, a, i, f)
      BY <1>5, <2>4, <3>1, <3>2
    <3>12. g[i] = paging_map(w, d, x, y, f)
      BY <3>2, <3>6, <3>10, <3>11 DEF MapTurn, P
    <3>13. paging_is_aligned(x) /\ paging_is_aligned(y)
      BY <3>9 DEF Aligned, paging_is_aligned, P
    <3>14. g[i] = paging_set_physical_address(w, d, x, y + f)
      BY <3>12, <3>13 DEF paging_map
    <3>15. y + f \in Address
      BY <3>8, PageWord
    <3>16. Remapped(w, g[i], d, Updated(Translation(w, d), x, y + f))
      BY <3>5, <3>8, <3>14, <3>15, SetWord
    <3>17. PICK z : z = y + f
      OBVIOUS
    <3>18. Remapped(w, g[i], d, RangeMap(m, v, a, i, f))
      <4>1. o = RangeMap(m, v, a, j, f) /\ Turn(v, a, f, j, x, z, i)
        <5>1. o = RangeMap(m, v, a, j, f)
          BY <3>2
        <5>2. Turn(v, a, f, j, x, z, i)
          BY <3>3, <3>6, <3>17 DEF Turn
        <5> QED
          BY <5>1, <5>2
      <4>0. Aligned(v) /\ Aligned(a) /\ f \in 0 .. 7 /\ j \in Nat /\ x \in Page
        BY <1>3, <3>3, <3>8
      <4>2. Updated(o, x, z) = RangeMap(m, v, a, i, f)
        BY <4>0, <4>1, RangeStep, SMTT(30)
      <4>3. Remapped(w, g[i], d, Updated(o, x, z))
        BY <3>5, <3>16, <3>17
      <4> QED
        BY <4>2, <4>3
    <3>19. Remapped(t, g[i], d, RangeMap(m, v, a, i, f))
      BY <3>4, <3>18, RemappedTwice
    <3> QED
      BY <2>2, <3>19
  <2> QED
    BY <2>3, <2>4
<1>8. n \in 0 .. n
  BY <1>3
<1> QED
  BY <1>2, <1>6, <1>7, <1>8

LEMMA MapToRemaps ==
  ASSUME NEW t, Tables(t), NEW d, Directory(t, d), NEW v, NEW a, NEW n, CanMap(v, a, n),
         NEW f \in 0 .. 7, NEW u, u = paging_map_to(t, d, v, a, a + n * P, f)
  PROVE  Remapped(t, u, d, RangeMap(Translation(t, d), v, a, n, f))
<1>1. Aligned(v) /\ Aligned(a) /\ n \in Nat
  BY DEF CanMap
<1>2. PICK s, e : s = n * P /\ e = a + s
  OBVIOUS
<1>3. Aligned(s)
  BY <1>1, <1>2, AlignedTimes
<1>4. Aligned(e) /\ s \in Nat /\ a \in Nat /\ e >= a
  BY <1>1, <1>2, <1>3, AlignedArithmetic
<1>5. e - a = s
  BY <1>2, <1>4
<1>6. MapToAccepts(v, a, e)
  BY <1>1, <1>4 DEF MapToAccepts, paging_is_aligned, Aligned, P
<1>7. s \div P = n
  <2>1. s = n * P + 0 /\ 0 \in 0 .. P - 1 /\ P \in Nat \ {0}
    BY <1>2, <1>4, Constants
  <2> QED
    BY <1>1, <1>4, <2>1, DivUnique
<1>8. u = paging_map_range(t, d, v, a, n, f)
  BY <1>2, <1>5, <1>6, <1>7 DEF paging_map_to, P
<1> QED
  BY <1>8, MapRangeRemaps

Fresh == [v \in Page |-> v + InitialFlags]

\* The tables u are t and a new directory at d, made of the given blocks.
Created(t, u, d, used) ==
  /\ Tables(u) /\ DOMAIN u = DOMAIN t \cup used
  /\ \A a \in DOMAIN t : u[a] = t[a]
  /\ Directory(u, d) /\ TablesOf(u, d) = used
  /\ Translation(u, d) = Fresh

\* Different blocks of the heap, none of them in use as a table.
FreshBlocks(t, blocks) ==
  /\ \A k \in 1 .. E + 1 : blocks[k] \in HeapPages \ DOMAIN t
  /\ \A k, l \in 1 .. E + 1 : k # l => blocks[k] # blocks[l]

Used(blocks) == {blocks[k] : k \in 1 .. E + 1}

LEMMA NewWord ==
  ASSUME NEW i \in Index, NEW j \in Index, NEW w, w = i * TableSpan + j * P
  PROVE  w \in Nat /\ w + 7 < WORD
<1>1. i \in 0 .. E - 1 /\ j \in 0 .. E - 1
  BY DEF Index, E
<1>2. E \in Nat \ {0} /\ P \in Nat /\ P >= 8 /\ TableSpan \in Nat \ {0} /\ TableSpan = E * P
  BY Constants
<1>3. i * TableSpan + TableSpan <= E * TableSpan
  <2>1. i \in Int /\ E \in Int /\ i < E
    BY <1>1, <1>2
  <2> QED
    BY <1>2, <2>1, TimesOrder
<1>4. j * P + P <= E * P
  <2>1. j \in Int /\ E \in Int /\ j < E /\ P \in Nat \ {0}
    BY <1>1, <1>2
  <2> QED
    BY <2>1, TimesOrder
<1>5. i * TableSpan \in Nat /\ j * P \in Nat
  BY <1>1, <1>2
<1>6. WORD = E * TableSpan
  BY Constants
<1> QED
  BY <1>2, <1>3, <1>4, <1>5, <1>6

LEMMA New4gb ==
  ASSUME NEW t, Tables(t), NEW blocks, FreshBlocks(t, blocks),
         NEW u, u = paging_new_4gb(t, blocks, InitialFlags)
  PROVE  Created(t, u, blocks[1], Used(blocks))
<1>1. InitialFlags = 5 /\ UserWritable = 7 /\ PAGING_IS_WRITEABLE = 2
  BY DEF InitialFlags, UserWritable, PAGING_IS_PRESENT, PAGING_ACCESS_FROM_ALL, PAGING_IS_WRITEABLE
<1>2. ~Has(InitialFlags, PAGING_IS_WRITEABLE)
  <2>1. Aligned(0)
    BY Constants DEF Aligned
  <2>2. Flags(0 + 5) = 5
    BY <2>1, WordParts
  <2> QED
    BY <1>1, <2>2, FlagBits
<1>3. PICK d : d = blocks[1]
  OBVIOUS
<1> DEFINE tab(i) == [j \in Index |-> i * TableSpan + j * P + 5]
<1> DEFINE dir == [i \in Index |-> blocks[i + 2] + 7]
<1>4. \A i \in Index : i + 2 \in 1 .. E + 1 /\ i + 2 # 1
  BY Constants DEF Index, E
<1>5. 1 \in 1 .. E + 1 /\ \A k \in 1 .. E + 1 : k # 1 => k - 2 \in Index
  BY Constants DEF Index, E
<1>6. PICK used : used = {blocks[k] : k \in 1 .. E + 1}
  OBVIOUS
<1>7. used = Used(blocks)
  BY <1>6 DEF Used
<1>8. d \in used /\ \A i \in Index : blocks[i + 2] \in used /\ blocks[i + 2] # d
  BY <1>3, <1>4, <1>5, <1>6 DEF FreshBlocks
<1>9. \A i, j \in Index : i # j => blocks[i + 2] # blocks[j + 2]
  <2> SUFFICES ASSUME NEW i \in Index, NEW j \in Index, i # j PROVE blocks[i + 2] # blocks[j + 2]
    OBVIOUS
  <2>1. i + 2 # j + 2
    BY DEF Index
  <2> QED
    BY <1>4, <2>1 DEF FreshBlocks
<1>10. PICK pos : pos = [a \in used |-> CHOOSE i \in Index : blocks[i + 2] = a]
  OBVIOUS
<1>11. \A i \in Index : pos[blocks[i + 2]] = i
  <2> TAKE i \in Index
  <2>1. pos[blocks[i + 2]] = CHOOSE k \in Index : blocks[k + 2] = blocks[i + 2]
    BY <1>8, <1>10
  <2> QED
    BY <1>9, <2>1
<1>12. u = [a \in DOMAIN t \cup used |->
              IF a \in used THEN IF a = d THEN dir ELSE tab(pos[a]) ELSE t[a]]
  <2>1. dir = [i \in Index |-> blocks[i + 2] + InitialFlags
                     + (IF Has(InitialFlags, PAGING_IS_WRITEABLE) THEN 0 ELSE PAGING_IS_WRITEABLE)]
    <3>1. \A i \in Index : blocks[i + 2] + 7 = blocks[i + 2] + InitialFlags
                     + (IF Has(InitialFlags, PAGING_IS_WRITEABLE) THEN 0 ELSE PAGING_IS_WRITEABLE)
      <4> TAKE i \in Index
      <4>1. blocks[i + 2] \in Nat
        BY <1>4, HeapWord DEF FreshBlocks
      <4> QED
        BY <1>1, <1>2, <4>1
    <3> QED
      BY <3>1
  <2>2. \A i : tab(i) = [j \in Index |-> i * TableSpan + j * PAGING_PAGE_SIZE + InitialFlags]
    BY <1>1 DEF P
  <2>3. \A a \in used : pos[a] = CHOOSE i \in Index : blocks[i + 2] = a
    BY <1>10
  <2>4. used = {blocks[k] : k \in 1 .. PAGING_TOTAL_ENTRIES_PER_TABLE + 1}
    BY <1>6 DEF E
  <2> QED
    BY <1>3, <2>1, <2>2, <2>3, <2>4 DEF paging_new_4gb
<1>13. \A i \in Index : tab(i) \in [Index -> Address]
  <2> TAKE i \in Index
  <2>1. \A j \in Index : i * TableSpan + j * P + 5 \in Address
    <3> TAKE j \in Index
    <3>1. PICK w : w = i * TableSpan + j * P
      OBVIOUS
    <3>2. w \in Nat /\ w + 7 < WORD
      BY <3>1, NewWord
    <3>3. w + 5 \in Address
      BY <3>2, Constants DEF Address
    <3> QED
      BY <3>1, <3>3
  <2> QED
    BY <2>1
<1>14. dir \in [Index -> Address]
  <2>1. \A i \in Index : blocks[i + 2] + 7 \in Address
    BY <1>4, HeapWord DEF FreshBlocks
  <2> QED
    BY <2>1
<1>15. \A a \in used : a # d => pos[a] \in Index /\ blocks[pos[a] + 2] = a
  <2> SUFFICES ASSUME NEW k \in 1 .. E + 1, blocks[k] # d
               PROVE  pos[blocks[k]] \in Index /\ blocks[pos[blocks[k]] + 2] = blocks[k]
    BY <1>6
  <2>1. k # 1
    BY <1>3
  <2>2. PICK i \in Index : i = k - 2
    BY <1>5, <2>1
  <2>3. k = i + 2
    BY <2>2
  <2> QED
    BY <1>11, <2>3
<1>16. DOMAIN u = DOMAIN t \cup used
  BY <1>12
<1>17. \A a \in DOMAIN t : u[a] = t[a]
  <2>1. \A a \in DOMAIN t : a \notin used
    BY <1>6 DEF FreshBlocks
  <2> QED
    BY <1>12, <2>1
<1>18. u[d] = dir /\ \A i \in Index : u[blocks[i + 2]] = tab(i)
  BY <1>8, <1>11, <1>12
<1> HIDE DEF tab, dir
<1>19. Tables(u)
  <2>1. \A a \in DOMAIN u : u[a] \in [Index -> Address]
    <3> TAKE a \in DOMAIN u
    <3>1. CASE a \in used
      BY <1>12, <1>13, <1>14, <1>15, <3>1
    <3>2. CASE a \notin used
      BY <1>16, <1>17, <3>2 DEF Tables
    <3> QED
      BY <3>1, <3>2
  <2>2. u = [a \in DOMAIN u |-> u[a]]
    BY <1>12
  <2> QED
    BY <2>1, <2>2 DEF Tables
<1>20. \A i \in Index : Frame(u[d][i]) = blocks[i + 2]
  <2> TAKE i \in Index
  <2>1. u[d][i] = blocks[i + 2] + 7
    BY <1>18 DEF dir
  <2>2. Aligned(blocks[i + 2])
    BY <1>4, HeapWord DEF FreshBlocks
  <2> QED
    BY <2>1, <2>2, WordParts
<1>21. Directory(u, d)
  BY <1>8, <1>9, <1>16, <1>20 DEF Directory
<1>22. TablesOf(u, d) = used
  <2>1. TablesOf(u, d) = {blocks[i + 2] : i \in Index} \cup {d}
    BY <1>20 DEF TablesOf
  <2>2. \A a \in used : a # d => a \in {blocks[i + 2] : i \in Index}
    BY <1>15
  <2> QED
    BY <1>8, <2>1, <2>2
<1>23. Translation(u, d) = Fresh
  <2>1. \A v \in Page : Translation(u, d)[v] = v + InitialFlags
    <3> TAKE v \in Page
    <3>1. PICK ix : ix = paging_get_indexes(v)
      OBVIOUS
    <3>2. PICK i, j : i = ix.directory /\ j = ix.table
      OBVIOUS
    <3>3. i \in Index /\ j \in Index /\ v = i * TableSpan + j * P
      BY <3>1, <3>2, Indexes
    <3>4. Translation(u, d)[v] = u[Frame(u[d][i])][j]
      BY <1>21, <3>1, <3>2, PagingGet
    <3>5. u[Frame(u[d][i])][j] = i * TableSpan + j * P + 5
      <4>1. Frame(u[d][i]) = blocks[i + 2]
        BY <1>20, <3>3
      <4>2. u[blocks[i + 2]] = tab(i)
        BY <1>18, <3>3
      <4>3. tab(i)[j] = i * TableSpan + j * P + 5
        BY <3>3 DEF tab
      <4> QED
        BY <4>1, <4>2, <4>3
    <3> QED
      BY <1>1, <3>3, <3>4, <3>5
  <2> QED
    BY <2>1 DEF Translation, Fresh
<1> QED
  BY <1>3, <1>7, <1>16, <1>17, <1>19, <1>21, <1>22, <1>23 DEF Created

\* paging_free_4gb leaves the other directories alone.
LEMMA Free4gb ==
  ASSUME NEW t, Tables(t), NEW d, NEW u, u = paging_free_4gb(t, d)
  PROVE  /\ Tables(u) /\ DOMAIN u = DOMAIN t \ TablesOf(t, d)
         /\ \A a \in DOMAIN u : u[a] = t[a]
<1>1. DOMAIN u = DOMAIN t \ TablesOf(t, d) /\ \A a \in DOMAIN u : u[a] = t[a]
  BY DEF paging_free_4gb
<1>2. Tables(u)
  BY <1>1 DEF Tables, paging_free_4gb
<1> QED
  BY <1>1, <1>2

LEMMA FreeOther ==
  ASSUME NEW t, Tables(t), NEW d, NEW u, u = paging_free_4gb(t, d),
         NEW e, Directory(t, e), TablesOf(t, e) \cap TablesOf(t, d) = {}
  PROVE  /\ Directory(u, e) /\ TablesOf(u, e) = TablesOf(t, e)
         /\ Translation(u, e) = Translation(t, e)
<1>1. DOMAIN u = DOMAIN t \ TablesOf(t, d) /\ \A a \in DOMAIN u : u[a] = t[a]
  BY DEF paging_free_4gb
<1>2. e \in DOMAIN u /\ u[e] = t[e]
  BY <1>1 DEF Directory, TablesOf
<1>3. \A i \in Index : Frame(t[e][i]) \in DOMAIN u
  BY <1>1 DEF Directory, TablesOf
<1>4. Directory(u, e) /\ TablesOf(u, e) = TablesOf(t, e)
  BY <1>2, <1>3 DEF Directory, TablesOf
<1>5. \A v \in Page : Translation(u, e)[v] = Translation(t, e)[v]
  <2> TAKE v \in Page
  <2>1. PICK ix : ix = paging_get_indexes(v)
    OBVIOUS
  <2>2. ix.directory \in Index /\ Translation(t, e)[v] = t[Frame(t[e][ix.directory])][ix.table]
    BY <2>1, PagingGet
  <2>3. Translation(u, e)[v] = u[Frame(u[e][ix.directory])][ix.table]
    BY <1>4, <2>1, PagingGet
  <2> QED
    BY <1>1, <1>2, <1>3, <2>2, <2>3
<1> QED
  BY <1>4, <1>5 DEF Translation

------------------------------------------------------------------------------
(* Who owns what. *)

MapIn(t, ps, p) == IF p \in LiveIn(ps) THEN Translation(t, ps[p].directory) ELSE NoTlb

LEMMA OwnedParts ==
  ASSUME NEW h, NEW t, NEW ps, OwnedIn(h, t, ps)
  PROVE  /\ HeapOK(h) /\ ps \in [Process -> Proc]
         /\ \A p \in LiveIn(ps) :
              /\ p \in Process /\ ps[p] \in Proc /\ ps[p].self # NULL
              /\ Holds(h, t, ps[p]) /\ Directory(t, ps[p].directory)
              /\ TablesOf(t, ps[p].directory) \subseteq DOMAIN t
         /\ \A p, q \in LiveIn(ps) : p # q =>
              /\ Data(ps[p]) \cap Data(ps[q]) = {}
              /\ TablesOf(t, ps[p].directory) \cap TablesOf(t, ps[q].directory) = {}
         /\ Tables(t) /\ DOMAIN t \subseteq DOMAIN h
         /\ \A a \in DOMAIN t : \E p \in LiveIn(ps) : a \in TablesOf(t, ps[p].directory)
<1>1. /\ HeapOK(h) /\ ps \in [Process -> Proc]
      /\ \A p \in LiveIn(ps) : Holds(h, t, ps[p])
      /\ \A p, q \in LiveIn(ps) : p # q =>
              /\ Data(ps[p]) \cap Data(ps[q]) = {}
              /\ TablesOf(t, ps[p].directory) \cap TablesOf(t, ps[q].directory) = {}
      /\ Tables(t) /\ DOMAIN t \subseteq DOMAIN h
      /\ DOMAIN t = UNION {TablesOf(t, ps[p].directory) : p \in LiveIn(ps)}
  BY DEF OwnedIn
<1>2. \A p \in LiveIn(ps) : p \in Process /\ ps[p].self # NULL
  BY DEF LiveIn
<1>3. \A p \in LiveIn(ps) : Directory(t, ps[p].directory)
  BY <1>1 DEF Holds
<1>4. \A p \in LiveIn(ps) : TablesOf(t, ps[p].directory) \subseteq DOMAIN t
  BY <1>1
<1>5. \A a \in DOMAIN t : \E p \in LiveIn(ps) : a \in TablesOf(t, ps[p].directory)
  BY <1>1
<1> QED
  BY <1>1, <1>2, <1>3, <1>4, <1>5

\* The other direction, with the last part spelled out.
LEMMA OwnedFrom ==
  ASSUME NEW h, NEW t, NEW ps,
         HeapOK(h), ps \in [Process -> Proc], \A p \in LiveIn(ps) : Holds(h, t, ps[p]),
         \A p, q \in LiveIn(ps) : p # q =>
              /\ Data(ps[p]) \cap Data(ps[q]) = {}
              /\ TablesOf(t, ps[p].directory) \cap TablesOf(t, ps[q].directory) = {},
         Tables(t), DOMAIN t \subseteq DOMAIN h,
         \A p \in LiveIn(ps) : TablesOf(t, ps[p].directory) \subseteq DOMAIN t,
         \A a \in DOMAIN t : \E p \in LiveIn(ps) : a \in TablesOf(t, ps[p].directory)
  PROVE  OwnedIn(h, t, ps)
<1>1. DOMAIN t = UNION {TablesOf(t, ps[p].directory) : p \in LiveIn(ps)}
  <2>1. \A a \in DOMAIN t : a \in UNION {TablesOf(t, ps[p].directory) : p \in LiveIn(ps)}
    OBVIOUS
  <2>2. \A a \in UNION {TablesOf(t, ps[p].directory) : p \in LiveIn(ps)} : a \in DOMAIN t
    OBVIOUS
  <2> QED
    BY <2>1, <2>2
<1> QED
  BY <1>1 DEF OwnedIn

DirectoryOf(ps, p) == ps[p].directory

\* A change of one directory changes neither the owners nor another map.
LEMMA RemapOwned ==
  ASSUME NEW h, NEW t, NEW ps, OwnedIn(h, t, ps), NEW p \in LiveIn(ps),
         NEW u, NEW m, Remapped(t, u, DirectoryOf(ps, p), m)
  PROVE  /\ OwnedIn(h, u, ps) /\ DOMAIN u = DOMAIN t
         /\ MapIn(u, ps, p) = m
         /\ \A q \in Process : q # p => MapIn(u, ps, q) = MapIn(t, ps, q)
<1> Remapped(t, u, ps[p].directory, m)
  BY DEF DirectoryOf
<1>1. DOMAIN u = DOMAIN t /\ Tables(u) /\ Translation(u, ps[p].directory) = m
  BY DEF Remapped
<1>2. /\ HeapOK(h) /\ ps \in [Process -> Proc]
      /\ \A q \in LiveIn(ps) : Holds(h, t, ps[q]) /\ Directory(t, ps[q].directory)
      /\ \A q \in LiveIn(ps) : TablesOf(t, ps[q].directory) \subseteq DOMAIN t
      /\ \A q, r \in LiveIn(ps) : q # r =>
              /\ Data(ps[q]) \cap Data(ps[r]) = {}
              /\ TablesOf(t, ps[q].directory) \cap TablesOf(t, ps[r].directory) = {}
      /\ DOMAIN t \subseteq DOMAIN h
      /\ \A a \in DOMAIN t : \E q \in LiveIn(ps) : a \in TablesOf(t, ps[q].directory)
  BY OwnedParts
<1>3. \A q \in LiveIn(ps) : Directory(u, ps[q].directory)
  <2> TAKE q \in LiveIn(ps)
  <2>1. CASE q = p
    BY <1>2, <2>1, RemappedDirectory
  <2>2. CASE q # p
    <3>1. Directory(t, ps[q].directory) /\ TablesOf(t, ps[q].directory) \cap TablesOf(t, ps[p].directory) = {}
      BY <1>2, <2>2
    <3> QED
      BY <2>2, <3>1, RemappedOther
  <2> QED
    BY <2>1, <2>2
<1>4. \A q \in LiveIn(ps) : TablesOf(u, ps[q].directory) = TablesOf(t, ps[q].directory)
  <2> TAKE q \in LiveIn(ps)
  <2>1. CASE q = p
    BY <1>2, <2>1, RemappedDirectory
  <2>2. CASE q # p
    <3>1. Directory(t, ps[q].directory) /\ TablesOf(t, ps[q].directory) \cap TablesOf(t, ps[p].directory) = {}
      BY <1>2, <2>2
    <3> QED
      BY <2>2, <3>1, RemappedOther
  <2> QED
    BY <2>1, <2>2
<1>5. \A q \in LiveIn(ps) : Holds(h, u, ps[q])
  <2> TAKE q \in LiveIn(ps)
  <2>1. Holds(h, t, ps[q]) /\ Directory(u, ps[q].directory)
    BY <1>2, <1>3
  <2> QED
    BY <1>1, <2>1 DEF Holds
<1>6. OwnedIn(h, u, ps)
  <2>1. ASSUME NEW q \in LiveIn(ps), NEW r \in LiveIn(ps), q # r
        PROVE  /\ Data(ps[q]) \cap Data(ps[r]) = {}
               /\ TablesOf(u, ps[q].directory) \cap TablesOf(u, ps[r].directory) = {}
    <3>1. /\ Data(ps[q]) \cap Data(ps[r]) = {}
          /\ TablesOf(t, ps[q].directory) \cap TablesOf(t, ps[r].directory) = {}
      BY <1>2, <2>1
    <3>2. /\ TablesOf(u, ps[q].directory) = TablesOf(t, ps[q].directory)
          /\ TablesOf(u, ps[r].directory) = TablesOf(t, ps[r].directory)
      BY <1>4
    <3> QED
      BY <3>1, <3>2
  <2>2. ASSUME NEW q \in LiveIn(ps) PROVE TablesOf(u, ps[q].directory) \subseteq DOMAIN u
    <3>1. TablesOf(t, ps[q].directory) \subseteq DOMAIN t
      BY <1>2
    <3>2. TablesOf(u, ps[q].directory) = TablesOf(t, ps[q].directory)
      BY <1>4
    <3> QED
      BY <1>1, <3>1, <3>2
  <2>3. ASSUME NEW a \in DOMAIN u PROVE \E q \in LiveIn(ps) : a \in TablesOf(u, ps[q].directory)
    <3>1. PICK q \in LiveIn(ps) : a \in TablesOf(t, ps[q].directory)
      BY <1>1, <1>2
    <3>2. TablesOf(u, ps[q].directory) = TablesOf(t, ps[q].directory)
      BY <1>4
    <3> QED
      BY <3>1, <3>2
  <2>4. DOMAIN u \subseteq DOMAIN h
    BY <1>1, <1>2
  <2>5. HeapOK(h) /\ ps \in [Process -> Proc] /\ Tables(u)
    BY <1>1, <1>2
  <2> QED
    BY <1>5, <2>1, <2>2, <2>3, <2>4, <2>5, OwnedFrom
<1>7. MapIn(u, ps, p) = m
  BY <1>1 DEF MapIn
<1>8. ASSUME NEW q \in Process, q # p PROVE MapIn(u, ps, q) = MapIn(t, ps, q)
  <2>1. ASSUME q \in LiveIn(ps)
        PROVE  Translation(u, ps[q].directory) = Translation(t, ps[q].directory)
    <3>1. Directory(t, ps[q].directory) /\ TablesOf(t, ps[q].directory) \cap TablesOf(t, ps[p].directory) = {}
      BY <1>2, <1>8, <2>1
    <3> QED
      BY <3>1, RemappedOther
  <2> QED
    BY <2>1 DEF MapIn
<1> QED
  BY <1>1, <1>6, <1>7, <1>8

\* A new block belongs to nobody.
LEMMA AddOwned ==
  ASSUME NEW h, NEW t, NEW ps, OwnedIn(h, t, ps), NEW g, NEW x, NEW n, Added(h, g, x, n)
  PROVE  OwnedIn(g, t, ps) /\ Unowned(g, t, ps, x)
<1>1. /\ HeapOK(g) /\ x \notin DOMAIN h /\ DOMAIN g = DOMAIN h \cup {x}
      /\ \A a \in DOMAIN h : g[a] = h[a]
  BY DEF Added
<1>2. /\ ps \in [Process -> Proc]
      /\ \A q \in LiveIn(ps) : Holds(h, t, ps[q])
      /\ DOMAIN t \subseteq DOMAIN h /\ Tables(t)
  BY OwnedParts
<1>3. \A q \in LiveIn(ps) : Data(ps[q]) \subseteq DOMAIN h
  BY <1>2 DEF Holds
<1>4. \A q \in LiveIn(ps) : Holds(g, t, ps[q])
  <2> TAKE q \in LiveIn(ps)
  <2>1. PICK r : r = ps[q]
    OBVIOUS
  <2>2. r.ptr \in DOMAIN h /\ r.stack \in DOMAIN h /\ \A a \in r.allocations : a.ptr \in DOMAIN h
    BY <1>3, <2>1 DEF Data, Fixed
  <2>3. Holds(h, t, r)
    BY <1>2, <2>1
  <2>4. Holds(g, t, r)
    BY <1>1, <2>2, <2>3 DEF Holds
  <2> QED
    BY <2>1, <2>4
<1>5. OwnedIn(g, t, ps)
  <2>1. DOMAIN t \subseteq DOMAIN g
    BY <1>1, <1>2
  <2> QED
    BY <1>1, <1>4, <2>1 DEF OwnedIn
<1>6. Unowned(g, t, ps, x)
  BY <1>1, <1>2, <1>3 DEF Unowned
<1> QED
  BY <1>5, <1>6

\* What belongs to nobody can be freed.
LEMMA FreeOwned ==
  ASSUME NEW h, NEW t, NEW ps, OwnedIn(h, t, ps), NEW x, Unowned(h, t, ps, x),
         NEW g, g = kernel_free(h, {x})
  PROVE  OwnedIn(g, t, ps)
<1>1. HeapOK(g) /\ DOMAIN g = DOMAIN h \ {x} /\ \A a \in DOMAIN h \ {x} : g[a] = h[a]
  <2>1. HeapOK(h)
    BY DEF OwnedIn
  <2> QED
    BY <2>1, FreeHeap
<1>2. /\ \A q \in LiveIn(ps) : Holds(h, t, ps[q])
      /\ DOMAIN t \subseteq DOMAIN h
  BY OwnedParts
<1>3. \A q \in LiveIn(ps) : Data(ps[q]) \subseteq DOMAIN h \ {x}
  BY <1>2 DEF Holds, Unowned
<1>4. \A q \in LiveIn(ps) : Holds(g, t, ps[q])
  <2> TAKE q \in LiveIn(ps)
  <2>1. PICK r : r = ps[q]
    OBVIOUS
  <2>2. r.ptr \in DOMAIN h \ {x} /\ r.stack \in DOMAIN h \ {x}
        /\ \A a \in r.allocations : a.ptr \in DOMAIN h \ {x}
    BY <1>3, <2>1 DEF Data, Fixed
  <2>3. Holds(h, t, r) /\ Data(r) \subseteq DOMAIN g
    BY <1>1, <1>2, <1>3, <2>1
  <2>4. Holds(g, t, r)
    BY <1>1, <2>2, <2>3 DEF Holds
  <2> QED
    BY <2>1, <2>4
<1>5. DOMAIN t \subseteq DOMAIN g
  BY <1>1, <1>2 DEF Unowned
<1> QED
  BY <1>1, <1>4, <1>5 DEF OwnedIn

\* A slot of the process table is written.
Becomes(ps, p, r, qs) == qs = [ps EXCEPT ![p] = r]

Ptrs(as) == {a.ptr : a \in as}

Ledger == SUBSET [ptr : HeapPages, size : Sizes]

With(r, as) == [r EXCEPT !.allocations = as]

LEMMA WithIs ==
  ASSUME NEW r \in Proc, NEW as \in Ledger
  PROVE  /\ With(r, as) \in Proc
         /\ With(r, as).allocations = as
         /\ With(r, as).filename = r.filename /\ With(r, as).self = r.self
         /\ With(r, as).elf_file = r.elf_file /\ With(r, as).ptr = r.ptr
         /\ With(r, as).stack = r.stack /\ With(r, as).task = r.task
         /\ With(r, as).chunk = r.chunk /\ With(r, as).directory = r.directory
         /\ With(r, as).ip = r.ip /\ With(r, as).span = r.span
BY DEF With, Proc, Ledger

\* What malloc gave to p is nobody else's.
LedgerIn(h, t, r, as) ==
  /\ as \in Ledger
  /\ \A a \in as : a.ptr \in DOMAIN h \ DOMAIN t
  /\ \A a \in as : a.ptr \notin Fixed(r) /\ h[a.ptr] = Pages(a.size)
  /\ \A a, b \in as : a.ptr = b.ptr => a = b

LedgerOK(h, t, ps, p, as) ==
  /\ LedgerIn(h, t, ps[p], as)
  /\ \A a \in as : \A q \in LiveIn(ps) : q # p => a.ptr \notin Data(ps[q])

LEMMA WithHolds ==
  ASSUME NEW h, NEW t, NEW r \in Proc, Holds(h, t, r), NEW as, LedgerIn(h, t, r, as)
  PROVE  /\ Holds(h, t, With(r, as))
         /\ Data(With(r, as)) = Fixed(r) \cup Ptrs(as)
<1>1. PICK s : s = With(r, as)
  OBVIOUS
<1>2. /\ s.allocations = as
      /\ s.filename = r.filename /\ s.self = r.self
      /\ s.elf_file = r.elf_file /\ s.ptr = r.ptr
      /\ s.stack = r.stack /\ s.task = r.task
      /\ s.chunk = r.chunk /\ s.directory = r.directory
      /\ s.ip = r.ip /\ s.span = r.span
  BY <1>1, WithIs DEF LedgerIn
<1>3. Fixed(s) = Fixed(r) /\ Image(s) = Image(r) /\ (Described(r) => Described(s))
  BY <1>2 DEF Fixed, Image, Described
<1>4. Data(s) = Fixed(r) \cup Ptrs(as)
  BY <1>2, <1>3 DEF Data, Ptrs
<1>5. Data(s) \subseteq DOMAIN h \ DOMAIN t
  <2>1. Fixed(r) \subseteq DOMAIN h \ DOMAIN t
    BY DEF Holds, Data
  <2> QED
    BY <1>4, <2>1 DEF Ptrs, LedgerIn
<1>6. Holds(h, t, s)
  BY <1>2, <1>3, <1>5 DEF Holds, LedgerIn
<1> QED
  BY <1>1, <1>4, <1>6

LEMMA WithSame ==
  ASSUME NEW r, r \in Proc, NEW as, as \in Ledger, NEW s, s = With(r, as)
  PROVE  s.filename = r.filename /\ s.allocations = as
BY WithIs

Records(ps, p, as, qs) == Becomes(ps, p, With(ps[p], as), qs)

\* The same processes, with the same maps; only p has changed.
SameMaps(t, ps, p, qs) ==
  /\ LiveIn(qs) = LiveIn(ps)
  /\ \A q \in Process : q # p => qs[q] = ps[q]
  /\ \A q \in Process : MapIn(t, qs, q) = MapIn(t, ps, q)

\* The table of allocations of a process can change.
LEMMA LedgerOwned ==
  ASSUME NEW h, NEW t, NEW ps, OwnedIn(h, t, ps), NEW p \in LiveIn(ps),
         NEW as, LedgerOK(h, t, ps, p, as),
         NEW qs, Records(ps, p, as, qs)
  PROVE  OwnedIn(h, t, qs) /\ SameMaps(t, ps, p, qs)
<1> SUFFICES /\ OwnedIn(h, t, qs) /\ LiveIn(qs) = LiveIn(ps)
             /\ \A q \in Process : q # p => qs[q] = ps[q]
             /\ \A q \in Process : MapIn(t, qs, q) = MapIn(t, ps, q)
  BY DEF SameMaps
<1> Becomes(ps, p, With(ps[p], as), qs)
  BY DEF Records
<1>1. /\ HeapOK(h) /\ ps \in [Process -> Proc] /\ p \in Process /\ ps[p] \in Proc
      /\ \A q \in LiveIn(ps) : Holds(h, t, ps[q])
      /\ \A q \in LiveIn(ps) : TablesOf(t, ps[q].directory) \subseteq DOMAIN t
      /\ \A q, r \in LiveIn(ps) : q # r =>
              /\ Data(ps[q]) \cap Data(ps[r]) = {}
              /\ TablesOf(t, ps[q].directory) \cap TablesOf(t, ps[r].directory) = {}
      /\ Tables(t) /\ DOMAIN t \subseteq DOMAIN h
      /\ \A a \in DOMAIN t : \E q \in LiveIn(ps) : a \in TablesOf(t, ps[q].directory)
  BY OwnedParts
<1>2. as \in Ledger
  BY DEF LedgerOK, LedgerIn
<1>3. /\ With(ps[p], as) \in Proc /\ With(ps[p], as).self = ps[p].self
      /\ With(ps[p], as).directory = ps[p].directory
  <2>1. ps[p] \in Proc
    BY <1>1
  <2> QED
    BY <1>2, <2>1, WithIs
<1>4. /\ qs \in [Process -> Proc] /\ qs[p] = With(ps[p], as)
      /\ \A q \in Process : q # p => qs[q] = ps[q]
  <2>1. ps \in [Process -> Proc] /\ p \in Process /\ With(ps[p], as) \in Proc
    BY <1>1, <1>3
  <2> QED
    BY <2>1 DEF Becomes
<1>5. \A q \in Process : qs[q].directory = ps[q].directory
  BY <1>3, <1>4
<1>6. \A q \in Process : qs[q].self = ps[q].self
  BY <1>3, <1>4
<1>7. LiveIn(qs) = LiveIn(ps)
  BY <1>6 DEF LiveIn
<1>8. Holds(h, t, qs[p]) /\ Data(qs[p]) = Fixed(ps[p]) \cup Ptrs(as)
  <2>1. ps[p] \in Proc /\ Holds(h, t, ps[p]) /\ LedgerIn(h, t, ps[p], as)
    BY <1>1 DEF LedgerOK
  <2>2. Holds(h, t, With(ps[p], as)) /\ Data(With(ps[p], as)) = Fixed(ps[p]) \cup Ptrs(as)
    BY <2>1, WithHolds
  <2> QED
    BY <1>4, <2>2
<1>9. \A q \in LiveIn(qs) : Holds(h, t, qs[q])
  <2> TAKE q \in LiveIn(qs)
  <2>1. q \in LiveIn(ps) /\ q \in Process
    BY <1>7 DEF LiveIn
  <2> QED
    BY <1>1, <1>4, <1>8, <2>1
<1>10. ASSUME NEW q \in LiveIn(ps), q # p PROVE Data(qs[q]) \cap Data(qs[p]) = {}
  <2>1. Data(ps[q]) \cap Data(ps[p]) = {} /\ Fixed(ps[p]) \subseteq Data(ps[p]) /\ q \in Process
    BY <1>1, <1>10 DEF Data, LiveIn
  <2>2. Data(qs[q]) = Data(ps[q])
    BY <1>4, <1>10, <2>1
  <2>3. \A a \in as : a.ptr \notin Data(ps[q])
    BY <1>10 DEF LedgerOK
  <2> QED
    BY <1>8, <2>1, <2>2, <2>3 DEF Ptrs
<1>11. ASSUME NEW q \in LiveIn(qs), NEW r \in LiveIn(qs), q # r
       PROVE  /\ Data(qs[q]) \cap Data(qs[r]) = {}
              /\ TablesOf(t, qs[q].directory) \cap TablesOf(t, qs[r].directory) = {}
  <2>1. q \in LiveIn(ps) /\ r \in LiveIn(ps) /\ q \in Process /\ r \in Process
    BY <1>7, <1>11 DEF LiveIn
  <2>2. TablesOf(t, qs[q].directory) \cap TablesOf(t, qs[r].directory) = {}
    BY <1>1, <1>5, <1>11, <2>1
  <2>3. CASE q = p
    BY <1>10, <1>11, <2>1, <2>2, <2>3
  <2>4. CASE r = p
    BY <1>10, <1>11, <2>1, <2>2, <2>4
  <2>5. CASE q # p /\ r # p
    BY <1>1, <1>4, <1>11, <2>1, <2>2, <2>5
  <2> QED
    BY <2>3, <2>4, <2>5
<1>12. \A q \in LiveIn(qs) : TablesOf(t, qs[q].directory) \subseteq DOMAIN t
  BY <1>1, <1>5, <1>7 DEF LiveIn
<1>13. \A a \in DOMAIN t : \E q \in LiveIn(qs) : a \in TablesOf(t, qs[q].directory)
  <2> TAKE a \in DOMAIN t
  <2>1. PICK q \in LiveIn(ps) : a \in TablesOf(t, ps[q].directory)
    BY <1>1
  <2>2. q \in LiveIn(qs) /\ qs[q].directory = ps[q].directory
    BY <1>5, <1>7 DEF LiveIn
  <2> QED
    BY <2>1, <2>2
<1>14. OwnedIn(h, t, qs)
  <2>1. HeapOK(h) /\ Tables(t) /\ DOMAIN t \subseteq DOMAIN h /\ qs \in [Process -> Proc]
    BY <1>1, <1>4
  <2> QED
    BY <1>9, <1>11, <1>12, <1>13, <2>1, OwnedFrom
<1>15. \A q \in Process : MapIn(t, qs, q) = MapIn(t, ps, q)
  <2> TAKE q \in Process
  <2>1. qs[q].directory = ps[q].directory
    BY <1>5
  <2> QED
    BY <1>7, <2>1 DEF MapIn
<1> QED
  BY <1>4, <1>7, <1>14, <1>15

\* What process_terminate gives back.
Freed(t, r) ==
  Ptrs(r.allocations) \cup TablesOf(t, r.directory)
    \cup {r.ptr, r.stack, r.task, r.chunk} \cup ({r.elf_file} \ {NULL})

LEMMA NoProcessIs == NoProcess \in Proc /\ NoProcess.self = NULL
BY DEF NoProcess, Proc, NoSpan, Span, NULL

\* The end of p makes g of the heap and u of the tables.
Ending(h, t, ps, p, g, u) ==
  g = kernel_free(h, Freed(t, ps[p])) /\ u = paging_free_4gb(t, ps[p].directory)

\* A process that ends takes nothing with it that another one has.
LEMMA EndOwned ==
  ASSUME NEW h, NEW t, NEW ps, OwnedIn(h, t, ps), NEW p \in LiveIn(ps),
         NEW g, NEW u, Ending(h, t, ps, p, g, u),
         NEW qs, Becomes(ps, p, NoProcess, qs)
  PROVE  /\ OwnedIn(g, u, qs) /\ LiveIn(qs) = LiveIn(ps) \ {p}
         /\ \A q \in LiveIn(qs) : qs[q] = ps[q]
         /\ \A q \in LiveIn(qs) : MapIn(u, qs, q) = MapIn(t, ps, q)
<1> g = kernel_free(h, Freed(t, ps[p])) /\ u = paging_free_4gb(t, ps[p].directory)
  BY DEF Ending
<1>1. /\ HeapOK(h) /\ ps \in [Process -> Proc] /\ p \in Process
      /\ \A q \in LiveIn(ps) : Holds(h, t, ps[q]) /\ Directory(t, ps[q].directory)
      /\ \A q \in LiveIn(ps) : TablesOf(t, ps[q].directory) \subseteq DOMAIN t
      /\ \A q, r \in LiveIn(ps) : q # r => Data(ps[q]) \cap Data(ps[r]) = {}
      /\ \A q, r \in LiveIn(ps) : q # r =>
              TablesOf(t, ps[q].directory) \cap TablesOf(t, ps[r].directory) = {}
      /\ Tables(t) /\ DOMAIN t \subseteq DOMAIN h
      /\ \A a \in DOMAIN t : \E q \in LiveIn(ps) : a \in TablesOf(t, ps[q].directory)
  BY OwnedParts
<1>2. /\ qs \in [Process -> Proc] /\ qs[p] = NoProcess
      /\ \A q \in Process : q # p => qs[q] = ps[q]
  <2>1. ps \in [Process -> Proc] /\ p \in Process /\ NoProcess \in Proc
    BY <1>1, NoProcessIs
  <2> QED
    BY <2>1 DEF Becomes
<1>3. LiveIn(qs) = LiveIn(ps) \ {p}
  BY <1>2, NoProcessIs DEF LiveIn
<1>4. \A q \in LiveIn(qs) : q \in LiveIn(ps) /\ q # p /\ qs[q] = ps[q]
  BY <1>2, <1>3 DEF LiveIn
<1>5. PICK S : S = Freed(t, ps[p])
  OBVIOUS
<1>6. /\ HeapOK(g) /\ DOMAIN g = DOMAIN h \ S
      /\ \A a \in DOMAIN h \ S : g[a] = h[a]
  <2>1. HeapOK(h)
    BY <1>1
  <2>2. /\ HeapOK(kernel_free(h, S)) /\ DOMAIN kernel_free(h, S) = DOMAIN h \ S
        /\ \A a \in DOMAIN h \ S : kernel_free(h, S)[a] = h[a]
    BY <2>1, FreeHeap
  <2>3. g = kernel_free(h, S)
    BY <1>5
  <2> QED
    BY <2>2, <2>3
<1>7. S \subseteq Data(ps[p]) \cup TablesOf(t, ps[p].directory)
  BY <1>5 DEF Freed, Data, Fixed, Ptrs
<1>8. Tables(u) /\ DOMAIN u = DOMAIN t \ TablesOf(t, ps[p].directory)
  <2>1. PICK d : d = ps[p].directory
    OBVIOUS
  <2>2. Tables(t) /\ u = paging_free_4gb(t, d)
    BY <1>1, <2>1
  <2>3. Tables(u) /\ DOMAIN u = DOMAIN t \ TablesOf(t, d)
    BY <2>2, Free4gb
  <2> QED
    BY <2>1, <2>3
<1>9. ASSUME NEW q \in LiveIn(qs)
      PROVE  /\ Directory(u, qs[q].directory)
             /\ TablesOf(u, qs[q].directory) = TablesOf(t, ps[q].directory)
             /\ Translation(u, qs[q].directory) = Translation(t, ps[q].directory)
  <2>1. Directory(t, ps[q].directory) /\ TablesOf(t, ps[q].directory) \cap TablesOf(t, ps[p].directory) = {}
    BY <1>1, <1>4
  <2>2. qs[q].directory = ps[q].directory
    BY <1>4
  <2>3. PICK d, e : d = ps[p].directory /\ e = ps[q].directory
    OBVIOUS
  <2>4. /\ Tables(t) /\ u = paging_free_4gb(t, d)
        /\ Directory(t, e) /\ TablesOf(t, e) \cap TablesOf(t, d) = {}
    BY <1>1, <2>1, <2>3
  <2>5. /\ Directory(u, e) /\ TablesOf(u, e) = TablesOf(t, e)
        /\ Translation(u, e) = Translation(t, e)
    BY <2>4, FreeOther
  <2> QED
    BY <2>2, <2>3, <2>5
<1>10. \A q \in LiveIn(ps) : Data(ps[q]) \subseteq DOMAIN h \ DOMAIN t
  BY <1>1 DEF Holds
<1>11. ASSUME NEW q \in LiveIn(qs) PROVE Holds(g, u, qs[q])
  <2>1. PICK r : r = ps[q]
    OBVIOUS
  <2>2. Holds(h, t, r) /\ Data(r) \subseteq DOMAIN h \ DOMAIN t /\ Data(r) \cap Data(ps[p]) = {}
    BY <1>1, <1>4, <1>10, <2>1
  <2>3. TablesOf(t, ps[p].directory) \subseteq DOMAIN t
    BY <1>1
  <2>4. Data(r) \subseteq DOMAIN h \ S
    BY <1>7, <2>2, <2>3
  <2>5. Data(r) \subseteq DOMAIN g \ DOMAIN u
    BY <1>6, <1>8, <2>2, <2>4
  <2>6. r.ptr \in Data(r) /\ r.stack \in Data(r) /\ \A a \in r.allocations : a.ptr \in Data(r)
    BY DEF Data, Fixed
  <2>7. g[r.ptr] = h[r.ptr] /\ g[r.stack] = h[r.stack] /\ \A a \in r.allocations : g[a.ptr] = h[a.ptr]
    BY <1>6, <2>4, <2>6
  <2>8. Directory(u, r.directory)
    BY <1>4, <1>9, <2>1
  <2>9. Holds(g, u, r)
    BY <2>2, <2>5, <2>7, <2>8 DEF Holds
  <2> QED
    BY <1>4, <2>1, <2>9
<1>12. ASSUME NEW q \in LiveIn(qs), NEW r \in LiveIn(qs), q # r
       PROVE  /\ Data(qs[q]) \cap Data(qs[r]) = {}
              /\ TablesOf(u, qs[q].directory) \cap TablesOf(u, qs[r].directory) = {}
  <2>1. q \in LiveIn(ps) /\ r \in LiveIn(ps) /\ qs[q] = ps[q] /\ qs[r] = ps[r]
    BY <1>4
  <2>2. /\ Data(ps[q]) \cap Data(ps[r]) = {}
        /\ TablesOf(t, ps[q].directory) \cap TablesOf(t, ps[r].directory) = {}
    BY <1>1, <1>12, <2>1
  <2> QED
    BY <1>9, <2>1, <2>2
<1>13. ASSUME NEW q \in LiveIn(qs) PROVE TablesOf(u, qs[q].directory) \subseteq DOMAIN u
  <2>1. q \in LiveIn(ps) /\ q # p
    BY <1>4
  <2>2. TablesOf(t, ps[q].directory) \subseteq DOMAIN t \ TablesOf(t, ps[p].directory)
    BY <1>1, <2>1
  <2> QED
    BY <1>8, <1>9, <2>2
<1>14. ASSUME NEW a \in DOMAIN u PROVE \E q \in LiveIn(qs) : a \in TablesOf(u, qs[q].directory)
  <2>1. a \in DOMAIN t /\ a \notin TablesOf(t, ps[p].directory)
    BY <1>8
  <2>2. PICK q \in LiveIn(ps) : a \in TablesOf(t, ps[q].directory)
    BY <1>1, <2>1
  <2>3. q \in LiveIn(qs)
    BY <1>3, <2>1, <2>2
  <2> QED
    BY <1>9, <2>2, <2>3
<1>15. OwnedIn(g, u, qs)
  <2>1. DOMAIN u \subseteq DOMAIN g
    <3>1. Data(ps[p]) \cap DOMAIN t = {}
      BY <1>10
    <3> QED
      BY <1>1, <1>6, <1>7, <1>8, <3>1
  <2>2. HeapOK(g) /\ Tables(u) /\ qs \in [Process -> Proc]
    BY <1>2, <1>6, <1>8
  <2> QED
    BY <1>11, <1>12, <1>13, <1>14, <2>1, <2>2, OwnedFrom
<1>16. ASSUME NEW q \in LiveIn(qs) PROVE MapIn(u, qs, q) = MapIn(t, ps, q)
  <2>1. q \in LiveIn(ps)
    BY <1>4
  <2> QED
    BY <1>9, <2>1 DEF MapIn
<1> QED
  BY <1>3, <1>4, <1>15, <1>16

\* A new directory changes no other one.
LEMMA CreatedOther ==
  ASSUME NEW t, NEW u, NEW d, NEW used, Created(t, u, d, used), NEW e, Directory(t, e)
  PROVE  /\ Directory(u, e) /\ TablesOf(u, e) = TablesOf(t, e)
         /\ Translation(u, e) = Translation(t, e)
<1>1. DOMAIN u = DOMAIN t \cup used /\ \A a \in DOMAIN t : u[a] = t[a]
  BY DEF Created
<1>2. u[e] = t[e] /\ e \in DOMAIN t
  BY <1>1 DEF Directory
<1>3. \A i \in Index : Frame(t[e][i]) \in DOMAIN t
  BY DEF Directory
<1>4. Directory(u, e) /\ TablesOf(u, e) = TablesOf(t, e)
  BY <1>1, <1>2, <1>3 DEF Directory, TablesOf
<1>5. \A v \in Page : Translation(u, e)[v] = Translation(t, e)[v]
  <2> TAKE v \in Page
  <2>1. PICK ix : ix = paging_get_indexes(v)
    OBVIOUS
  <2>2. ix.directory \in Index /\ Translation(t, e)[v] = t[Frame(t[e][ix.directory])][ix.table]
    BY <2>1, PagingGet
  <2>3. Translation(u, e)[v] = u[Frame(u[e][ix.directory])][ix.table]
    BY <1>4, <2>1, PagingGet
  <2> QED
    BY <1>1, <1>2, <1>3, <2>2, <2>3
<1> QED
  BY <1>4, <1>5 DEF Translation

\* A process that was loaded into new blocks: used holds its page tables.
NewProcess(h, t, g, u, r, used) ==
  /\ HeapOK(g) /\ DOMAIN h \subseteq DOMAIN g /\ \A a \in DOMAIN h : g[a] = h[a]
  /\ Created(t, u, r.directory, used)
  /\ used \subseteq DOMAIN g \ DOMAIN h
  /\ r \in Proc /\ r.self # NULL /\ r.allocations = {}
  /\ r.filename \in DOMAIN ImageOf
  /\ {r.self, r.ptr, r.stack, r.task, r.chunk, r.directory} \subseteq HeapPages
  /\ Described(r)
  /\ Fixed(r) \subseteq (DOMAIN g \ DOMAIN h) \ used
  /\ g[r.ptr] = Pages(Image(r).size)
  /\ g[r.stack] = Pages(OS_USER_PROGRAM_VIRTUAL_STACK_SIZE)

LEMMA LoadOwned ==
  ASSUME NEW h, NEW t, NEW ps, OwnedIn(h, t, ps), NEW p \in Process, p \notin LiveIn(ps),
         NEW g, NEW u, NEW r, NEW used, NewProcess(h, t, g, u, r, used),
         NEW qs, Becomes(ps, p, r, qs)
  PROVE  /\ OwnedIn(g, u, qs) /\ LiveIn(qs) = LiveIn(ps) \cup {p}
         /\ qs[p] = r /\ MapIn(u, qs, p) = Fresh
         /\ \A q \in Process : q # p => qs[q] = ps[q]
         /\ \A q \in Process : q # p => MapIn(u, qs, q) = MapIn(t, ps, q)
<1>1. /\ HeapOK(h) /\ ps \in [Process -> Proc]
      /\ \A q \in LiveIn(ps) : Holds(h, t, ps[q]) /\ Directory(t, ps[q].directory)
      /\ \A q \in LiveIn(ps) : TablesOf(t, ps[q].directory) \subseteq DOMAIN t
      /\ \A q, s \in LiveIn(ps) : q # s => Data(ps[q]) \cap Data(ps[s]) = {}
      /\ \A q, s \in LiveIn(ps) : q # s =>
              TablesOf(t, ps[q].directory) \cap TablesOf(t, ps[s].directory) = {}
      /\ Tables(t) /\ DOMAIN t \subseteq DOMAIN h
      /\ \A a \in DOMAIN t : \E q \in LiveIn(ps) : a \in TablesOf(t, ps[q].directory)
  BY OwnedParts
<1>2. /\ r \in Proc /\ r.self # NULL /\ r.allocations = {}
      /\ HeapOK(g) /\ DOMAIN h \subseteq DOMAIN g /\ \A a \in DOMAIN h : g[a] = h[a]
      /\ used \subseteq DOMAIN g \ DOMAIN h
      /\ Fixed(r) \subseteq (DOMAIN g \ DOMAIN h) \ used
  BY DEF NewProcess
<1>3. /\ Tables(u) /\ DOMAIN u = DOMAIN t \cup used
      /\ Directory(u, r.directory) /\ TablesOf(u, r.directory) = used
      /\ Translation(u, r.directory) = Fresh
  BY DEF NewProcess, Created
<1>4. /\ qs \in [Process -> Proc] /\ qs[p] = r
      /\ \A q \in Process : q # p => qs[q] = ps[q]
  BY <1>1, <1>2 DEF Becomes
<1>5. LiveIn(qs) = LiveIn(ps) \cup {p}
  BY <1>2, <1>4 DEF LiveIn
<1>6. \A q \in LiveIn(ps) : q \in Process /\ q # p /\ qs[q] = ps[q]
  BY <1>4 DEF LiveIn
<1>7. ASSUME NEW q \in LiveIn(ps)
      PROVE  /\ Directory(u, ps[q].directory)
             /\ TablesOf(u, ps[q].directory) = TablesOf(t, ps[q].directory)
             /\ Translation(u, ps[q].directory) = Translation(t, ps[q].directory)
  <2>1. Directory(t, ps[q].directory) /\ Created(t, u, r.directory, used)
    BY <1>1 DEF NewProcess
  <2> QED
    BY <2>1, CreatedOther
<1>8. \A q \in LiveIn(ps) : Data(ps[q]) \subseteq DOMAIN h \ DOMAIN t
  BY <1>1 DEF Holds
<1>9. Data(r) = Fixed(r)
  BY <1>2 DEF Data
<1>10. Holds(g, u, r)
  <2>1. Data(r) \subseteq DOMAIN g \ DOMAIN u
    BY <1>1, <1>2, <1>3, <1>9
  <2> QED
    BY <1>2, <1>3, <2>1 DEF Holds, NewProcess
<1>11. ASSUME NEW q \in LiveIn(ps) PROVE Holds(g, u, ps[q])
  <2>1. PICK s : s = ps[q]
    OBVIOUS
  <2>2. Holds(h, t, s) /\ Data(s) \subseteq DOMAIN h \ DOMAIN t
    BY <1>1, <1>8, <2>1
  <2>3. Data(s) \subseteq DOMAIN g \ DOMAIN u
    BY <1>2, <1>3, <2>2
  <2>4. s.ptr \in Data(s) /\ s.stack \in Data(s) /\ \A a \in s.allocations : a.ptr \in Data(s)
    BY DEF Data, Fixed
  <2>5. g[s.ptr] = h[s.ptr] /\ g[s.stack] = h[s.stack] /\ \A a \in s.allocations : g[a.ptr] = h[a.ptr]
    BY <1>2, <2>2, <2>4
  <2>6. Directory(u, s.directory)
    BY <1>7, <2>1
  <2>7. Holds(g, u, s)
    BY <2>2, <2>3, <2>5, <2>6 DEF Holds
  <2> QED
    BY <2>1, <2>7
<1>12. ASSUME NEW q \in LiveIn(qs) PROVE Holds(g, u, qs[q])
  BY <1>4, <1>5, <1>6, <1>10, <1>11
<1>13. ASSUME NEW q \in LiveIn(ps)
       PROVE  /\ Data(ps[q]) \cap Data(r) = {}
              /\ TablesOf(u, ps[q].directory) \cap TablesOf(u, r.directory) = {}
  <2>1. TablesOf(t, ps[q].directory) \subseteq DOMAIN h
    BY <1>1
  <2>2. Data(ps[q]) \subseteq DOMAIN h
    BY <1>8
  <2>3. TablesOf(u, ps[q].directory) = TablesOf(t, ps[q].directory)
    BY <1>7
  <2> QED
    BY <1>2, <1>3, <1>9, <2>1, <2>2, <2>3
<1>14. ASSUME NEW q \in LiveIn(qs), NEW s \in LiveIn(qs), q # s
       PROVE  /\ Data(qs[q]) \cap Data(qs[s]) = {}
              /\ TablesOf(u, qs[q].directory) \cap TablesOf(u, qs[s].directory) = {}
  <2>1. CASE q = p
    <3>1. s \in LiveIn(ps) /\ qs[s] = ps[s] /\ qs[q] = r
      BY <1>4, <1>5, <1>6, <1>14, <2>1
    <3> QED
      BY <1>13, <3>1
  <2>2. CASE s = p
    <3>1. q \in LiveIn(ps) /\ qs[q] = ps[q] /\ qs[s] = r
      BY <1>4, <1>5, <1>6, <1>14, <2>2
    <3> QED
      BY <1>13, <3>1
  <2>3. CASE q # p /\ s # p
    <3>1. q \in LiveIn(ps) /\ s \in LiveIn(ps) /\ qs[q] = ps[q] /\ qs[s] = ps[s]
      BY <1>5, <1>6, <2>3
    <3>2. /\ Data(ps[q]) \cap Data(ps[s]) = {}
          /\ TablesOf(t, ps[q].directory) \cap TablesOf(t, ps[s].directory) = {}
      BY <1>1, <1>14, <3>1
    <3> QED
      BY <1>7, <3>1, <3>2
  <2> QED
    BY <2>1, <2>2, <2>3
<1>15. ASSUME NEW q \in LiveIn(qs) PROVE TablesOf(u, qs[q].directory) \subseteq DOMAIN u
  <2>1. CASE q = p
    BY <1>3, <1>4, <2>1
  <2>2. CASE q # p
    <3>1. q \in LiveIn(ps) /\ qs[q] = ps[q]
      BY <1>5, <1>6, <2>2
    <3>2. TablesOf(t, ps[q].directory) \subseteq DOMAIN t
      BY <1>1, <3>1
    <3> QED
      BY <1>3, <1>7, <3>1, <3>2
  <2> QED
    BY <2>1, <2>2
<1>16. ASSUME NEW a \in DOMAIN u PROVE \E q \in LiveIn(qs) : a \in TablesOf(u, qs[q].directory)
  <2>1. CASE a \in used
    BY <1>3, <1>4, <1>5, <2>1
  <2>2. CASE a \in DOMAIN t
    <3>1. PICK q \in LiveIn(ps) : a \in TablesOf(t, ps[q].directory)
      BY <1>1, <2>2
    <3>2. q \in LiveIn(qs) /\ qs[q] = ps[q]
      BY <1>5, <1>6
    <3> QED
      BY <1>7, <3>1, <3>2
  <2> QED
    BY <1>3, <2>1, <2>2
<1>17. OwnedIn(g, u, qs)
  <2>1. DOMAIN u \subseteq DOMAIN g /\ HeapOK(g) /\ Tables(u) /\ qs \in [Process -> Proc]
    BY <1>1, <1>2, <1>3, <1>4
  <2> QED
    BY <1>12, <1>14, <1>15, <1>16, <2>1, OwnedFrom
<1>18. MapIn(u, qs, p) = Fresh
  <2>1. p \in LiveIn(qs)
    BY <1>5
  <2> QED
    BY <1>3, <1>4, <2>1 DEF MapIn
<1>19. ASSUME NEW q \in Process, q # p PROVE MapIn(u, qs, q) = MapIn(t, ps, q)
  <2>1. CASE q \in LiveIn(ps)
    <3>1. q \in LiveIn(qs) /\ qs[q] = ps[q]
      BY <1>5, <1>6, <2>1
    <3> QED
      BY <1>7, <2>1, <3>1 DEF MapIn
  <2>2. CASE q \notin LiveIn(ps)
    <3>1. q \notin LiveIn(qs)
      BY <1>5, <1>19, <2>2
    <3> QED
      BY <2>2, <3>1 DEF MapIn
  <2> QED
    BY <2>1, <2>2
<1> QED
  BY <1>4, <1>5, <1>17, <1>18, <1>19

------------------------------------------------------------------------------
(* The span of an ELF file. *)

SpanOne(s, mem, phdr) ==
  IF phdr.type = "PT_LOAD" THEN elf_process_phdr_pt_load(s, mem, phdr) ELSE s

\* f[i] is the span of the first i segments.
Spans(mem, phdrs, k, f) ==
  f = [i \in 0 .. k |-> IF i = 0 THEN NoSpan ELSE SpanOne(f[i - 1], mem, phdrs[i])]

LEMMA SpansExists ==
  ASSUME NEW mem, NEW phdrs, NEW n \in Nat
  PROVE  \E f : Spans(mem, phdrs, n, f)
<1> DEFINE S == {k \in Nat : ~\E f : Spans(mem, phdrs, k, f)}
<1> SUFFICES ASSUME S # {} PROVE FALSE
  OBVIOUS
<1>1. S \in SUBSET Nat
  OBVIOUS
<1>2. PICK k \in S : \A j \in S : k <= j
  BY <1>1, LeastExists
<1>3. CASE k = 0
  <2>1. PICK f : f = [i \in 0 .. k |-> NoSpan]
    OBVIOUS
  <2>2. \A i \in 0 .. k : i = 0
    BY <1>3
  <2>3. f = [i \in 0 .. k |-> IF i = 0 THEN NoSpan ELSE SpanOne(f[i - 1], mem, phdrs[i])]
    BY <2>1, <2>2
  <2> QED
    BY <2>3 DEF Spans
<1>4. CASE k # 0
  <2>1. k - 1 \in Nat /\ k - 1 \notin S
    BY <1>2, <1>4
  <2>2. PICK g : Spans(mem, phdrs, k - 1, g)
    BY <2>1
  <2>3. PICK f : f = [i \in 0 .. k |-> IF i = k THEN SpanOne(g[k - 1], mem, phdrs[k]) ELSE g[i]]
    OBVIOUS
  <2>4. \A i \in 0 .. k - 1 : g[i] = IF i = 0 THEN NoSpan ELSE SpanOne(g[i - 1], mem, phdrs[i])
    BY <2>2 DEF Spans
  <2>5. \A i \in 0 .. k : f[i] = IF i = 0 THEN NoSpan ELSE SpanOne(f[i - 1], mem, phdrs[i])
    <3> SUFFICES ASSUME NEW i \in 0 .. k
                 PROVE  f[i] = IF i = 0 THEN NoSpan ELSE SpanOne(f[i - 1], mem, phdrs[i])
      OBVIOUS
    <3>1. CASE i = k
      <4>1. k - 1 \in 0 .. k /\ k - 1 # k /\ k \in 0 .. k
        BY <2>1
      <4>2. f[k] = SpanOne(g[k - 1], mem, phdrs[k]) /\ f[k - 1] = g[k - 1]
        BY <2>3, <4>1
      <4> QED
        BY <1>4, <3>1, <4>2
    <3>2. CASE i # k
      <4>1. i \in 0 .. k - 1 /\ f[i] = g[i]
        BY <2>1, <2>3, <3>2
      <4>2. CASE i = 0
        BY <2>4, <4>1, <4>2
      <4>3. CASE i # 0
        <5>1. i - 1 \in 0 .. k /\ i - 1 # k
          BY <2>1, <4>1, <4>3
        <5>2. f[i - 1] = g[i - 1]
          BY <2>3, <5>1
        <5> QED
          BY <2>4, <4>1, <4>3, <5>2
      <4> QED
        BY <4>2, <4>3
    <3> QED
      BY <3>1, <3>2
  <2>6. f = [i \in 0 .. k |-> f[i]]
    BY <2>3
  <2>7. f = [i \in 0 .. k |-> IF i = 0 THEN NoSpan ELSE SpanOne(f[i - 1], mem, phdrs[i])]
    BY <2>5, <2>6
  <2> QED
    BY <2>7 DEF Spans
<1> QED
  BY <1>3, <1>4

Loaded(phdrs, k) == {i \in 1 .. k : phdrs[i].type = "PT_LOAD"}

Low(s, mem, phdr) ==
  s.virtual_base = phdr.vaddr /\ s.physical_base = mem + phdr.offset

High(s, mem, phdr) ==
  /\ s.virtual_end = phdr.vaddr + phdr.filesz
  /\ s.physical_end = mem + phdr.offset + phdr.filesz

Around(s, phdr) ==
  s.virtual_base <= phdr.vaddr /\ phdr.vaddr + phdr.filesz <= s.virtual_end

\* s begins with one of the first k segments, ends with one, and has them all.
Spanned(s, mem, phdrs, k) ==
  /\ s \in Span
  /\ Loaded(phdrs, k) = {} => s = NoSpan
  /\ \A i \in Loaded(phdrs, k) : Around(s, phdrs[i])
  /\ Loaded(phdrs, k) # {} => \E i \in Loaded(phdrs, k) : Low(s, mem, phdrs[i])
  /\ Loaded(phdrs, k) # {} => \E i \in Loaded(phdrs, k) : High(s, mem, phdrs[i])

\* Segments that are loaded have memory and are not at address 0.
Loadable(phdrs, n) ==
  \A i \in 1 .. n : /\ phdrs[i] \in ProgramHeader
                    /\ phdrs[i].type = "PT_LOAD" => phdrs[i].vaddr > 0 /\ phdrs[i].memsz > 0

\* One segment more.
LEMMA SpanOneIs ==
  ASSUME NEW s \in Span, NEW mem \in Nat, NEW phdr \in ProgramHeader,
         NEW u, u = elf_process_phdr_pt_load(s, mem, phdr)
  PROVE  /\ u \in Span
         /\ Around(u, phdr)
         /\ s.virtual_base = 0 => Low(u, mem, phdr)
         /\ s.virtual_end = 0 => High(u, mem, phdr)
         /\ Low(u, mem, phdr) \/ (u.virtual_base = s.virtual_base /\ u.physical_base = s.physical_base)
         /\ High(u, mem, phdr) \/ (u.virtual_end = s.virtual_end /\ u.physical_end = s.physical_end)
         /\ s.virtual_base # 0 => u.virtual_base <= s.virtual_base
         /\ s.virtual_end # 0 => s.virtual_end <= u.virtual_end
<1>1. /\ phdr.vaddr \in Nat /\ phdr.offset \in Nat /\ phdr.filesz \in Nat
      /\ s.virtual_base \in Nat /\ s.physical_base \in Nat
      /\ s.virtual_end \in Nat /\ s.physical_end \in Nat
  BY DEF ProgramHeader, Span
<1> DEFINE low == s.virtual_base = 0 \/ s.virtual_base >= phdr.vaddr
           high == s.virtual_end = 0 \/ s.virtual_end <= phdr.vaddr + phdr.filesz
<1>2. u = [virtual_base |-> IF low THEN phdr.vaddr ELSE s.virtual_base,
           physical_base |-> IF low THEN mem + phdr.offset ELSE s.physical_base,
           virtual_end |-> IF high THEN phdr.vaddr + phdr.filesz ELSE s.virtual_end,
           physical_end |-> IF high THEN mem + phdr.offset + phdr.filesz ELSE s.physical_end]
  BY DEF elf_process_phdr_pt_load, elf_phdr_phys_address
<1>3. /\ u.virtual_base = IF low THEN phdr.vaddr ELSE s.virtual_base
      /\ u.physical_base = IF low THEN mem + phdr.offset ELSE s.physical_base
      /\ u.virtual_end = IF high THEN phdr.vaddr + phdr.filesz ELSE s.virtual_end
      /\ u.physical_end = IF high THEN mem + phdr.offset + phdr.filesz ELSE s.physical_end
  BY <1>2
<1>4. u \in Span
  BY <1>1, <1>2 DEF Span
<1>5. Around(u, phdr)
  BY <1>1, <1>3 DEF Around
<1>6. (s.virtual_base = 0 => Low(u, mem, phdr)) /\ (s.virtual_end = 0 => High(u, mem, phdr))
  BY <1>3 DEF Low, High
<1>7. /\ Low(u, mem, phdr) \/ (u.virtual_base = s.virtual_base /\ u.physical_base = s.physical_base)
      /\ High(u, mem, phdr) \/ (u.virtual_end = s.virtual_end /\ u.physical_end = s.physical_end)
  BY <1>3 DEF Low, High
<1>8. /\ s.virtual_base # 0 => u.virtual_base <= s.virtual_base
      /\ s.virtual_end # 0 => s.virtual_end <= u.virtual_end
  BY <1>1, <1>3
<1> QED
  BY <1>4, <1>5, <1>6, <1>7, <1>8

LEMMA SpanStep ==
  ASSUME NEW mem \in Nat, NEW phdrs, NEW n \in Nat, Loadable(phdrs, n),
         NEW j \in Nat, NEW k \in 1 .. n, k = j + 1,
         NEW s, Spanned(s, mem, phdrs, j), NEW u, u = SpanOne(s, mem, phdrs[k])
  PROVE  Spanned(u, mem, phdrs, k)
<1>1. PICK phdr : phdr = phdrs[k]
  OBVIOUS
<1>2. phdr \in ProgramHeader /\ s \in Span
  BY <1>1 DEF Loadable, Spanned
<1>3. CASE phdr.type # "PT_LOAD"
  <2>1. u = s
    BY <1>1, <1>3 DEF SpanOne
  <2>2. Loaded(phdrs, k) = Loaded(phdrs, j)
    <3>1. \A i : i \in 1 .. k <=> i \in 1 .. j \/ i = k
      OBVIOUS
    <3> QED
      BY <1>1, <1>3, <3>1 DEF Loaded
  <2> QED
    BY <2>1, <2>2 DEF Spanned
<1>4. CASE phdr.type = "PT_LOAD"
  <2>1. u = elf_process_phdr_pt_load(s, mem, phdr)
    BY <1>1, <1>4 DEF SpanOne
  <2>2. /\ u \in Span
        /\ Around(u, phdr)
        /\ s.virtual_base = 0 => Low(u, mem, phdr)
        /\ s.virtual_end = 0 => High(u, mem, phdr)
        /\ Low(u, mem, phdr) \/ (u.virtual_base = s.virtual_base /\ u.physical_base = s.physical_base)
        /\ High(u, mem, phdr) \/ (u.virtual_end = s.virtual_end /\ u.physical_end = s.physical_end)
        /\ s.virtual_base # 0 => u.virtual_base <= s.virtual_base
        /\ s.virtual_end # 0 => s.virtual_end <= u.virtual_end
    BY <1>2, <2>1, SpanOneIs
  <2>3. Loaded(phdrs, k) = Loaded(phdrs, j) \cup {k}
    <3>1. \A i : i \in 1 .. k <=> i \in 1 .. j \/ i = k
      OBVIOUS
    <3> QED
      BY <1>1, <1>4, <3>1 DEF Loaded
  <2>4. \A i \in Loaded(phdrs, j) : i \in 1 .. n /\ phdrs[i].type = "PT_LOAD"
    BY DEF Loaded
  <2>5. \A i \in Loaded(phdrs, j) : phdrs[i].vaddr \in Nat /\ phdrs[i].vaddr > 0 /\ phdrs[i].filesz \in Nat
    BY <2>4 DEF Loadable, ProgramHeader
  <2>6. ASSUME Loaded(phdrs, j) # {} PROVE s.virtual_base # 0 /\ s.virtual_end # 0
    <3>1. PICK i \in Loaded(phdrs, j) : Low(s, mem, phdrs[i])
      BY <2>6 DEF Spanned
    <3>2. s.virtual_base # 0
      BY <2>5, <3>1 DEF Low
    <3>3. PICK l \in Loaded(phdrs, j) : High(s, mem, phdrs[l])
      BY <2>6 DEF Spanned
    <3>4. s.virtual_end # 0
      BY <2>5, <3>3 DEF High
    <3> QED
      BY <3>2, <3>4
  <2>7. ASSUME Loaded(phdrs, j) = {} PROVE s.virtual_base = 0 /\ s.virtual_end = 0
    BY <2>7 DEF Spanned, NoSpan
  <2>8. ASSUME NEW i \in Loaded(phdrs, k) PROVE Around(u, phdrs[i])
    <3>1. CASE i = k
      BY <1>1, <2>2, <3>1
    <3>2. CASE i \in Loaded(phdrs, j)
      <4>1. Around(s, phdrs[i])
        BY <3>2 DEF Spanned
      <4>2. u.virtual_base <= s.virtual_base /\ s.virtual_end <= u.virtual_end
        BY <2>2, <2>6, <3>2
      <4>3. /\ s.virtual_base \in Nat /\ s.virtual_end \in Nat
            /\ u.virtual_base \in Nat /\ u.virtual_end \in Nat
        BY <1>2, <2>2 DEF Span
      <4> QED
        BY <2>5, <3>2, <4>1, <4>2, <4>3 DEF Around
    <3> QED
      BY <2>3, <3>1, <3>2
  <2>9. \E i \in Loaded(phdrs, k) : Low(u, mem, phdrs[i])
    <3>1. CASE Low(u, mem, phdr)
      BY <1>1, <2>3, <3>1
    <3>2. CASE ~Low(u, mem, phdr)
      <4>1. u.virtual_base = s.virtual_base /\ u.physical_base = s.physical_base /\ Loaded(phdrs, j) # {}
        BY <2>2, <2>7, <3>2
      <4>2. PICK i \in Loaded(phdrs, j) : Low(s, mem, phdrs[i])
        BY <4>1 DEF Spanned
      <4> QED
        BY <2>3, <4>1, <4>2 DEF Low
    <3> QED
      BY <3>1, <3>2
  <2>10. \E i \in Loaded(phdrs, k) : High(u, mem, phdrs[i])
    <3>1. CASE High(u, mem, phdr)
      BY <1>1, <2>3, <3>1
    <3>2. CASE ~High(u, mem, phdr)
      <4>1. u.virtual_end = s.virtual_end /\ u.physical_end = s.physical_end /\ Loaded(phdrs, j) # {}
        BY <2>2, <2>7, <3>2
      <4>2. PICK i \in Loaded(phdrs, j) : High(s, mem, phdrs[i])
        BY <4>1 DEF Spanned
      <4> QED
        BY <2>3, <4>1, <4>2 DEF High
    <3> QED
      BY <3>1, <3>2
  <2>11. Loaded(phdrs, k) # {}
    BY <2>3
  <2> QED
    BY <2>2, <2>8, <2>9, <2>10, <2>11 DEF Spanned
<1> QED
  BY <1>3, <1>4

\* elf_process_pheaders finds where the segments begin and end.
LEMMA SpanIs ==
  ASSUME NEW mem \in Nat, NEW phdrs, NEW k \in Nat, Len(phdrs) = k, Loadable(phdrs, k),
         NEW s, s = elf_process_pheaders(mem, phdrs)
  PROVE  Spanned(s, mem, phdrs, k)
<1>1. PICK f : f = CHOOSE x : Spans(mem, phdrs, k, x)
  OBVIOUS
<1>2. s = f[k]
  BY <1>1 DEF elf_process_pheaders, Spans, SpanOne
<1>3. Spans(mem, phdrs, k, f)
  BY <1>1, SpansExists
<1>4. \A i \in 0 .. k : f[i] = IF i = 0 THEN NoSpan ELSE SpanOne(f[i - 1], mem, phdrs[i])
  BY <1>3 DEF Spans
<1> DEFINE Ok(i) == Spanned(f[i], mem, phdrs, i)
<1> DEFINE S == {i \in 0 .. k : ~Ok(i)}
<1>5. S = {}
  <2> SUFFICES ASSUME S # {} PROVE FALSE
    OBVIOUS
  <2>1. S \in SUBSET Nat
    OBVIOUS
  <2>2. PICK i \in S : \A j \in S : i <= j
    BY <2>1, LeastExists
  <2>3. CASE i = 0
    <3>1. f[i] = NoSpan
      BY <1>4, <2>3
    <3>2. Loaded(phdrs, 0) = {}
      BY DEF Loaded
    <3>3. NoSpan \in Span
      BY DEF NoSpan, Span
    <3>4. Spanned(NoSpan, mem, phdrs, 0)
      BY <3>2, <3>3 DEF Spanned
    <3> QED
      BY <2>2, <2>3, <3>1, <3>4
  <2>4. CASE i # 0
    <3>1. i - 1 \in 0 .. k /\ i - 1 \in Nat /\ i \in 0 .. k
      BY <2>2, <2>4
    <3>2. i - 1 \notin S
      BY <2>2, <3>1
    <3>3. PICK u, j : u = f[i - 1] /\ j = i - 1
      OBVIOUS
    <3>4. i = j + 1 /\ j \in Nat /\ i \in 1 .. k
      BY <2>4, <3>1, <3>3
    <3>5. Spanned(u, mem, phdrs, j)
      BY <3>1, <3>2, <3>3
    <3>6. f[i] = SpanOne(u, mem, phdrs[i])
      BY <1>4, <2>4, <3>1, <3>3
    <3>7. Spanned(f[i], mem, phdrs, i)
      BY <3>4, <3>5, <3>6, SpanStep
    <3> QED
      BY <2>2, <3>7
  <2> QED
    BY <2>3, <2>4
<1>6. k \in 0 .. k
  OBVIOUS
<1> QED
  BY <1>2, <1>5, <1>6

\* The assumptions about the files, in parts.
LEMMA ImageIs ==
  ASSUME NEW name \in DOMAIN ImageOf, NEW image, image = ImageOf[name]
  PROVE  /\ image.size \in 1 .. WORD - P
         /\ Len(image.phdrs) \in Nat /\ DOMAIN image.phdrs = 1 .. Len(image.phdrs)
         /\ Loadable(image.phdrs, Len(image.phdrs))
         /\ elf_validate_loaded(image.header) \in BOOLEAN
         /\ elf_validate_loaded(image.header) => image.header.entry \in Nat
<1>1. image.size \in 1 .. WORD - P
  BY ImageAssumption DEF P
<1>2. image.phdrs \in Seq(ProgramHeader)
  BY ImageAssumption
<1>3. /\ Len(image.phdrs) \in Nat /\ DOMAIN image.phdrs = 1 .. Len(image.phdrs)
      /\ \A i \in 1 .. Len(image.phdrs) : image.phdrs[i] \in ProgramHeader
  BY <1>2
<1>4. Loadable(image.phdrs, Len(image.phdrs))
  <2>1. ASSUME NEW i \in 1 .. Len(image.phdrs), image.phdrs[i].type = "PT_LOAD"
        PROVE  image.phdrs[i].vaddr > 0 /\ image.phdrs[i].memsz > 0
    <3>1. i \in DOMAIN ImageOf[name].phdrs
      BY <1>3
    <3> QED
      BY <2>1, <3>1, ImageAssumption
  <2> QED
    BY <1>3, <2>1 DEF Loadable
<1>5. elf_validate_loaded(image.header) \in BOOLEAN
  BY DEF elf_validate_loaded, elf_valid_ident, elf_has_program_header
<1>6. ASSUME elf_validate_loaded(image.header) PROVE image.header.entry \in Nat
  <2>1. PICK i \in DOMAIN image.phdrs :
          image.header.entry \in image.phdrs[i].vaddr .. image.phdrs[i].vaddr + image.phdrs[i].filesz - 1
    BY <1>6, ImageAssumption
  <2>2. image.phdrs[i].vaddr \in Nat /\ image.phdrs[i].filesz \in Nat
    BY <1>3, <2>1 DEF ProgramHeader
  <2> QED
    BY <2>1, <2>2
<1> QED
  BY <1>1, <1>3, <1>4, <1>5, <1>6

------------------------------------------------------------------------------
(* Loading. *)

LEMMA ConcatIs ==
  ASSUME NEW S, NEW s \in Seq(S), NEW t \in Seq(S)
  PROVE  /\ s \o t \in Seq(S) /\ Len(s \o t) = Len(s) + Len(t)
         /\ \A i \in 1 .. Len(s) : (s \o t)[i] = s[i]
         /\ \A i \in 1 .. Len(t) : (s \o t)[Len(s) + i] = t[i]
OBVIOUS

LEMMA SizesAre ==
  /\ 1 \in 1 .. WORD - P /\ P \in 1 .. WORD - P
  /\ OS_USER_PROGRAM_VIRTUAL_STACK_SIZE \in 1 .. WORD - P
  /\ \A size \in Sizes : size \in 1 .. WORD - P
<1>1. HEAP_ADDRESS \in Nat /\ HEAP_ADDRESS # 0 /\ HEAP_ADDRESS < WORD /\ Aligned(HEAP_ADDRESS)
  BY HeapPagesAre, Constants DEF Aligned
<1>2. PICK n \in Nat : HEAP_ADDRESS = n * P
  BY <1>1, AlignedIs
<1>3. P \in Nat /\ P >= 8 /\ WORD \in Nat /\ E \in Nat /\ WORD = (E * E) * P
  BY Constants
<1>4. P <= HEAP_ADDRESS
  BY <1>1, <1>2, <1>3
<1>5. PICK m : m = E * E
  OBVIOUS
<1>6. m \in Nat /\ WORD = m * P
  BY <1>3, <1>5
<1>7. m >= 2
  <2> SUFFICES ASSUME m < 2 PROVE FALSE
    BY <1>6
  <2>1. m = 0 \/ m = 1
    BY <1>6
  <2> QED
    BY <1>1, <1>3, <1>4, <1>6, <2>1
<1>8. 2 * P <= WORD
  BY <1>3, <1>6, <1>7
<1> QED
  BY <1>3, <1>8, SizesAssumption DEF P

LEMMA RequestsAre ==
  ASSUME NEW name \in DOMAIN ImageOf, NEW image, image = ImageOf[name],
         NEW n, n = IF elf_validate_loaded(image.header) THEN 4 ELSE 5,
         NEW sizes, sizes = Requests(image)
  PROVE  /\ Len(sizes) = n + E + 3
         /\ \A i \in 1 .. n + E + 3 : sizes[i] \in 1 .. WORD - P
         /\ sizes[n - 1] = image.size
         /\ sizes[n] = OS_USER_PROGRAM_VIRTUAL_STACK_SIZE
<1>1. PICK S : S = 1 .. WORD - P
  OBVIOUS
<1>2. PICK stack : stack = OS_USER_PROGRAM_VIRTUAL_STACK_SIZE
  OBVIOUS
<1>3. 1 \in S /\ P \in S /\ stack \in S /\ image.size \in S
  BY <1>1, <1>2, SizesAre, ImageIs
<1>4. PICK a : a = <<1, 1, image.size>>
  OBVIOUS
<1>5. a \in Seq(S) /\ Len(a) = 3 /\ a[3] = image.size
  BY <1>3, <1>4
<1>6. PICK b : b = IF elf_validate_loaded(image.header) THEN << >> ELSE <<image.size>>
  OBVIOUS
<1>7. /\ b \in Seq(S)
      /\ (n = 4 /\ Len(b) = 0) \/ (n = 5 /\ Len(b) = 1 /\ b[1] = image.size)
  <2>1. CASE elf_validate_loaded(image.header)
    <3>1. b = << >> /\ n = 4
      BY <1>6, <2>1
    <3> QED
      BY <3>1
  <2>2. CASE ~elf_validate_loaded(image.header)
    <3>1. b = <<image.size>> /\ n = 5
      BY <1>6, <2>2
    <3> QED
      BY <1>3, <3>1
  <2> QED
    BY <2>1, <2>2
<1>8. PICK c : c = <<stack, 1>>
  OBVIOUS
<1>9. c \in Seq(S) /\ Len(c) = 2 /\ c[1] = stack
  BY <1>3, <1>8
<1>10. PICK d : d = [i \in 1 .. E + 1 |-> P]
  OBVIOUS
<1>11. d \in Seq(S) /\ Len(d) = E + 1
  <2>1. PICK m : m = E + 1
    OBVIOUS
  <2>2. m \in Nat /\ d = [i \in 1 .. m |-> P]
    BY <1>10, <2>1, Constants
  <2>3. d \in Seq(S) /\ Len(d) = m
    BY <1>3, <2>2
  <2> QED
    BY <2>1, <2>3
<1>12. PICK e : e = <<1>>
  OBVIOUS
<1>13. e \in Seq(S) /\ Len(e) = 1
  BY <1>3, <1>12
<1>14. sizes = (((a \o b) \o c) \o d) \o e
  <2>1. d = [i \in 1 .. PAGING_TOTAL_ENTRIES_PER_TABLE + 1 |-> PAGING_PAGE_SIZE]
    BY <1>10 DEF E, P
  <2>2. c = <<OS_USER_PROGRAM_VIRTUAL_STACK_SIZE, 1>>
    BY <1>2, <1>8
  <2> QED
    BY <1>4, <1>6, <1>12, <2>1, <2>2, Zenon DEF Requests
<1>15. PICK ab : ab = a \o b
  OBVIOUS
<1>16. /\ ab \in Seq(S) /\ Len(ab) = 3 + Len(b)
       /\ \A i \in 1 .. 3 : ab[i] = a[i]
       /\ \A i \in 1 .. Len(b) : ab[3 + i] = b[i]
  <2>1. a \in Seq(S) /\ b \in Seq(S)
    BY <1>5, <1>7
  <2>2. /\ ab \in Seq(S) /\ Len(ab) = Len(a) + Len(b)
        /\ \A i \in 1 .. Len(a) : ab[i] = a[i]
        /\ \A i \in 1 .. Len(b) : ab[Len(a) + i] = b[i]
    BY <1>15, <2>1, ConcatIs
  <2>3. Len(a) = 3
    BY <1>5
  <2> QED
    BY <2>2, <2>3
<1>17. Len(ab) = n - 1 /\ ab[n - 1] = image.size
  BY <1>5, <1>7, <1>16
<1>18. PICK abc : abc = ab \o c
  OBVIOUS
<1>19. /\ abc \in Seq(S) /\ Len(abc) = Len(ab) + 2
       /\ \A i \in 1 .. Len(ab) : abc[i] = ab[i]
       /\ \A i \in 1 .. 2 : abc[Len(ab) + i] = c[i]
  <2>1. ab \in Seq(S) /\ c \in Seq(S)
    BY <1>9, <1>16
  <2>2. /\ abc \in Seq(S) /\ Len(abc) = Len(ab) + Len(c)
        /\ \A i \in 1 .. Len(ab) : abc[i] = ab[i]
        /\ \A i \in 1 .. Len(c) : abc[Len(ab) + i] = c[i]
    BY <1>18, <2>1, ConcatIs
  <2>3. Len(c) = 2
    BY <1>9
  <2> QED
    BY <2>2, <2>3
<1>20. Len(abc) = n + 1 /\ abc[n - 1] = image.size /\ abc[n] = stack
  <2>1. n - 1 \in 1 .. Len(ab) /\ Len(ab) + 1 = n
    BY <1>7, <1>17
  <2> QED
    BY <1>7, <1>9, <1>17, <1>19, <2>1
<1>21. PICK abcd : abcd = abc \o d
  OBVIOUS
<1>22. /\ abcd \in Seq(S) /\ Len(abcd) = Len(abc) + Len(d)
       /\ \A i \in 1 .. Len(abc) : abcd[i] = abc[i]
  <2>1. abc \in Seq(S) /\ d \in Seq(S)
    BY <1>11, <1>19
  <2> QED
    BY <1>21, <2>1, ConcatIs
<1>23. sizes = abcd \o e
  BY <1>14, <1>15, <1>18, <1>21
<1>24. /\ sizes \in Seq(S) /\ Len(sizes) = Len(abcd) + 1
       /\ \A i \in 1 .. Len(abcd) : sizes[i] = abcd[i]
  <2>1. abcd \in Seq(S) /\ e \in Seq(S) /\ Len(e) = 1
    BY <1>13, <1>22
  <2>2. PICK q, m : q = abcd \o e /\ m = Len(abcd)
    OBVIOUS
  <2>3. /\ q \in Seq(S) /\ Len(q) = Len(abcd) + Len(e)
        /\ \A i \in 1 .. Len(abcd) : q[i] = abcd[i]
    BY <2>1, <2>2, ConcatIs
  <2>4. q = sizes
    BY <1>23, <2>2
  <2> QED
    BY <2>1, <2>3, <2>4
<1>25. Len(abcd) = n + E + 2 /\ Len(sizes) = n + E + 3
  <2>1. PICK m, l, u : m = E /\ l = Len(abcd) /\ u = Len(sizes)
    OBVIOUS
  <2>2. l = (n + 1) + (m + 1) /\ u = l + 1
    BY <1>11, <1>20, <1>22, <1>24, <2>1
  <2>3. m \in Nat /\ n \in Nat
    BY <1>7, <2>1, Constants
  <2>4. l = n + m + 2 /\ u = n + m + 3
    BY <2>2, <2>3
  <2> QED
    BY <2>1, <2>4
<1>26. /\ n - 1 \in 1 .. Len(abc) /\ n \in 1 .. Len(abc)
       /\ n - 1 \in 1 .. Len(abcd) /\ n \in 1 .. Len(abcd)
  <2>1. PICK m, j, l : m = E /\ j = Len(abc) /\ l = Len(abcd)
    OBVIOUS
  <2>2. j = n + 1 /\ l = n + m + 2
    BY <1>20, <1>25, <2>1
  <2>3. m \in Nat /\ n \in Nat /\ n > 1
    BY <1>7, <2>1, Constants
  <2>4. n - 1 \in 1 .. j /\ n \in 1 .. j /\ n - 1 \in 1 .. l /\ n \in 1 .. l
    BY <2>2, <2>3
  <2> QED
    BY <2>1, <2>4
<1>27. sizes[n - 1] = image.size /\ sizes[n] = stack
  BY <1>20, <1>22, <1>24, <1>26
<1>28. \A i \in 1 .. n + E + 3 : sizes[i] \in S
  BY <1>24, <1>25
<1> QED
  BY <1>1, <1>2, <1>25, <1>27, <1>28

StackAt(image) == IF elf_validate_loaded(image.header) THEN 4 ELSE 5

\* What process_load_for_slot makes of the blocks s it was given.
NewRecord(filename, s) ==
  LET image == ImageOf[filename]
      elf == elf_validate_loaded(image.header)
      n == StackAt(image)
  IN  [filename |-> filename, self |-> s[1],
       elf_file |-> IF elf THEN s[2] ELSE NULL,
       ptr |-> s[n - 1], stack |-> s[n], task |-> s[n + 1],
       chunk |-> s[Len(s)], directory |-> s[n + 2],
       ip |-> IF elf THEN image.header.entry ELSE OS_PROGRAM_VIRTUAL_ADDRESS,
       span |-> IF elf THEN elf_process_pheaders(s[n - 1], image.phdrs) ELSE NoSpan,
       allocations |-> {}]

TableBlocks(image, s) == SubSeq(s, StackAt(image) + 2, StackAt(image) + 2 + E)

\* Where the blocks of the tables are among those of a load.
LEMMA BlockIndex ==
  ASSUME NEW n, n \in {4, 5}, NEW l, l = n + E + 3,
         NEW x, x = n + 2, NEW y, y = n + 2 + E
  PROVE  /\ x \in 1 .. l /\ y \in 1 .. l /\ x <= y
         /\ \A k \in 1 .. E + 1 : /\ k \in 1 .. (y - x) + 1
                                /\ x + k - 1 = n + 1 + k
                                /\ n + 1 + k \in x .. y
<1>1. PICK e : e = E
  OBVIOUS
<1>2. e \in Nat
  BY <1>1, Constants
<1>3. CASE n = 4
  BY <1>1, <1>2, <1>3
<1>4. CASE n = 5
  BY <1>1, <1>2, <1>4
<1> QED
  BY <1>3, <1>4

LEMMA BlocksAre ==
  ASSUME NEW name \in DOMAIN ImageOf, NEW image, image = ImageOf[name],
         NEW n, n = StackAt(image), NEW S, NEW s \in Seq(S), Len(s) = n + E + 3,
         NEW b, b = TableBlocks(image, s)
  PROVE  \A k \in 1 .. E + 1 : b[k] = s[n + 1 + k] /\ n + 1 + k \in n + 2 .. n + 2 + E
<1>1. n \in {4, 5} /\ E \in Nat
  BY Constants DEF StackAt
<1>2. PICK x, y : x = n + 2 /\ y = n + 2 + E
  OBVIOUS
<1>3. x \in 1 .. Len(s) /\ y \in 1 .. Len(s) /\ x <= y /\ b = SubSeq(s, x, y)
  <2>1. x \in 1 .. Len(s) /\ y \in 1 .. Len(s) /\ x <= y
    <3>1. PICK l : l = Len(s)
      OBVIOUS
    <3>2. x \in 1 .. l /\ y \in 1 .. l /\ x <= y
      BY <1>1, <1>2, <3>1, BlockIndex
    <3> QED
      BY <3>1, <3>2
  <2>2. b = SubSeq(s, x, y)
    BY <1>2 DEF TableBlocks
  <2> QED
    BY <2>1, <2>2
<1>4. \A k \in 1 .. (y - x) + 1 : b[k] = s[x + k - 1]
  BY <1>3
<1>5. ASSUME NEW k \in 1 .. E + 1 PROVE b[k] = s[n + 1 + k] /\ n + 1 + k \in n + 2 .. n + 2 + E
  <2>1. k \in 1 .. (y - x) + 1 /\ x + k - 1 = n + 1 + k /\ n + 1 + k \in x .. y
    <3>1. PICK l : l = n + E + 3
      OBVIOUS
    <3>2. n \in {4, 5} /\ x = n + 2 /\ y = n + 2 + E
      BY <1>1, <1>2
    <3> QED
      BY <3>1, <3>2, BlockIndex
  <2>2. b[k] = s[x + k - 1]
    BY <1>4, <2>1
  <2> QED
    BY <1>2, <2>1, <2>2
<1> QED
  BY <1>5

LEMMA RecordIs ==
  ASSUME NEW name \in DOMAIN ImageOf, NEW image, image = ImageOf[name],
         NEW n, n = StackAt(image), NEW s \in Seq(HeapPages), Len(s) = n + E + 3,
         NEW r, r = NewRecord(name, s)
  PROVE  /\ r \in Proc /\ r.filename = name /\ r.self = s[1]
         /\ r.ptr = s[n - 1] /\ r.stack = s[n] /\ r.task = s[n + 1]
         /\ r.chunk = s[n + E + 3] /\ r.directory = s[n + 2] /\ r.allocations = {}
         /\ r.elf_file = NULL \/ (r.elf_file = s[2] /\ n = 4)
         /\ {r.self, r.ptr, r.stack, r.task, r.chunk, r.directory} \subseteq HeapPages
         /\ Described(r) /\ Image(r) = image
<1>1. n \in {4, 5} /\ E \in Nat
  BY Constants DEF StackAt
<1>2. \A i \in 1 .. n + E + 3 : s[i] \in HeapPages
  OBVIOUS
<1>3. /\ s[1] \in HeapPages /\ s[2] \in HeapPages /\ s[n - 1] \in HeapPages /\ s[n] \in HeapPages
      /\ s[n + 1] \in HeapPages /\ s[n + 2] \in HeapPages /\ s[n + E + 3] \in HeapPages
  BY <1>1, <1>2, SMTT(30)
<1>4. PICK elf : elf = elf_validate_loaded(image.header)
  OBVIOUS
<1>5. elf \in BOOLEAN /\ (elf => image.header.entry \in Nat)
  BY <1>4, ImageIs
<1>6. PICK x, ip, span :
        /\ x = IF elf THEN s[2] ELSE NULL
        /\ ip = IF elf THEN image.header.entry ELSE OS_PROGRAM_VIRTUAL_ADDRESS
        /\ span = IF elf THEN elf_process_pheaders(s[n - 1], image.phdrs) ELSE NoSpan
  OBVIOUS
<1>7. r = [filename |-> name, self |-> s[1], elf_file |-> x,
           ptr |-> s[n - 1], stack |-> s[n], task |-> s[n + 1],
           chunk |-> s[n + E + 3], directory |-> s[n + 2],
           ip |-> ip, span |-> span, allocations |-> {}]
  BY <1>4, <1>6 DEF NewRecord
<1>8. x \in HeapPages \cup {NULL} /\ (x # NULL <=> elf) /\ (x = NULL \/ (x = s[2] /\ n = 4))
  <2>1. NULL \notin HeapPages
    BY HeapPagesAre
  <2>2. elf => n = 4
    BY <1>4 DEF StackAt
  <2> QED
    BY <1>3, <1>5, <1>6, <2>1, <2>2
<1>9. ip \in Nat
  <2>1. CASE elf
    BY <1>5, <1>6, <2>1
  <2>2. CASE ~elf
    <3>1. Segments(image) = 1
      BY <1>4, <2>2 DEF Segments
    <3>2. 1 \in 1 .. Segments(ImageOf[name]) + 1
      BY <3>1
    <3>3. Area(ImageOf[name], 1).first \in Page
      BY <3>2, LayoutAssumption
    <3>4. Area(ImageOf[name], 1).first = OS_PROGRAM_VIRTUAL_ADDRESS
      BY <1>4, <2>2, <3>1 DEF Area
    <3>5. OS_PROGRAM_VIRTUAL_ADDRESS \in Nat
      BY <3>3, <3>4, PageAddress
    <3> QED
      BY <1>6, <2>2, <3>5
  <2> QED
    BY <1>5, <2>1, <2>2
<1>10. span \in Span
  <2>1. CASE elf
    <3>1. PICK mem, phdrs, k : mem = s[n - 1] /\ phdrs = image.phdrs /\ k = Len(image.phdrs)
      OBVIOUS
    <3>2. mem \in Nat
      BY <1>3, <3>1, HeapWord
    <3>3. k \in Nat /\ Len(phdrs) = k /\ Loadable(phdrs, k)
      BY <3>1, ImageIs
    <3>4. span = elf_process_pheaders(mem, phdrs)
      BY <1>6, <2>1, <3>1
    <3>5. Spanned(span, mem, phdrs, k)
      BY <3>2, <3>3, <3>4, SpanIs
    <3> QED
      BY <3>5 DEF Spanned
  <2>2. CASE ~elf
    BY <1>6, <2>2 DEF NoSpan, Span
  <2> QED
    BY <1>5, <2>1, <2>2
<1>11. r \in Proc
  <2>1. PICK a, b, c, d, e, f, as :
          /\ a = s[1] /\ b = s[n - 1] /\ c = s[n] /\ d = s[n + 1] /\ e = s[n + E + 3]
          /\ f = s[n + 2] /\ as = {}
    OBVIOUS
  <2>2. r = [filename |-> name, self |-> a, elf_file |-> x, ptr |-> b, stack |-> c,
             task |-> d, chunk |-> e, directory |-> f, ip |-> ip, span |-> span,
             allocations |-> as]
    BY <1>7, <2>1
  <2>3. /\ a \in HeapPages \cup {NULL} /\ b \in HeapPages \cup {NULL}
        /\ c \in HeapPages \cup {NULL} /\ d \in HeapPages \cup {NULL}
        /\ e \in HeapPages \cup {NULL} /\ f \in HeapPages \cup {NULL}
        /\ name \in DOMAIN ImageOf \cup {""}
    BY <1>3, <2>1
  <2>4. x \in HeapPages \cup {NULL} /\ ip \in Nat /\ span \in Span /\ as \in Ledger
    BY <1>8, <1>9, <1>10, <2>1 DEF Ledger
  <2>5. [filename |-> name, self |-> a, elf_file |-> x, ptr |-> b, stack |-> c,
         task |-> d, chunk |-> e, directory |-> f, ip |-> ip, span |-> span,
         allocations |-> as] \in Proc
    BY <2>3, <2>4 DEF Proc, Ledger
  <2> QED
    BY <2>2, <2>5
<1>12. Image(r) = image
  BY <1>7 DEF Image
<1>13. Described(r)
  <2>1. r.elf_file = x /\ r.ip = ip /\ r.span = span /\ r.ptr = s[n - 1]
    BY <1>7
  <2> QED
    BY <1>4, <1>5, <1>6, <1>8, <1>12, <2>1 DEF Described
<1> QED
  BY <1>3, <1>7, <1>8, <1>11, <1>12, <1>13

\* A load that finds enough memory makes a new process.
LEMMA LoadIs ==
  ASSUME NEW h, HeapOK(h), NEW t, Tables(t), DOMAIN t \subseteq DOMAIN h,
         NEW name \in DOMAIN ImageOf, NEW image, image = ImageOf[name],
         NEW g, g = Grab(h, Requests(image)), g.ok, NEW s, s = g.ptrs,
         NEW u, u = paging_new_4gb(t, TableBlocks(image, s), InitialFlags),
         NEW r, r = NewRecord(name, s)
  PROVE  NewProcess(h, t, g.heap, u, r, Used(TableBlocks(image, s)))
<1>1. PICK n, sizes, k, b : n = StackAt(image) /\ sizes = Requests(image) /\ k = n + E + 3
                            /\ b = TableBlocks(image, s)
  OBVIOUS
<1>2. n \in {4, 5} /\ E \in Nat
  BY <1>1, Constants DEF StackAt
<1>3. n = IF elf_validate_loaded(image.header) THEN 4 ELSE 5
  BY <1>1 DEF StackAt
<1>4. /\ Len(sizes) = n + E + 3
      /\ \A i \in 1 .. n + E + 3 : sizes[i] \in 1 .. WORD - P
      /\ sizes[n - 1] = image.size
      /\ sizes[n] = OS_USER_PROGRAM_VIRTUAL_STACK_SIZE
  BY <1>1, <1>3, RequestsAre
<1>5. /\ k \in Nat /\ Len(sizes) = k /\ \A i \in 1 .. k : sizes[i] \in 1 .. WORD - P
      /\ g = Grab(h, sizes)
  BY <1>1, <1>2, <1>4
<1>6. Grabbed(h, sizes, k, g)
  BY <1>5, GrabAll
<1>7. PICK e : e = g.heap
  OBVIOUS
<1>8. /\ HeapOK(e)
      /\ s \in Seq(HeapPages) /\ Len(s) = k
      /\ DOMAIN e = DOMAIN h \cup {s[i] : i \in 1 .. k}
      /\ \A a \in DOMAIN h : e[a] = h[a]
      /\ \A i \in 1 .. k : s[i] \notin DOMAIN h /\ e[s[i]] = Pages(sizes[i])
      /\ \A i, j \in 1 .. k : i # j => s[i] # s[j]
  BY <1>6, <1>7 DEF Grabbed, NewBlocks
<1>9. Len(s) = n + E + 3
  BY <1>1, <1>8
<1>10. \A l \in 1 .. E + 1 : b[l] = s[n + 1 + l] /\ n + 1 + l \in n + 2 .. n + 2 + E
  BY <1>1, <1>8, <1>9, BlocksAre
<1>11. \A i \in n + 2 .. n + 2 + E : i \in 1 .. k
  BY <1>1, <1>2
<1>12. FreshBlocks(t, b)
  <2>1. ASSUME NEW l \in 1 .. E + 1 PROVE b[l] \in HeapPages \ DOMAIN t
    <3>1. PICK i : i = n + 1 + l
      OBVIOUS
    <3>2. b[l] = s[i] /\ i \in 1 .. k
      BY <1>10, <1>11, <3>1
    <3> QED
      BY <1>8, <3>2
  <2>2. ASSUME NEW l \in 1 .. E + 1, NEW m \in 1 .. E + 1, l # m PROVE b[l] # b[m]
    <3>1. PICK i, j : i = n + 1 + l /\ j = n + 1 + m
      OBVIOUS
    <3>2. b[l] = s[i] /\ i \in 1 .. k /\ b[m] = s[j] /\ j \in 1 .. k
      BY <1>10, <1>11, <3>1
    <3>3. i # j
      BY <1>2, <2>2, <3>1
    <3> QED
      BY <1>8, <3>2, <3>3
  <2> QED
    BY <2>1, <2>2 DEF FreshBlocks
<1>13. Created(t, u, b[1], Used(b))
  BY <1>1, <1>12, New4gb
<1>14. \A x \in Used(b) : \E i \in n + 2 .. n + 2 + E : x = s[i]
  <2> TAKE x \in Used(b)
  <2>1. PICK l \in 1 .. E + 1 : x = b[l]
    BY DEF Used
  <2>2. x = s[n + 1 + l] /\ n + 1 + l \in n + 2 .. n + 2 + E
    BY <1>10, <2>1
  <2> QED
    BY <2>2
<1>15. /\ r \in Proc /\ r.filename = name /\ r.self = s[1]
       /\ r.ptr = s[n - 1] /\ r.stack = s[n] /\ r.task = s[n + 1]
       /\ r.chunk = s[n + E + 3] /\ r.directory = s[n + 2] /\ r.allocations = {}
       /\ r.elf_file = NULL \/ (r.elf_file = s[2] /\ n = 4)
       /\ {r.self, r.ptr, r.stack, r.task, r.chunk, r.directory} \subseteq HeapPages
       /\ Described(r) /\ Image(r) = image
  BY <1>1, <1>8, <1>9, RecordIs
<1>16. r.directory = b[1]
  <2>1. 1 \in 1 .. E + 1 /\ n + 1 + 1 = n + 2
    BY <1>2
  <2>2. b[1] = s[n + 1 + 1]
    BY <1>10, <2>1
  <2> QED
    BY <1>15, <2>1, <2>2
<1>17. Used(b) \subseteq DOMAIN e \ DOMAIN h
  <2>1. ASSUME NEW x \in Used(b) PROVE x \in DOMAIN e \ DOMAIN h
    <3>1. PICK i \in n + 2 .. n + 2 + E : x = s[i]
      BY <1>14
    <3>2. i \in 1 .. k
      BY <1>11
    <3> QED
      BY <1>8, <3>1, <3>2
  <2> QED
    BY <2>1
<1>18. \A i \in 1 .. k : i \notin n + 2 .. n + 2 + E => s[i] \in (DOMAIN e \ DOMAIN h) \ Used(b)
  <2> SUFFICES ASSUME NEW i \in 1 .. k, i \notin n + 2 .. n + 2 + E
               PROVE  s[i] \in (DOMAIN e \ DOMAIN h) \ Used(b)
    OBVIOUS
  <2>1. s[i] \in DOMAIN e \ DOMAIN h
    BY <1>8
  <2>2. ASSUME s[i] \in Used(b) PROVE FALSE
    <3>1. PICK j \in n + 2 .. n + 2 + E : s[i] = s[j]
      BY <1>14, <2>2
    <3>2. j \in 1 .. k /\ i # j
      BY <1>11, <3>1
    <3> QED
      BY <1>8, <3>1, <3>2
  <2> QED
    BY <2>1, <2>2
<1>19. /\ 1 \in 1 .. k /\ 1 \notin n + 2 .. n + 2 + E
       /\ 2 \in 1 .. k /\ 2 \notin n + 2 .. n + 2 + E
       /\ n - 1 \in 1 .. k /\ n - 1 \notin n + 2 .. n + 2 + E
       /\ n \in 1 .. k /\ n \notin n + 2 .. n + 2 + E
       /\ n + 1 \in 1 .. k /\ n + 1 \notin n + 2 .. n + 2 + E
       /\ n + E + 3 \in 1 .. k /\ n + E + 3 \notin n + 2 .. n + 2 + E
  BY <1>1, <1>2
<1>20. Fixed(r) \subseteq (DOMAIN e \ DOMAIN h) \ Used(b)
  <2>1. \A i \in {1, 2, n - 1, n, n + 1, n + E + 3} : s[i] \in (DOMAIN e \ DOMAIN h) \ Used(b)
    BY <1>18, <1>19
  <2>2. /\ s[1] \in (DOMAIN e \ DOMAIN h) \ Used(b) /\ s[2] \in (DOMAIN e \ DOMAIN h) \ Used(b)
        /\ s[n - 1] \in (DOMAIN e \ DOMAIN h) \ Used(b) /\ s[n] \in (DOMAIN e \ DOMAIN h) \ Used(b)
        /\ s[n + 1] \in (DOMAIN e \ DOMAIN h) \ Used(b)
        /\ s[n + E + 3] \in (DOMAIN e \ DOMAIN h) \ Used(b)
    BY <2>1
  <2> QED
    BY <1>15, <2>2 DEF Fixed
<1>21. /\ e[r.ptr] = Pages(Image(r).size)
       /\ e[r.stack] = Pages(OS_USER_PROGRAM_VIRTUAL_STACK_SIZE)
  <2>1. e[s[n - 1]] = Pages(sizes[n - 1]) /\ e[s[n]] = Pages(sizes[n])
    BY <1>8, <1>19
  <2> QED
    BY <1>4, <1>15, <2>1
<1>22. r.self # NULL
  BY <1>15, HeapPagesAre
<1>23. DOMAIN h \subseteq DOMAIN e
  BY <1>8
<1>24. NewProcess(h, t, e, u, r, Used(b))
  BY <1>8, <1>13, <1>15, <1>16, <1>17, <1>20, <1>21, <1>22, <1>23 DEF NewProcess
<1> QED
  BY <1>1, <1>7, <1>24

------------------------------------------------------------------------------
(* Areas. *)

LEMMA LowerUnique ==
  ASSUME NEW a \in Nat, NEW d, Aligned(d), d <= a, a < d + P
  PROVE  paging_align_to_lower_page(a) = d
<1>1. PICK e : e = paging_align_to_lower_page(a)
  OBVIOUS
<1>2. Aligned(e) /\ e <= a /\ a < e + P
  BY <1>1, AlignLower
<1>3. d \in Nat /\ e \in Nat /\ (d < e => d + P <= e) /\ (e < d => e + P <= d)
  BY <1>2, AlignedArithmetic
<1>4. P \in Nat
  BY Constants
<1>5. d = e
  BY <1>2, <1>3, <1>4
<1> QED
  BY <1>1, <1>5

LEMMA UpperUnique ==
  ASSUME NEW a \in Nat, a <= WORD - P, NEW d, Aligned(d), a <= d, d < a + P
  PROVE  paging_align_address(a) = d
<1>1. PICK e : e = paging_align_address(a)
  OBVIOUS
<1>2. Aligned(e) /\ a <= e /\ e < a + P
  BY <1>1, AlignUpper
<1>3. d \in Nat /\ e \in Nat /\ (d < e => d + P <= e) /\ (e < d => e + P <= d)
  BY <1>2, AlignedArithmetic
<1>4. P \in Nat
  BY Constants
<1>5. d = e
  BY <1>2, <1>3, <1>4
<1> QED
  BY <1>1, <1>5

\* Rounding commutes with adding the address of a block.
LEMMA Shifted ==
  ASSUME NEW x, Aligned(x), NEW a \in Nat, NEW y, y = x + a
  PROVE  /\ paging_align_to_lower_page(y) = x + paging_align_to_lower_page(a)
         /\ y <= WORD - P => paging_align_address(y) = x + paging_align_address(a)
<1>1. PICK d, u : d = paging_align_to_lower_page(a) /\ u = paging_align_address(a)
  OBVIOUS
<1>2. x \in Nat /\ P \in Nat /\ WORD \in Nat /\ y \in Nat
  BY Constants DEF Aligned
<1>3. Aligned(d) /\ d <= a /\ a < d + P
  BY <1>1, AlignLower
<1>4. Aligned(x + d) /\ d \in Nat
  BY <1>3, AlignedArithmetic
<1>5. x + d <= y /\ y < (x + d) + P
  BY <1>2, <1>3, <1>4
<1>6. paging_align_to_lower_page(y) = x + d
  BY <1>2, <1>4, <1>5, LowerUnique
<1>7. ASSUME y <= WORD - P PROVE paging_align_address(y) = x + u
  <2>1. a <= WORD - P
    BY <1>2, <1>7
  <2>2. Aligned(u) /\ a <= u /\ u < a + P
    BY <1>1, <2>1, AlignUpper
  <2>3. Aligned(x + u) /\ u \in Nat
    BY <2>2, AlignedArithmetic
  <2>4. y <= x + u /\ x + u < y + P
    BY <1>2, <2>2, <2>3
  <2> QED
    BY <1>2, <1>7, <2>3, <2>4, UpperUnique
<1> QED
  BY <1>1, <1>6, <1>7

\* A block of the heap can be mapped to itself.
LEMMA BlockIs ==
  ASSUME NEW h, HeapOK(h), NEW x \in DOMAIN h, NEW size \in 1 .. WORD - P, NEW n,
         n = Pages(size), h[x] = n
  PROVE  /\ Aligned(x) /\ x \in HeapPages /\ n \in Nat \ {0} /\ n * P \in Nat
         /\ CanMap(x, x, n) /\ x + n * P <= WORD - P
         /\ paging_align_address(size) = n * P
         /\ paging_align_address(x + size) = x + n * P
         /\ PagesFrom(x, n) \subseteq HeapPages
<1>1. n \in Nat \ {0} /\ n * P = paging_align_address(size) /\ size <= n * P /\ n * P < size + P
  BY SizeInPages
<1>2. x \in HeapPages /\ PagesFrom(x, n) \subseteq HeapPages
  BY DEF HeapOK
<1>3. Aligned(x) /\ x \in Nat
  BY <1>2, HeapWord DEF Aligned
<1>4. P \in Nat \ {0} /\ WORD \in Nat /\ n * P \in Nat /\ size \in Nat
  BY <1>1, Constants
<1>5. CanMap(x, x, n)
  BY <1>1, <1>2, <1>3, HeapPagesAre DEF CanMap
<1>6. x + n * P <= WORD - P
  <2>1. PICK z : z = (x + n * P) - P
    OBVIOUS
  <2>2. n * P >= P
    BY <1>1, <1>4
  <2>3. Aligned(n * P) /\ Aligned(P)
    <3>1. P = 1 * P /\ 1 \in Nat
      BY <1>4
    <3> QED
      BY <1>1, <3>1, AlignedTimes
  <2>4. Aligned((n * P) - P)
    BY <1>4, <2>2, <2>3, AlignedArithmetic
  <2>5. Aligned(x + ((n * P) - P))
    BY <1>3, <2>4, AlignedArithmetic
  <2>6. z = x + ((n * P) - P) /\ x <= z /\ z < x + n * P
    BY <1>3, <1>4, <2>1, <2>2
  <2>7. z \in PagesFrom(x, n)
    BY <1>1, <1>3, <2>5, <2>6, PagesFromIs
  <2>8. z + P < WORD /\ z \in Nat
    BY <1>2, <2>7, HeapWord
  <2>9. Aligned(z) /\ Aligned(P)
    BY <2>3, <2>5, <2>6
  <2>10. Aligned(z + P)
    BY <2>9, AlignedArithmetic
  <2>11. Aligned(WORD)
    <3>1. WORD = (E * E) * P /\ E * E \in Nat
      BY Constants
    <3> QED
      BY <3>1, AlignedTimes
  <2>12. z + P + P <= WORD
    BY <2>8, <2>10, <2>11, AlignedArithmetic
  <2> QED
    BY <1>3, <1>4, <2>1, <2>8, <2>12
<1>7. paging_align_address(x + size) = x + n * P
  <2>1. PICK y : y = x + size
    OBVIOUS
  <2>2. y <= WORD - P
    BY <1>1, <1>3, <1>4, <1>6, <2>1
  <2>3. paging_align_address(y) = x + paging_align_address(size)
    BY <1>3, <1>4, <2>1, <2>2, Shifted
  <2> QED
    BY <1>1, <2>1, <2>3
<1> QED
  BY <1>1, <1>2, <1>3, <1>4, <1>5, <1>6, <1>7

HeapEnd == HEAP_ADDRESS + TABLE_TOTAL * P

\* The part of a file, and of what follows it, that one program header
\* describes: n pages from o on, up to u.
SegmentAt(image, i, phdr, o, u, n) ==
  /\ phdr = image.phdrs[i]
  /\ o = paging_align_to_lower_page(phdr.offset)
  /\ u = paging_align_address(phdr.offset + phdr.memsz)
  /\ n = (u - o) \div P

Segment(phdr, o, u, n) ==
  /\ phdr \in ProgramHeader
  /\ phdr.vaddr \in Nat /\ phdr.offset \in Nat /\ phdr.filesz \in Nat /\ phdr.memsz \in Nat
  /\ phdr.filesz <= phdr.memsz
  /\ Aligned(o) /\ o <= phdr.offset /\ phdr.offset < o + P
  /\ Aligned(u) /\ phdr.offset + phdr.memsz <= u /\ u < phdr.offset + phdr.memsz + P
  /\ n \in Nat /\ n * P \in Nat /\ u = o + n * P
  /\ HeapEnd \in Nat /\ HeapEnd + (phdr.offset + phdr.memsz) <= WORD - P
  /\ phdr.vaddr - paging_align_to_lower_page(phdr.vaddr) = phdr.offset - o

LEMMA SegmentIs ==
  ASSUME NEW name \in DOMAIN ImageOf, NEW image, image = ImageOf[name],
         NEW i \in 1 .. Len(image.phdrs),
         NEW phdr, NEW o, NEW u, NEW n, SegmentAt(image, i, phdr, o, u, n)
  PROVE  Segment(phdr, o, u, n)
<1>0. /\ phdr = image.phdrs[i]
      /\ o = paging_align_to_lower_page(phdr.offset)
      /\ u = paging_align_address(phdr.offset + phdr.memsz)
      /\ n = (u - o) \div P
  BY DEF SegmentAt
<1>1. i \in DOMAIN ImageOf[name].phdrs
  BY ImageIs
<1>2. phdr \in ProgramHeader
  BY <1>0, ImageIs DEF Loadable
<1>3. phdr.vaddr \in Nat /\ phdr.offset \in Nat /\ phdr.filesz \in Nat /\ phdr.memsz \in Nat
  BY <1>2 DEF ProgramHeader
<1>4. /\ HEAP_ADDRESS + TABLE_TOTAL * P + phdr.offset + phdr.memsz <= WORD - P
      /\ phdr.vaddr % P = phdr.offset % P
      /\ phdr.filesz <= phdr.memsz
  BY <1>0, <1>1, ImageAssumption DEF P
<1>6. P \in Nat \ {0} /\ WORD \in Nat
  BY Constants
<1>7. HeapEnd \in Nat /\ HeapEnd = HEAP_ADDRESS + TABLE_TOTAL * P
  BY HeapPagesAre DEF HeapEnd, Aligned
<1>8. PICK e, c : e = phdr.offset + phdr.memsz /\ c = HeapEnd
  OBVIOUS
<1>9. e \in Nat /\ c \in Nat /\ c + e <= WORD - P
  <2>1. PICK f, z : f = phdr.offset /\ z = phdr.memsz
    OBVIOUS
  <2>2. f \in Nat /\ z \in Nat /\ c \in Nat /\ e = f + z /\ c + f + z <= WORD - P
    BY <1>3, <1>4, <1>7, <1>8, <2>1
  <2> QED
    BY <1>6, <2>2
<1>11. e <= WORD - P
  BY <1>6, <1>9
<1>12. u = paging_align_address(e)
  BY <1>0, <1>8
<1>13. Aligned(u) /\ e <= u /\ u < e + P
  BY <1>9, <1>11, <1>12, AlignUpper
<1>15. Aligned(o) /\ o <= phdr.offset /\ phdr.offset < o + P /\ phdr.offset - o = phdr.offset % P
  <2>1. o = paging_align_to_lower_page(phdr.offset)
    BY <1>0
  <2> QED
    BY <1>3, <2>1, AlignLower
<1>16. o \in Nat /\ u \in Nat /\ o <= u
  <2>1. o \in Nat /\ u \in Nat
    BY <1>13, <1>15 DEF Aligned
  <2>2. phdr.offset \in Nat /\ e \in Nat /\ phdr.offset <= e
    BY <1>3, <1>8
  <2>3. o <= phdr.offset
    BY <1>15
  <2>4. e <= u
    BY <1>13
  <2> QED
    BY <2>1, <2>2, <2>3, <2>4
<1>17. PICK d : d = u - o
  OBVIOUS
<1>18. Aligned(d)
  BY <1>13, <1>15, <1>16, <1>17, AlignedArithmetic
<1>19. PICK m \in Nat : d = m * P
  BY <1>18, AlignedIs
<1>20. d \in Nat /\ d = (m * P) + 0 /\ 0 \in 0 .. P - 1
  BY <1>6, <1>18, <1>19 DEF Aligned
<1>21. d \div P = m
  BY <1>6, <1>20, DivUnique
<1>22. n = m /\ n * P = d /\ u = o + n * P
  <2>1. n = d \div P
    BY <1>0, <1>17
  <2> QED
    BY <1>16, <1>17, <1>19, <1>21, <2>1
<1>23. phdr.vaddr - paging_align_to_lower_page(phdr.vaddr) = phdr.vaddr % P
  BY <1>3, AlignLower
<1>24. phdr.vaddr - paging_align_to_lower_page(phdr.vaddr) = phdr.offset - o
  BY <1>4, <1>15, <1>23
<1>25. n \in Nat /\ n * P \in Nat /\ u = o + n * P
  BY <1>20, <1>22
<1>26. HeapEnd \in Nat /\ HeapEnd + (phdr.offset + phdr.memsz) <= WORD - P
  BY <1>8, <1>9
<1>27. phdr.offset + phdr.memsz <= u /\ u < phdr.offset + phdr.memsz + P
  BY <1>8, <1>13
<1> QED
  BY <1>2, <1>3, <1>4, <1>13, <1>15, <1>24, <1>25, <1>26, <1>27 DEF Segment

LEMMA SegmentsIs ==
  ASSUME NEW name \in DOMAIN ImageOf, NEW image, image = ImageOf[name]
  PROVE  Segments(image) \in Nat
BY ImageIs DEF Segments

\* Where an area is.
LEMMA AreaIs ==
  ASSUME NEW name \in DOMAIN ImageOf, NEW image, image = ImageOf[name],
         NEW k \in 1 .. Segments(image) + 1, NEW area, area = Area(image, k)
  PROVE  /\ area.first \in Page /\ Aligned(area.first) /\ area.first \in Nat
         /\ area.pages \in Nat /\ area.pages * P \in Nat
         /\ PagesFrom(area.first, area.pages) \subseteq Page \ (HeapPages \cup KernelPages)
<1>1. Area(ImageOf[name], k).first \in Page
  BY LayoutAssumption
<1>2. area.first \in Page
  BY <1>1
<1>3. Aligned(area.first) /\ area.first \in Nat
  BY <1>2, PageAligned DEF Aligned
<1>4. PagesFrom(area.first, area.pages) \subseteq Page \ (HeapPages \cup KernelPages)
  BY LayoutAssumption
<1>5. Segments(image) \in Nat
  BY SegmentsIs
<1>6. area.pages \in Nat
  <2>1. CASE k > Segments(image)
    <3>1. area.pages = Pages(OS_USER_PROGRAM_VIRTUAL_STACK_SIZE)
      BY <2>1 DEF Area
    <3>2. OS_USER_PROGRAM_VIRTUAL_STACK_SIZE \in 1 .. WORD - P
      BY SizesAre
    <3> QED
      BY <3>1, <3>2, SizeInPages
  <2>2. CASE ~(k > Segments(image)) /\ elf_validate_loaded(image.header)
    <3>1. k \in 1 .. Len(image.phdrs)
      BY <1>5, <2>2 DEF Segments
    <3>2. PICK phdr, o, u, n : SegmentAt(image, k, phdr, o, u, n)
      BY DEF SegmentAt
    <3>3. Segment(phdr, o, u, n)
      BY <3>1, <3>2, SegmentIs
    <3>4. area.pages = n
      BY <2>2, <3>2 DEF Area, P, SegmentAt
    <3> QED
      BY <3>3, <3>4 DEF Segment
  <2>3. CASE ~(k > Segments(image)) /\ ~elf_validate_loaded(image.header)
    <3>1. area.pages = Pages(image.size)
      BY <2>3 DEF Area
    <3>2. image.size \in 1 .. WORD - P
      BY ImageIs
    <3> QED
      BY <3>1, <3>2, SizeInPages
  <2> QED
    BY <2>1, <2>2, <2>3
<1>7. area.pages * P \in Nat
  BY <1>6, Constants
<1> QED
  BY <1>2, <1>3, <1>4, <1>6, <1>7

\* What a call of process_map_memory or one of its loops does for area k.
AreaCall(t, r, k) ==
  paging_map_to(t, r.directory, Area(Image(r), k).first, At(r, k),
                At(r, k) + Area(Image(r), k).pages * P, AreaFlags(r, k))

LEMMA HoldsParts ==
  ASSUME NEW h, NEW t, NEW r \in Proc, HeapOK(h), Holds(h, t, r), NEW image, image = Image(r)
  PROVE  /\ r.filename \in DOMAIN ImageOf /\ image = ImageOf[r.filename]
         /\ Segments(image) \in Nat
         /\ r.elf_file # NULL <=> elf_validate_loaded(image.header)
         /\ r.ptr \in DOMAIN h /\ h[r.ptr] = Pages(image.size) /\ image.size \in 1 .. WORD - P
         /\ r.stack \in DOMAIN h /\ h[r.stack] = Pages(OS_USER_PROGRAM_VIRTUAL_STACK_SIZE)
         /\ OS_USER_PROGRAM_VIRTUAL_STACK_SIZE \in 1 .. WORD - P
         /\ r.elf_file # NULL => Segments(image) = Len(image.phdrs)
         /\ r.elf_file = NULL => Segments(image) = 1
<1>1. r.filename \in DOMAIN ImageOf /\ image = ImageOf[r.filename]
  BY DEF Holds, Image
<1>2. r.elf_file # NULL <=> elf_validate_loaded(image.header)
  BY DEF Holds, Described
<1>3. r.ptr \in DOMAIN h /\ r.stack \in DOMAIN h
  BY DEF Holds, Data, Fixed
<1>4. /\ h[r.ptr] = Pages(image.size)
      /\ h[r.stack] = Pages(OS_USER_PROGRAM_VIRTUAL_STACK_SIZE)
  BY DEF Holds
<1>5. /\ image.size \in 1 .. WORD - P /\ Segments(image) \in Nat
  BY <1>1, ImageIs, SegmentsIs
<1>6. OS_USER_PROGRAM_VIRTUAL_STACK_SIZE \in 1 .. WORD - P
  BY SizesAre
<1>7. /\ r.elf_file # NULL => Segments(image) = Len(image.phdrs)
      /\ r.elf_file = NULL => Segments(image) = 1
  BY <1>2 DEF Segments
<1> QED
  BY <1>1, <1>2, <1>3, <1>4, <1>5, <1>6, <1>7

\* A segment, wherever in the heap its file is.
LEMMA SegmentMemory ==
  ASSUME NEW phdr, NEW o, NEW u, NEW n, Segment(phdr, o, u, n),
         NEW a \in HeapPages, NEW x, x = a + o
  PROVE  Aligned(x) /\ PagesFrom(x, n) \subseteq Page /\ a + (phdr.offset + phdr.memsz) <= WORD - P
<1>1. PICK e, s, c : e = phdr.offset + phdr.memsz /\ s = n * P /\ c = HeapEnd
  OBVIOUS
<1>2. /\ e \in Nat /\ s \in Nat /\ c \in Nat /\ n \in Nat /\ Aligned(o)
      /\ u = o + s /\ u < e + P /\ c + e <= WORD - P
  BY <1>1 DEF Segment
<1>3. Aligned(a) /\ a < c
  BY <1>1, HeapPagesAre DEF HeapEnd
<1>4. a \in Nat /\ o \in Nat /\ P \in Nat /\ WORD \in Nat
  BY <1>2, <1>3, Constants DEF Aligned
<1>5. Aligned(x)
  BY <1>2, <1>3, AlignedArithmetic
<1>6. x + s < WORD /\ a + e <= WORD - P /\ x \in Nat
  BY <1>2, <1>3, <1>4
<1>7. ASSUME NEW y \in PagesFrom(x, n) PROVE y \in Page
  <2>1. Aligned(y) /\ y < x + n * P
    BY <1>2, <1>5, <1>7, PagesFromIs
  <2>2. y \in Nat /\ y < x + s
    BY <1>1, <2>1 DEF Aligned
  <2>3. y < WORD
    BY <1>2, <1>4, <1>6, <2>2
  <2> QED
    BY <2>1, <2>3, PageAligned
<1> QED
  BY <1>1, <1>5, <1>6, <1>7

LEMMA AreaMemory ==
  ASSUME NEW h, NEW t, NEW r \in Proc, HeapOK(h), Holds(h, t, r), NEW image, image = Image(r),
         NEW k \in 1 .. Segments(image) + 1, NEW area, area = Area(image, k),
         NEW x, x = At(r, k)
  PROVE  /\ CanMap(area.first, x, area.pages)
         /\ AreaFlags(r, k) \in {InitialFlags, UserWritable}
<1>1. /\ r.filename \in DOMAIN ImageOf /\ image = ImageOf[r.filename]
      /\ Segments(image) \in Nat
      /\ r.elf_file # NULL <=> elf_validate_loaded(image.header)
      /\ r.ptr \in DOMAIN h /\ h[r.ptr] = Pages(image.size) /\ image.size \in 1 .. WORD - P
      /\ r.stack \in DOMAIN h /\ h[r.stack] = Pages(OS_USER_PROGRAM_VIRTUAL_STACK_SIZE)
      /\ r.elf_file # NULL => Segments(image) = Len(image.phdrs)
  BY HoldsParts
<1>2. /\ area.first \in Page /\ Aligned(area.first) /\ area.pages \in Nat
      /\ PagesFrom(area.first, area.pages) \subseteq Page
  BY <1>1, AreaIs
<1>3. r.ptr \in HeapPages /\ r.stack \in HeapPages
  BY <1>1 DEF HeapOK
<1>4. Aligned(r.ptr) /\ Aligned(r.stack)
  BY <1>3, HeapWord
<1>5. PagesFrom(r.ptr, h[r.ptr]) \subseteq Page /\ PagesFrom(r.stack, h[r.stack]) \subseteq Page
  BY <1>1, HeapPagesAre DEF HeapOK
<1>6. CASE k > Segments(image)
  <2>1. x = r.stack /\ area.pages = h[r.stack]
    BY <1>1, <1>6 DEF At, Area
  <2> QED
    BY <1>1, <1>2, <1>4, <1>5, <1>6, <2>1 DEF CanMap, AreaFlags
<1>7. CASE ~(k > Segments(image)) /\ r.elf_file # NULL
  <2>1. k \in 1 .. Len(image.phdrs)
    BY <1>1, <1>7
  <2>2. PICK phdr, o, u, n : SegmentAt(image, k, phdr, o, u, n)
    BY DEF SegmentAt
  <2>3. Segment(phdr, o, u, n)
    BY <1>1, <2>1, <2>2, SegmentIs
  <2>4. area.pages = n /\ x = r.ptr + o
    BY <1>1, <1>7, <2>2 DEF Area, At, P, SegmentAt
  <2>6. Aligned(x) /\ PagesFrom(x, n) \subseteq Page
    BY <1>3, <2>3, <2>4, SegmentMemory
  <2>7. AreaFlags(r, k) \in {InitialFlags, UserWritable}
    BY DEF AreaFlags
  <2>8. CanMap(area.first, x, area.pages)
    BY <1>2, <2>4, <2>6 DEF CanMap
  <2> QED
    BY <2>7, <2>8
<1>8. CASE ~(k > Segments(image)) /\ r.elf_file = NULL
  <2>1. x = r.ptr /\ area.pages = h[r.ptr]
    BY <1>1, <1>8 DEF At, Area
  <2> QED
    BY <1>1, <1>2, <1>4, <1>5, <1>8, <2>1 DEF CanMap, AreaFlags
<1> QED
  BY <1>6, <1>7, <1>8

LEMMA MapElfIs ==
  ASSUME NEW h, NEW t, NEW r \in Proc, HeapOK(h), Holds(h, t, r), NEW image, image = Image(r),
         r.elf_file # NULL, NEW k \in 1 .. Segments(image), NEW v
  PROVE  PhdrMap(v, r, image.phdrs[k]) = AreaCall(v, r, k)
<1>1. /\ r.filename \in DOMAIN ImageOf /\ image = ImageOf[r.filename]
      /\ Segments(image) \in Nat /\ elf_validate_loaded(image.header)
      /\ r.ptr \in DOMAIN h /\ h[r.ptr] = Pages(image.size) /\ image.size \in 1 .. WORD - P
      /\ Segments(image) = Len(image.phdrs)
  BY HoldsParts
<1>2. PICK phdr, o, u, n :
        /\ SegmentAt(image, k, phdr, o, u, n)
        /\ phdr = image.phdrs[k]
        /\ o = paging_align_to_lower_page(phdr.offset)
        /\ u = paging_align_address(phdr.offset + phdr.memsz)
        /\ n = (u - o) \div P
  BY DEF SegmentAt
<1>3. /\ phdr.offset \in Nat /\ phdr.memsz \in Nat
      /\ Aligned(o) /\ n \in Nat /\ n * P \in Nat /\ u = o + n * P
      /\ Segment(phdr, o, u, n)
  <2>1. SegmentAt(image, k, phdr, o, u, n) /\ k \in 1 .. Len(image.phdrs)
    BY <1>1, <1>2
  <2>2. r.filename \in DOMAIN ImageOf /\ image = ImageOf[r.filename]
    BY <1>1
  <2>3. Segment(phdr, o, u, n)
    BY <2>1, <2>2, SegmentIs
  <2> QED
    BY <2>3 DEF Segment
<1>4. r.ptr \in HeapPages /\ Aligned(r.ptr)
  BY <1>1, HeapBlocks, HeapWord
<1>5. r.ptr \in Nat /\ o \in Nat /\ WORD \in Nat /\ P \in Nat
  BY <1>3, <1>4, Constants DEF Aligned
<1>6. PICK y, e, z : y = r.ptr + phdr.offset /\ e = phdr.offset + phdr.memsz /\ z = r.ptr + e
  OBVIOUS
<1>7. paging_align_to_lower_page(y) = r.ptr + o
  <2>1. PICK x, f : x = r.ptr /\ f = phdr.offset
    OBVIOUS
  <2>2. Aligned(x) /\ f \in Nat /\ y = x + f
    BY <1>3, <1>4, <1>6, <2>1
  <2>3. paging_align_to_lower_page(y) = x + paging_align_to_lower_page(f)
    BY <2>2, Shifted
  <2> QED
    BY <1>2, <2>1, <2>3
<1>8. z <= WORD - P /\ e \in Nat
  <2>1. PICK x : x = r.ptr + o
    OBVIOUS
  <2>2. r.ptr + (phdr.offset + phdr.memsz) <= WORD - P
    BY <1>3, <1>4, <2>1, SegmentMemory
  <2> QED
    BY <1>3, <1>6, <2>2
<1>9. paging_align_address(z) = r.ptr + paging_align_address(e)
  BY <1>4, <1>6, <1>8, Shifted
<1>10. z = y + phdr.memsz /\ r.ptr + u = (r.ptr + o) + n * P
  BY <1>3, <1>5, <1>6
<1>11. paging_align_address(y + phdr.memsz) = (r.ptr + o) + n * P
  BY <1>2, <1>6, <1>9, <1>10
<1>12. /\ Area(image, k).first = paging_align_to_lower_page(phdr.vaddr)
       /\ Area(image, k).pages = n
       /\ At(r, k) = r.ptr + o
       /\ AreaFlags(r, k) = InitialFlags + (IF phdr.write THEN PAGING_IS_WRITEABLE ELSE 0)
  <2>1. ~(k > Segments(image)) /\ k <= Segments(image)
    BY <1>1
  <2>2. /\ Area(image, k).first = paging_align_to_lower_page(phdr.vaddr)
        /\ Area(image, k).pages = n
    BY <1>1, <1>2, <2>1 DEF Area, P
  <2>3. At(r, k) = r.ptr + o
    BY <1>1, <1>2, <2>1 DEF At
  <2>4. InitialFlags + 0 = InitialFlags
    BY DEF InitialFlags, PAGING_IS_PRESENT, PAGING_ACCESS_FROM_ALL
  <2>5. AreaFlags(r, k) = IF phdr.write THEN UserWritable ELSE InitialFlags
    BY <1>2, <2>1 DEF AreaFlags
  <2>6. AreaFlags(r, k) = InitialFlags + (IF phdr.write THEN PAGING_IS_WRITEABLE ELSE 0)
    <3>1. CASE phdr.write
      BY <2>5, <3>1 DEF UserWritable
    <3>2. CASE ~phdr.write
      BY <2>4, <2>5, <3>2
    <3> QED
      BY <3>1, <3>2
  <2> QED
    BY <2>2, <2>3, <2>6
<1>13. elf_phdr_phys_address(r.ptr, phdr) = y
  BY <1>6 DEF elf_phdr_phys_address
<1>14. PhdrMap(v, r, phdr) =
         paging_map_to(v, r.directory, paging_align_to_lower_page(phdr.vaddr), r.ptr + o,
                       (r.ptr + o) + n * P,
                       InitialFlags + (IF phdr.write THEN PAGING_IS_WRITEABLE ELSE 0))
  BY <1>7, <1>11, <1>13 DEF PhdrMap
<1>15. PhdrMap(v, r, phdr) =
         paging_map_to(v, r.directory, Area(image, k).first, At(r, k),
                       At(r, k) + Area(image, k).pages * P, AreaFlags(r, k))
  BY <1>12, <1>14
<1> QED
  BY <1>2, <1>15 DEF AreaCall

LEMMA MapBinaryIs ==
  ASSUME NEW h, NEW t, NEW r \in Proc, HeapOK(h), Holds(h, t, r), NEW image, image = Image(r),
         r.elf_file = NULL, NEW v
  PROVE  AreaCall(v, r, 1) =
           paging_map_to(v, r.directory, OS_PROGRAM_VIRTUAL_ADDRESS, r.ptr,
                         paging_align_address(r.ptr + image.size), UserWritable)
<1>1. /\ Segments(image) = 1 /\ ~elf_validate_loaded(image.header)
      /\ r.ptr \in DOMAIN h /\ h[r.ptr] = Pages(image.size) /\ image.size \in 1 .. WORD - P
  BY HoldsParts
<1>2. PICK n : n = Pages(image.size)
  OBVIOUS
<1>3. paging_align_address(r.ptr + image.size) = r.ptr + n * P
  BY <1>1, <1>2, BlockIs
<1>4. /\ Area(image, 1).first = OS_PROGRAM_VIRTUAL_ADDRESS /\ Area(image, 1).pages = n
      /\ At(r, 1) = r.ptr /\ AreaFlags(r, 1) = UserWritable
  BY <1>1, <1>2 DEF Area, At, AreaFlags
<1> QED
  BY <1>3, <1>4 DEF AreaCall

LEMMA MapStackIs ==
  ASSUME NEW h, NEW t, NEW r \in Proc, HeapOK(h), Holds(h, t, r), NEW image, image = Image(r),
         NEW k, k = Segments(image) + 1, NEW v
  PROVE  AreaCall(v, r, k) =
           paging_map_to(v, r.directory, OS_USER_PROGRAM_VIRTUAL_STACK_ADDRESS_END, r.stack,
                         paging_align_address(r.stack + OS_USER_PROGRAM_VIRTUAL_STACK_SIZE),
                         UserWritable)
<1>1. PICK size, n : size = OS_USER_PROGRAM_VIRTUAL_STACK_SIZE /\ n = Pages(size)
  OBVIOUS
<1>2. Segments(image) \in Nat /\ r.stack \in DOMAIN h /\ h[r.stack] = n /\ size \in 1 .. WORD - P
  BY <1>1, HoldsParts
<1>3. paging_align_address(r.stack + size) = r.stack + n * P
  BY <1>1, <1>2, BlockIs
<1>4. k > Segments(image) /\ ~(k <= Segments(image))
  BY <1>2
<1>5. /\ Area(image, k).first = OS_USER_PROGRAM_VIRTUAL_STACK_ADDRESS_END /\ Area(image, k).pages = n
      /\ At(r, k) = r.stack /\ AreaFlags(r, k) = UserWritable
  BY <1>1, <1>4 DEF Area, At, AreaFlags
<1> QED
  BY <1>1, <1>3, <1>5 DEF AreaCall

LEMMA FlagValues == InitialFlags = 5 /\ UserWritable = 7
BY DEF InitialFlags, UserWritable, PAGING_IS_PRESENT, PAGING_ACCESS_FROM_ALL, PAGING_IS_WRITEABLE

LEMMA InIs ==
  ASSUME NEW r, r.filename \in DOMAIN ImageOf, NEW image, image = Image(r),
         NEW k \in 1 .. Segments(image) + 1, NEW area, area = Area(image, k), NEW v \in Page
  PROVE  /\ In(r, k, v) <=> v \in PagesFrom(area.first, area.pages)
         /\ In(r, k, v) => v \notin HeapPages /\ v \notin KernelPages
<1>1. r.filename \in DOMAIN ImageOf /\ image = ImageOf[r.filename]
  BY DEF Image
<1>2. /\ Aligned(area.first) /\ area.pages \in Nat
      /\ PagesFrom(area.first, area.pages) \subseteq Page \ (HeapPages \cup KernelPages)
  BY <1>1, AreaIs
<1>3. Aligned(v)
  BY PageAligned
<1>4. v \in PagesFrom(area.first, area.pages) <=> area.first <= v /\ v < area.first + area.pages * P
  BY <1>2, <1>3, PagesFromIs
<1>5. In(r, k, v) <=> v \in PagesFrom(area.first, area.pages)
  BY <1>4 DEF In
<1> QED
  BY <1>2, <1>5

\* No page is in two areas.
LEMMA AreasApart ==
  ASSUME NEW r, r.filename \in DOMAIN ImageOf, NEW image, image = Image(r),
         NEW k \in 1 .. Segments(image) + 1, NEW j \in 1 .. Segments(image) + 1, j # k,
         NEW v \in Page
  PROVE  ~(In(r, k, v) /\ In(r, j, v))
<1>1. PICK a, b : a = Area(image, k) /\ b = Area(image, j)
  OBVIOUS
<1>2. In(r, k, v) <=> v \in PagesFrom(a.first, a.pages)
  BY <1>1, InIs
<1>3. In(r, j, v) <=> v \in PagesFrom(b.first, b.pages)
  BY <1>1, InIs
<1>4. image = ImageOf[r.filename]
  BY DEF Image
<1>5. PagesFrom(a.first, a.pages) \cap PagesFrom(b.first, b.pages) = {}
  BY <1>1, <1>4, LayoutAssumption
<1> QED
  BY <1>2, <1>3, <1>5

\* The map of area k on top of m.
WithArea(r, k, m) ==
  RangeMap(m, Area(Image(r), k).first, At(r, k), Area(Image(r), k).pages, AreaFlags(r, k))

LEMMA WithAreaIs ==
  ASSUME NEW r, NEW k, NEW m, NEW v \in Page
  PROVE  WithArea(r, k, m)[v] = IF In(r, k, v) THEN AreaWord(r, k, v) ELSE m[v]
BY DEF WithArea, RangeMap, In, AreaWord

\* One more area is mapped.
LEMMA AreaMapped ==
  ASSUME NEW r, r.filename \in DOMAIN ImageOf, NEW image, image = Image(r),
         NEW n \in Nat, NEW k \in 1 .. Segments(image) + 1, k = n + 1, NEW m,
         AreasMapped(r, m, n), NEW o, o = WithArea(r, k, m)
  PROVE  AreasMapped(r, o, k) /\ \A v \in HeapPages : o[v] = m[v]
<1>1. Segments(image) \in Nat
  BY SegmentsIs DEF Image
<1>2. ASSUME NEW v \in HeapPages PROVE o[v] = m[v]
  <2>1. v \in Page
    BY HeapWord
  <2>2. ~In(r, k, v)
    BY <2>1, InIs
  <2> QED
    BY <2>1, <2>2, WithAreaIs
<1>3. ASSUME NEW v \in Page \ HeapPages, NEW j \in 1 .. k, In(r, j, v)
      PROVE  o[v] = AreaWord(r, j, v)
  <2>1. CASE j = k
    BY <1>3, <2>1, WithAreaIs
  <2>2. CASE j # k
    <3>1. j \in 1 .. n /\ j \in 1 .. Segments(image) + 1
      BY <1>1, <2>2
    <3>2. ~In(r, k, v)
      BY <1>3, <2>2, <3>1, AreasApart
    <3>3. o[v] = m[v]
      BY <3>2, WithAreaIs
    <3> QED
      BY <1>3, <3>1, <3>3 DEF AreasMapped
  <2> QED
    BY <2>1, <2>2
<1>4. ASSUME NEW v \in Page \ HeapPages, \A j \in 1 .. k : ~In(r, j, v)
      PROVE  o[v] = v + InitialFlags
  <2>1. k \in 1 .. k /\ \A j \in 1 .. n : j \in 1 .. k
    BY <1>1
  <2>2. o[v] = m[v]
    BY <1>4, <2>1, WithAreaIs
  <2> QED
    BY <1>4, <2>1, <2>2 DEF AreasMapped
<1> QED
  BY <1>2, <1>3, <1>4 DEF AreasMapped

\* What the areas of a process depend on.
LEMMA AreasOutside ==
  ASSUME NEW r, NEW s, NEW n, NEW m, AreasMapped(r, m, n), NEW o,
         s.filename = r.filename, s.elf_file = r.elf_file, s.ptr = r.ptr, s.stack = r.stack,
         \A v \in Page \ HeapPages : o[v] = m[v]
  PROVE  AreasMapped(s, o, n)
<1>1. Image(s) = Image(r)
  BY DEF Image
<1>2. \A k, v : In(s, k, v) = In(r, k, v)
  BY <1>1 DEF In
<1>3. \A k : At(s, k) = At(r, k)
  BY <1>1 DEF At
<1>4. \A k : AreaFlags(s, k) = AreaFlags(r, k)
  BY <1>1 DEF AreaFlags
<1>5. \A k, v : AreaWord(s, k, v) = AreaWord(r, k, v)
  BY <1>1, <1>3, <1>4 DEF AreaWord
<1> QED
  BY <1>2, <1>5 DEF AreasMapped

\* A block that is mapped to itself.
LEMMA BlockMapped ==
  ASSUME NEW x, Aligned(x), NEW n \in Nat, NEW f \in 0 .. 7, NEW m, NEW o,
         o = RangeMap(m, x, x, n, f), NEW v \in Page
  PROVE  o[v] = IF v \in PagesFrom(x, n) THEN v + f ELSE m[v]
<1>1. Aligned(v) /\ v \in Nat /\ x \in Nat
  BY PageAligned DEF Aligned
<1>2. v \in PagesFrom(x, n) <=> x <= v /\ v < x + n * P
  BY <1>1, PagesFromIs
<1>3. o[v] = IF x <= v /\ v < x + n * P THEN x + (v - x) + f ELSE m[v]
  BY DEF RangeMap
<1>4. x + (v - x) + f = v + f
  BY <1>1
<1> QED
  BY <1>2, <1>3, <1>4

\* Blocks have no page in common.
LEMMA BlocksApart ==
  ASSUME NEW h, HeapOK(h), NEW x \in DOMAIN h, NEW y \in DOMAIN h, x # y
  PROVE  y \notin PagesFrom(x, h[x]) /\ PagesFrom(x, h[x]) \cap PagesFrom(y, h[y]) = {}
<1>1. y \in PagesFrom(y, h[y])
  BY HeapBlocks
<1>2. PagesFrom(x, h[x]) \cap PagesFrom(y, h[y]) = {}
  BY DEF HeapOK
<1> QED
  BY <1>1, <1>2

LEMMA LedgerPages ==
  ASSUME NEW h, NEW t, NEW r \in Proc, Holds(h, t, r)
  PROVE  /\ r.allocations \in Ledger
         /\ \A a \in r.allocations : /\ a.ptr \in DOMAIN h /\ a.size \in Sizes /\ a.ptr \in HeapPages
                                     /\ a.ptr \notin Fixed(r) /\ h[a.ptr] = Pages(a.size)
         /\ AllocPages(r) = UNION {PagesFrom(a.ptr, h[a.ptr]) : a \in r.allocations}
         /\ r.task \in DOMAIN h /\ r.chunk \in DOMAIN h /\ r.task \in Fixed(r) /\ r.chunk \in Fixed(r)
         /\ r.task \in HeapPages /\ r.chunk \in HeapPages
<1>1. r.allocations \in Ledger
  BY DEF Proc, Ledger
<1>2. \A a \in r.allocations : a.size \in Sizes /\ a.ptr \in HeapPages
  BY <1>1 DEF Ledger
<1>3. \A a \in r.allocations : a.ptr \notin Fixed(r) /\ h[a.ptr] = Pages(a.size)
  BY DEF Holds
<1>4. \A a \in r.allocations : a.ptr \in DOMAIN h
  BY DEF Holds, Data
<1>5. AllocPages(r) = UNION {PagesFrom(a.ptr, h[a.ptr]) : a \in r.allocations}
  BY <1>3 DEF AllocPages
<1>6. r.task \in Fixed(r) /\ r.chunk \in Fixed(r)
  BY DEF Fixed
<1>7. r.task \in DOMAIN h /\ r.chunk \in DOMAIN h /\ r.task \in HeapPages /\ r.chunk \in HeapPages
  BY <1>6 DEF Holds, Data
<1> QED
  BY <1>1, <1>2, <1>3, <1>4, <1>5, <1>6, <1>7

\* A block x is mapped with flags f; the table of allocations becomes as.
BlockChange(h, r, m, x, f, as, s, o) ==
  /\ x \in DOMAIN h
  /\ s = With(r, as)
  /\ o = RangeMap(m, x, x, h[x], f)

\* It is not in the way of anything else of the process.
LEMMA BlockChangeKeeps ==
  ASSUME NEW h, NEW t, NEW r \in Proc, HeapOK(h), Holds(h, t, r), NEW m, NEW N, AreasMapped(r, m, N),
         Pinned(r, m), NEW x, NEW f \in 0 .. 7, NEW as \in Ledger, NEW s, NEW o,
         BlockChange(h, r, m, x, f, as, s, o), x \notin Fixed(r)
  PROVE  /\ AreasMapped(s, o, N) /\ Pinned(s, o)
         /\ \A v \in HeapPages : v \notin PagesFrom(x, h[x]) => o[v] = m[v]
         /\ \A v \in PagesFrom(x, h[x]) : v \in HeapPages /\ o[v] = v + f
         /\ s.allocations = as
<1>1. PICK n : n = h[x]
  OBVIOUS
<1>2. x \in DOMAIN h /\ s = With(r, as) /\ o = RangeMap(m, x, x, n, f)
  BY <1>1 DEF BlockChange
<1>3. n \in Nat /\ x \in HeapPages /\ PagesFrom(x, n) \subseteq HeapPages
  BY <1>1, <1>2 DEF HeapOK
<1>4. Aligned(x)
  BY <1>3, HeapWord
<1>5. \A v \in HeapPages : v \in Page
  BY HeapWord
<1>6. \A v \in Page : o[v] = IF v \in PagesFrom(x, n) THEN v + f ELSE m[v]
  BY <1>2, <1>3, <1>4, BlockMapped
<1>7. \A v \in Page \ HeapPages : o[v] = m[v]
  BY <1>3, <1>6
<1>8. /\ s.allocations = as /\ s.filename = r.filename /\ s.elf_file = r.elf_file /\ s.ptr = r.ptr
      /\ s.stack = r.stack /\ s.task = r.task /\ s.chunk = r.chunk
  BY <1>2, WithIs
<1>9. AreasMapped(s, o, N)
  BY <1>7, <1>8, AreasOutside
<1>10. ASSUME NEW v \in {r.task, r.chunk} PROVE o[v] = v + InitialFlags
  <2>1. v \in DOMAIN h /\ v \in Fixed(r) /\ v \in HeapPages
    BY LedgerPages
  <2>2. v \notin PagesFrom(x, h[x])
    BY <1>2, <2>1, BlocksApart
  <2>3. o[v] = m[v]
    BY <1>1, <1>5, <1>6, <2>1, <2>2
  <2> QED
    BY <2>3 DEF Pinned
<1>11. Pinned(s, o)
  BY <1>8, <1>10 DEF Pinned
<1>12. \A v \in HeapPages : v \notin PagesFrom(x, h[x]) => o[v] = m[v]
  BY <1>1, <1>5, <1>6
<1>13. \A v \in PagesFrom(x, h[x]) : v \in HeapPages /\ o[v] = v + f
  BY <1>1, <1>3, <1>5, <1>6
<1> QED
  BY <1>8, <1>9, <1>11, <1>12, <1>13

\* malloc makes a block writable.
LEMMA GivenMapped ==
  ASSUME NEW h, NEW t, NEW r \in Proc, HeapOK(h), Holds(h, t, r), NEW m, NEW N, AreasMapped(r, m, N),
         Pinned(r, m), HeapMapped(r, m), NEW x, x \notin Fixed(r), NEW size \in Sizes, h[x] = Pages(size),
         NEW s, NEW o, NEW as \in Ledger, as = r.allocations \cup {Allocation(x, size)},
         BlockChange(h, r, m, x, UserWritable, as, s, o)
  PROVE  AreasMapped(s, o, N) /\ Pinned(s, o) /\ HeapMapped(s, o)
<1>1. UserWritable \in 0 .. 7
  BY FlagValues
<1>2. /\ AreasMapped(s, o, N) /\ Pinned(s, o)
      /\ \A v \in HeapPages : v \notin PagesFrom(x, h[x]) => o[v] = m[v]
      /\ \A v \in PagesFrom(x, h[x]) : v \in HeapPages /\ o[v] = v + UserWritable
      /\ s.allocations = as
  BY <1>1, BlockChangeKeeps
<1>3. AllocPages(s) = AllocPages(r) \cup PagesFrom(x, h[x])
  <2>1. PagesFrom(Allocation(x, size).ptr, Pages(Allocation(x, size).size)) = PagesFrom(x, h[x])
    BY DEF Allocation
  <2>2. AllocPages(s) = AllocPages(r) \cup PagesFrom(Allocation(x, size).ptr, Pages(Allocation(x, size).size))
    BY <1>2 DEF AllocPages
  <2> QED
    BY <2>1, <2>2
<1>4. ASSUME NEW v \in HeapPages
      PROVE  /\ o[v] \in {v, v + InitialFlags, v + UserWritable}
             /\ o[v] = v + UserWritable <=> v \in AllocPages(s)
  <2>1. CASE v \in PagesFrom(x, h[x])
    BY <1>2, <1>3, <2>1
  <2>2. CASE v \notin PagesFrom(x, h[x])
    <3>1. o[v] = m[v]
      BY <1>2, <2>2
    <3>2. m[v] \in {v, v + InitialFlags, v + UserWritable} /\ (m[v] = v + UserWritable <=> v \in AllocPages(r))
      BY DEF HeapMapped
    <3> QED
      BY <1>3, <2>2, <3>1, <3>2
  <2> QED
    BY <2>1, <2>2
<1> QED
  BY <1>2, <1>4 DEF HeapMapped

\* free makes it not present.
LEMMA TakenMapped ==
  ASSUME NEW h, NEW t, NEW r \in Proc, HeapOK(h), Holds(h, t, r), NEW m, NEW N, AreasMapped(r, m, N),
         Pinned(r, m), HeapMapped(r, m), NEW a \in r.allocations,
         NEW s, NEW o, NEW as \in Ledger, as = r.allocations \ {a},
         BlockChange(h, r, m, a.ptr, 0, as, s, o)
  PROVE  AreasMapped(s, o, N) /\ Pinned(s, o) /\ HeapMapped(s, o)
<1>1. PICK x : x = a.ptr
  OBVIOUS
<1>2. /\ x \notin Fixed(r) /\ x \in DOMAIN h
      /\ \A b \in r.allocations : b.ptr \in DOMAIN h
      /\ AllocPages(r) = UNION {PagesFrom(b.ptr, h[b.ptr]) : b \in r.allocations}
      /\ \A b \in r.allocations : h[b.ptr] = Pages(b.size)
  BY <1>1, LedgerPages
<1>3. BlockChange(h, r, m, x, 0, as, s, o) /\ 0 \in 0 .. 7
  BY <1>1
<1>4. /\ AreasMapped(s, o, N) /\ Pinned(s, o)
      /\ \A v \in HeapPages : v \notin PagesFrom(x, h[x]) => o[v] = m[v]
      /\ \A v \in PagesFrom(x, h[x]) : v \in HeapPages /\ o[v] = v + 0
      /\ s.allocations = as
  BY <1>2, <1>3, BlockChangeKeeps
<1>5. \A b \in as : b.ptr # x /\ b.ptr \in DOMAIN h
  BY <1>1, <1>2 DEF Holds
<1>6. \A b \in as : PagesFrom(x, h[x]) \cap PagesFrom(b.ptr, h[b.ptr]) = {}
  BY <1>2, <1>5, BlocksApart
<1>7. AllocPages(s) = UNION {PagesFrom(b.ptr, h[b.ptr]) : b \in as}
  BY <1>2, <1>4 DEF AllocPages
<1>8. AllocPages(s) \cap PagesFrom(x, h[x]) = {}
  BY <1>6, <1>7
<1>9. \A v : v \notin PagesFrom(x, h[x]) => (v \in AllocPages(s) <=> v \in AllocPages(r))
  BY <1>1, <1>2, <1>7
<1>10. ASSUME NEW v \in HeapPages
       PROVE  /\ o[v] \in {v, v + InitialFlags, v + UserWritable}
              /\ o[v] = v + UserWritable <=> v \in AllocPages(s)
  <2>1. CASE v \in PagesFrom(x, h[x])
    <3>1. v \in Nat
      BY HeapWord
    <3>2. o[v] = v + 0
      BY <1>4, <2>1
    <3>3. o[v] = v /\ o[v] # v + UserWritable
      BY <3>1, <3>2, FlagValues
    <3> QED
      BY <1>8, <2>1, <3>3
  <2>2. CASE v \notin PagesFrom(x, h[x])
    <3>1. o[v] = m[v]
      BY <1>4, <2>2
    <3>2. m[v] \in {v, v + InitialFlags, v + UserWritable} /\ (m[v] = v + UserWritable <=> v \in AllocPages(r))
      BY DEF HeapMapped
    <3> QED
      BY <1>9, <2>2, <3>1, <3>2
  <2> QED
    BY <2>1, <2>2
<1> QED
  BY <1>4, <1>10 DEF HeapMapped

\* One entry of the heap changes.
LEMMA EntryMapped ==
  ASSUME NEW h, NEW t, NEW r \in Proc, HeapOK(h), Holds(h, t, r), NEW m, NEW N, AreasMapped(r, m, N),
         Pinned(r, m), m = [v \in Page |-> m[v]], NEW x \in HeapPages, x \notin Fixed(r),
         NEW w, NEW o, o = Updated(m, x, w)
  PROVE  /\ AreasMapped(r, o, N) /\ Pinned(r, o) /\ o[x] = w
         /\ o = [v \in Page |-> o[v]] /\ Updated(o, x, m[x]) = m
<1>1. x \in Page
  BY HeapWord
<1>2. o = [v \in Page |-> IF v = x THEN w ELSE m[v]]
  BY <1>1 DEF Updated
<1>3. \A v \in Page : o[v] = IF v = x THEN w ELSE m[v]
  BY <1>2
<1>4. \A v \in Page \ HeapPages : o[v] = m[v]
  BY <1>3
<1>5. AreasMapped(r, o, N)
  BY <1>4, AreasOutside
<1>6. r.task \in HeapPages /\ r.chunk \in HeapPages /\ r.task # x /\ r.chunk # x
  BY LedgerPages
<1>7. r.task \in Page /\ r.chunk \in Page
  BY <1>6, HeapWord
<1>8. Pinned(r, o)
  BY <1>3, <1>6, <1>7 DEF Pinned
<1>9. Updated(o, x, m[x]) = m
  <2>1. Updated(o, x, m[x]) = [v \in Page |-> IF v = x THEN m[x] ELSE o[v]]
    BY <1>1, <1>2 DEF Updated
  <2>2. \A v \in Page : (IF v = x THEN m[x] ELSE o[v]) = m[v]
    BY <1>3
  <2> QED
    BY <2>1, <2>2
<1> QED
  BY <1>1, <1>2, <1>3, <1>5, <1>8, <1>9

\* A new process.
LEMMA FreshMapped ==
  ASSUME NEW r \in Proc, r.task \in HeapPages, r.chunk \in HeapPages, r.allocations = {}
  PROVE  AreasMapped(r, Fresh, 0) /\ Pinned(r, Fresh) /\ HeapMapped(r, Fresh)
<1>1. \A v \in Page : Fresh[v] = v + InitialFlags
  BY DEF Fresh
<1>2. \A v \in HeapPages : v \in Page /\ v \in Nat
  BY HeapWord
<1>3. \A k : k \notin 1 .. 0
  OBVIOUS
<1>4. AreasMapped(r, Fresh, 0)
  BY <1>1, <1>3 DEF AreasMapped
<1>5. Pinned(r, Fresh)
  BY <1>1, <1>2 DEF Pinned
<1>6. AllocPages(r) = {}
  BY DEF AllocPages
<1>7. \A v \in HeapPages : v + InitialFlags # v + UserWritable
  BY <1>2, FlagValues
<1>8. HeapMapped(r, Fresh)
  BY <1>1, <1>2, <1>6, <1>7 DEF HeapMapped
<1> QED
  BY <1>4, <1>5, <1>8

------------------------------------------------------------------------------
(* Steps. *)

LEMMA StateIs ==
  /\ Live = LiveIn(process) /\ Live' = LiveIn(process')
  /\ \A q : Map(q) = MapIn(table, process, q)
  /\ \A q : Map(q)' = MapIn(table', process', q)
<1>1. Live = LiveIn(process) /\ Live' = LiveIn(process')
  BY DEF Live, LiveIn
<1> QED
  BY <1>1 DEF Map, MapIn

\* What a process has mapped stays when nothing it depends on changes.
LEMMA MappedKept ==
  ASSUME NEW q, MappedFor(q), process'[q] = process[q], Map(q)' = Map(q), Done(q)' = Done(q),
         View(q)' = View(q), ~(q = current /\ pc = "exception")
  PROVE  MappedFor(q)'
BY DEF MappedFor

\* Nothing is copied or loaded before or after the step.
LEMMA QuietFor ==
  ASSUME NEW q, MappedFor(q), process'[q] = process[q], Map(q)' = Map(q),
         pc # "reading", pc' # "reading", ~(q = current /\ pc = "exception"),
         ~(pc = "mapping" /\ next.p = q), ~(pc' = "mapping" /\ next'.p = q)
  PROVE  MappedFor(q)'
<1>1. View(q) = Map(q) /\ View(q)' = Map(q)'
  BY DEF View
<1>2. Done(q)' = Done(q)
  BY DEF Done
<1> QED
  BY <1>1, <1>2, MappedKept

\* Steps that change neither memory nor processes.
LEMMA Quiet ==
  ASSUME IInv, UNCHANGED <<heap, table, process>>,
         pc \notin {"reading", "exception", "mapping"},
         pc' \notin {"reading", "exception", "mapping"}
  PROVE  Owned' /\ Mapped' /\ Live' = Live /\ \A q : Map(q)' = Map(q)
<1>1. Live' = Live /\ \A q : Map(q)' = Map(q)
  BY DEF Live, Map
<1>2. Owned'
  BY DEF IInv, Owned
<1>3. ASSUME NEW q \in Live' PROVE MappedFor(q)'
  <2>1. MappedFor(q)
    BY <1>1, <1>3 DEF IInv, Mapped
  <2>2. Map(q)' = Map(q) /\ process'[q] = process[q]
    BY <1>1
  <2> QED
    BY <2>1, <2>2, QuietFor
<1>4. Mapped'
  BY <1>3 DEF Mapped
<1> QED
  BY <1>1, <1>2, <1>4

\* cr3 is loaded with the directory of a process.
LEMMA RunIs ==
  ASSUME NEW p \in Process, p \in Live', Run(p)
  PROVE  /\ NoStaleTranslation' /\ cr3' = p /\ current' = p /\ pc' = "user" /\ p # KERNEL
         /\ tlb' = Map(p)'
<1>1. /\ cr3' = p /\ current' = p /\ pc' = "user"
      /\ tlb' = Translation(table', process'[p].directory)
  BY DEF Run, paging_switch
<1>2. tlb' = Map(p)'
  BY <1>1 DEF Map
<1>3. p # KERNEL
  BY ProcessAssumption
<1> QED
  BY <1>1, <1>2, <1>3 DEF NoStaleTranslation

LEMMA LiveIsProcess == /\ \A p \in Live : p \in Process /\ p # KERNEL
                       /\ \A p \in Live' : p \in Process /\ p # KERNEL
BY ProcessAssumption DEF Live

LEMMA RunLoadedStep == ASSUME IInv, RunLoaded PROVE IInv'
<1>1. /\ pc = "loaded" /\ next' = [p |-> KERNEL, header |-> 0]
      /\ UNCHANGED <<heap, table, process>>
  BY DEF RunLoaded
<1>2. next.p \in Live /\ current \in Process \cup {KERNEL} /\ cr3 = KERNEL
  BY <1>1 DEF IInv, Control, Kernel
<1>3. next'.p = KERNEL
  BY <1>1
<1>4. CASE Run(next.p)
  <2>1. pc' = "user"
    BY <1>4 DEF Run
  <2>2. Owned' /\ Mapped' /\ Live' = Live
    BY <1>1, <2>1, Quiet
  <2>3. next.p \in Process /\ next.p \in Live'
    BY <1>2, <2>2, LiveIsProcess
  <2>4. /\ NoStaleTranslation' /\ cr3' = next.p /\ current' = next.p /\ next.p # KERNEL
    BY <1>4, <2>3, RunIs
  <2>5. Control'
    BY <1>3, <2>1, <2>3, <2>4 DEF Control, Kernel
  <2> QED
    BY <2>2, <2>4, <2>5 DEF IInv
<1>5. CASE current = KERNEL /\ pc' = "kernel" /\ UNCHANGED <<current, cr3, tlb>>
  <2>1. Owned' /\ Mapped' /\ Live' = Live
    BY <1>1, <1>5, Quiet
  <2>2. Control'
    BY <1>2, <1>3, <1>5, <2>1 DEF Control, Kernel
  <2>3. NoStaleTranslation'
    BY <1>2, <1>5 DEF NoStaleTranslation
  <2> QED
    BY <2>1, <2>2, <2>3 DEF IInv
<1> QED
  BY <1>4, <1>5 DEF RunLoaded

\* task_run_first_ever_task, and the return from the kernel to a program.
LEMMA ReturnStep ==
  ASSUME IInv, pc \in {"kernel", "done", "copied"}, UNCHANGED <<heap, table, process, next>>,
         NEW p \in Live, Run(p)
  PROVE  IInv'
<1>1. pc' = "user"
  BY DEF Run
<1>2. Owned' /\ Mapped' /\ Live' = Live
  BY <1>1, Quiet
<1>3. p \in Process /\ p \in Live'
  BY <1>2, LiveIsProcess
<1>4. /\ NoStaleTranslation' /\ cr3' = p /\ current' = p /\ p # KERNEL
  BY <1>3, RunIs
<1>5. next'.p = KERNEL
  BY DEF IInv, Control
<1>6. Control'
  BY <1>1, <1>3, <1>4, <1>5 DEF Control, Kernel
<1> QED
  BY <1>2, <1>4, <1>6 DEF IInv

LEMMA EnterStep == ASSUME IInv, Enter PROVE IInv'
<1>1. /\ pc = "user" /\ pc' = "kernel" /\ cr3' = KERNEL
      /\ UNCHANGED <<heap, table, process>> /\ current' = current /\ next' = next
  BY DEF Enter, kernel_page
<1>2. Owned' /\ Mapped' /\ Live' = Live
  BY <1>1, Quiet
<1>3. current \in Process \cup {KERNEL} /\ (current # KERNEL => current \in Live) /\ next.p = KERNEL
  BY <1>1 DEF IInv, Control
<1>4. Control'
  BY <1>1, <1>2, <1>3 DEF Control, Kernel
<1>5. NoStaleTranslation'
  BY <1>1 DEF NoStaleTranslation
<1> QED
  BY <1>2, <1>4, <1>5 DEF IInv

LEMMA StutterStep == ASSUME IInv, UNCHANGED vars PROVE IInv'
<1>1. /\ heap' = heap /\ table' = table /\ process' = process /\ current' = current
      /\ cr3' = cr3 /\ tlb' = tlb /\ pc' = pc /\ next' = next /\ copy' = copy
  BY DEF vars
<1>2. Live' = Live
  BY <1>1 DEF Live
<1>3. \A q : Map(q)' = Map(q)
  BY <1>1, <1>2 DEF Map
<1>4. \A q : Done(q)' = Done(q)
  BY <1>1 DEF Done
<1>5. \A q : View(q)' = View(q)
  BY <1>1, <1>3 DEF View
<1>6. Control'
  BY <1>1, <1>2 DEF IInv, Control
<1>7. Owned'
  BY <1>1 DEF IInv, Owned
<1>8. Mapped'
  <2>1. \A q \in Live : MappedFor(q)'
    BY <1>1, <1>3, <1>4, <1>5 DEF IInv, Mapped, MappedFor
  <2> QED
    BY <1>1, <1>2, <1>3, <2>1 DEF IInv, Mapped
<1>9. NoStaleTranslation'
  BY <1>1, <1>3 DEF IInv, NoStaleTranslation
<1> QED
  BY <1>6, <1>7, <1>8, <1>9 DEF IInv

\* Only the map of p has changed.
Turned(p, m) == Map(p)' = m /\ \A q \in Process : q # p => Map(q)' = Map(q)

\* What the steps have in common that end in the kernel.
LEMMA KernelStep ==
  ASSUME Control', cr3' = KERNEL, Owned', Mapped'
  PROVE  IInv'
BY DEF IInv, NoStaleTranslation

LEMMA LoadStep ==
  ASSUME IInv, NEW p \in Process, NEW filename \in DOMAIN ImageOf, process_load(p, filename)
  PROVE  IInv' /\ Turned(p, Fresh) /\ p \notin Live
<1> DEFINE image == ImageOf[filename]
           g == Grab(heap, Requests(image))
           s == g.ptrs
           r == NewRecord(filename, s)
           used == Used(TableBlocks(image, s))
<1>1. /\ pc \in {"copied", "kernel"} /\ p \notin Live /\ g.ok /\ heap' = g.heap
      /\ pc' = "mapping" /\ next' = [p |-> p, header |-> 1]
      /\ current' = current /\ cr3' = cr3
  BY DEF process_load
<1>2. table' = paging_new_4gb(table, TableBlocks(image, s), InitialFlags)
  BY DEF process_load, TableBlocks, StackAt, E
<1>3. Becomes(process, p, r, process')
  BY DEF process_load, NewRecord, StackAt, Becomes
<1>4. OwnedIn(heap, table, process) /\ HeapOK(heap) /\ Tables(table) /\ DOMAIN table \subseteq DOMAIN heap
  BY OwnedParts DEF IInv, Owned
<1>5. NewProcess(heap, table, heap', table', r, used)
  <2> HIDE DEF image, g, r
  <2>1. image = ImageOf[filename] /\ g = Grab(heap, Requests(image)) /\ r = NewRecord(filename, s)
    BY DEF image, g, r
  <2> QED
    BY <1>1, <1>2, <1>4, <2>1, LoadIs
<1> HIDE DEF image, g, s, r, used
<1>6. p \notin LiveIn(process)
  BY <1>1, StateIs
<1>7. /\ OwnedIn(heap', table', process') /\ LiveIn(process') = LiveIn(process) \cup {p}
      /\ process'[p] = r /\ \A q \in Process : q # p => process'[q] = process[q]
      /\ MapIn(table', process', p) = Fresh
      /\ \A q \in Process : q # p => MapIn(table', process', q) = MapIn(table, process, q)
  BY <1>3, <1>4, <1>5, <1>6, LoadOwned
<1>8. Turned(p, Fresh) /\ Live' = Live \cup {p}
  BY <1>7, StateIs DEF Turned
<1>9. next.p = KERNEL /\ p # KERNEL /\ next'.p = p /\ next'.header = 1 /\ cr3 = KERNEL
  BY <1>1, ProcessAssumption DEF IInv, Control, Kernel
<1>10. Control'
  BY <1>1, <1>8, <1>9 DEF IInv, Control, Kernel
<1>11. Owned'
  BY <1>1, <1>7 DEF Owned
<1>12. /\ r \in Proc /\ r.task \in HeapPages /\ r.chunk \in HeapPages /\ r.allocations = {}
       /\ r.filename \in DOMAIN ImageOf
  BY <1>5 DEF NewProcess
<1>13. MappedFor(p)'
  <2>1. AreasMapped(r, Fresh, 0) /\ Pinned(r, Fresh) /\ HeapMapped(r, Fresh)
    BY <1>12, FreshMapped
  <2>2. Done(p)' = 0
    BY <1>1, <1>9 DEF Done
  <2>3. View(p)' = Map(p)' /\ Map(p)' = Fresh
    BY <1>1, <1>8 DEF View, Turned
  <2> QED
    BY <1>7, <2>1, <2>2, <2>3 DEF MappedFor
<1>14. ASSUME NEW q \in Live', q # p PROVE MappedFor(q)'
  <2>1. q \in Process /\ q \in Live
    BY <1>8, <1>14, LiveIsProcess
  <2>2. MappedFor(q) /\ process'[q] = process[q] /\ Map(q)' = Map(q)
    BY <1>7, <1>8, <1>14, <2>1 DEF IInv, Mapped, Turned
  <2>3. pc \notin {"reading", "exception", "mapping"} /\ pc' = "mapping" /\ next'.p # q
    BY <1>1, <1>9, <1>14
  <2> QED
    BY <2>2, <2>3, QuietFor
<1>15. Segments(Image(r)) \in Nat
  BY <1>12, SegmentsIs DEF Image
<1>16. next'.header \in 1 .. Segments(Image(process'[next'.p])) + 1
  BY <1>7, <1>9, <1>15
<1>17. Mapped'
  BY <1>1, <1>13, <1>14, <1>16 DEF Mapped
<1> QED
  BY <1>1, <1>8, <1>9, <1>10, <1>11, <1>17, KernelStep

\* A turn of process_map_elf, process_map_binary or the end of
\* process_map_memory: area k of the new process is mapped.
MapsArea(p, k) ==
  /\ pc = "mapping" /\ p = next.p /\ k = next.header /\ next'.p = p
  /\ heap' = heap /\ process' = process /\ current' = current /\ cr3' = cr3
  /\ table' = AreaCall(table, process[p], k)
  /\ \/ pc' = "mapping" /\ next'.header = k + 1 /\ k <= Segments(Image(process[p]))
     \/ pc' = "loaded" /\ k = Segments(Image(process[p])) + 1

LEMMA ProcessParts ==
  ASSUME IInv, NEW p \in Live, NEW r, r = process[p]
  PROVE  /\ p \in Process /\ p \in LiveIn(process) /\ r \in Proc
         /\ OwnedIn(heap, table, process) /\ HeapOK(heap) /\ Holds(heap, table, r)
         /\ Tables(table) /\ Directory(table, r.directory)
         /\ Map(p) = Translation(table, r.directory)
<1>1. OwnedIn(heap, table, process) /\ p \in LiveIn(process)
  BY StateIs DEF IInv, Owned
<1>2. Map(p) = Translation(table, r.directory)
  BY DEF Map
<1> QED
  BY <1>1, <1>2, OwnedParts

LEMMA AreaStep ==
  ASSUME IInv, NEW p, NEW k, MapsArea(p, k), NEW r, r = process[p]
  PROVE  /\ IInv' /\ Turned(p, WithArea(r, k, Map(p))) /\ p \in Live
         /\ CanMap(Area(Image(r), k).first, At(r, k), Area(Image(r), k).pages)
         /\ AreaFlags(r, k) \in 0 .. 7
<1> DEFINE image == Image(r)
           area == Area(image, k)
           x == At(r, k)
           f == AreaFlags(r, k)
           o == WithArea(r, k, Map(p))
<1>1. /\ pc = "mapping" /\ p = next.p /\ k = next.header /\ next'.p = p
      /\ heap' = heap /\ process' = process /\ current' = current /\ cr3' = cr3
      /\ table' = AreaCall(table, r, k)
  BY DEF MapsArea
<1>2. p \in Live /\ k \in 1 .. Segments(image) + 1
  BY <1>1 DEF IInv, Control, Mapped
<1>3. /\ p \in Process /\ p \in LiveIn(process) /\ r \in Proc
      /\ OwnedIn(heap, table, process) /\ HeapOK(heap) /\ Holds(heap, table, r)
      /\ Tables(table) /\ Directory(table, r.directory)
      /\ Map(p) = Translation(table, r.directory)
  BY <1>2, ProcessParts
<1>4. CanMap(area.first, x, area.pages) /\ f \in {InitialFlags, UserWritable}
  <2> HIDE DEF image, area, x
  <2>1. image = Image(r) /\ area = Area(image, k) /\ x = At(r, k)
    BY DEF image, area, x
  <2> QED
    BY <1>2, <1>3, <2>1, AreaMemory DEF f
<1>5. f \in 0 .. 7
  BY <1>4, FlagValues
<1>6. table' = paging_map_to(table, r.directory, area.first, x, x + area.pages * P, f)
  BY <1>1 DEF AreaCall
<1>7. Remapped(table, table', r.directory,
               RangeMap(Translation(table, r.directory), area.first, x, area.pages, f))
  <2> HIDE DEF image, area, x, f
  <2> QED
    BY <1>3, <1>4, <1>5, <1>6, MapToRemaps
<1>8. Remapped(table, table', DirectoryOf(process, p), o)
  BY <1>3, <1>7 DEF WithArea, DirectoryOf
<1> HIDE DEF x, f, o
<1>9. /\ OwnedIn(heap, table', process)
      /\ MapIn(table', process, p) = o
      /\ \A q \in Process : q # p => MapIn(table', process, q) = MapIn(table, process, q)
  <2>1. OwnedIn(heap, table, process) /\ p \in LiveIn(process)
    BY <1>3
  <2> QED
    BY <1>8, <2>1, RemapOwned
<1>10. Turned(p, o) /\ Live' = Live
  BY <1>1, <1>9, StateIs DEF Turned
<1>11. Segments(image) \in Nat /\ k \in Nat /\ k - 1 \in Nat /\ k = (k - 1) + 1
  <2>1. r.filename \in DOMAIN ImageOf
    BY <1>3 DEF Holds
  <2>2. Segments(image) \in Nat
    BY <2>1, SegmentsIs DEF Image
  <2> QED
    BY <1>2, <2>2
<1>12. MappedFor(p) /\ Done(p) = k - 1 /\ View(p) = Map(p) /\ pc # "exception"
  BY <1>1, <1>2 DEF IInv, Mapped, Done, View
<1>13. AreasMapped(r, Map(p), k - 1) /\ Pinned(r, Map(p)) /\ HeapMapped(r, Map(p))
  BY <1>12 DEF MappedFor
<1>14. AreasMapped(r, o, k) /\ \A v \in HeapPages : o[v] = Map(p)[v]
  <2>1. r.filename \in DOMAIN ImageOf
    BY <1>3 DEF Holds
  <2>2. o = WithArea(r, k, Map(p)) /\ image = Image(r)
    BY DEF o
  <2> HIDE DEF image
  <2> QED
    BY <1>2, <1>11, <1>13, <2>1, <2>2, AreaMapped
<1>15. Pinned(r, o)
  <2>1. r.task \in HeapPages /\ r.chunk \in HeapPages
    BY <1>3 DEF Holds
  <2> QED
    BY <1>13, <1>14, <2>1 DEF Pinned
<1>16. HeapMapped(r, o)
  BY <1>13, <1>14 DEF HeapMapped
<1>17. \/ pc' = "mapping" /\ next'.header = k + 1 /\ k <= Segments(image)
       \/ pc' = "loaded" /\ k = Segments(image) + 1
  BY DEF MapsArea
<1>18. Done(p)' = k
  BY <1>1, <1>11, <1>17 DEF Done
<1>19. MappedFor(p)'
  <2>1. View(p)' = Map(p)' /\ Map(p)' = o
    BY <1>10, <1>17 DEF View, Turned
  <2> QED
    BY <1>1, <1>14, <1>15, <1>16, <1>18, <2>1 DEF MappedFor
<1>20. ASSUME NEW q \in Live', q # p PROVE MappedFor(q)'
  <2>1. MappedFor(q) /\ process'[q] = process[q] /\ Map(q)' = Map(q)
    BY <1>1, <1>10, <1>20, LiveIsProcess DEF IInv, Mapped, Turned
  <2>2. pc = "mapping" /\ next.p # q /\ next'.p # q /\ pc' # "reading"
    BY <1>1, <1>17, <1>20
  <2> QED
    BY <2>1, <2>2, QuietFor
<1>21. pc' = "mapping" => next'.header \in 1 .. Segments(Image(process'[next'.p])) + 1
  BY <1>1, <1>11, <1>17
<1>22. Mapped'
  BY <1>17, <1>19, <1>20, <1>21 DEF Mapped
<1>23. Owned'
  BY <1>1, <1>9, <1>17 DEF Owned
<1>24. Control' /\ cr3' = KERNEL
  BY <1>1, <1>2, <1>10, <1>17 DEF IInv, Control, Kernel
<1> QED
  BY <1>2, <1>4, <1>5, <1>10, <1>22, <1>23, <1>24, KernelStep DEF o, x, f

LEMMA MapSteps ==
  ASSUME IInv, process_map_elf \/ process_map_binary \/ process_map_memory
  PROVE  MapsArea(next.p, next.header)
<1> DEFINE p == next.p
           k == next.header
           r == process[p]
           image == Image(r)
<1>1. /\ pc = "mapping"
      /\ heap' = heap /\ process' = process /\ current' = current /\ cr3' = cr3
  BY DEF process_map_elf, process_map_binary, process_map_memory
<1>2. p \in Live /\ k \in 1 .. Segments(image) + 1
  BY <1>1 DEF IInv, Control, Mapped
<1> HIDE DEF image, r
<1>3. r \in Proc /\ HeapOK(heap) /\ Holds(heap, table, r) /\ image = Image(r)
  BY <1>2, ProcessParts DEF r, image
<1>4. /\ Segments(image) \in Nat
      /\ r.elf_file # NULL => Segments(image) = Len(image.phdrs)
      /\ r.elf_file = NULL => Segments(image) = 1
  BY <1>3, HoldsParts
<1>5. CASE process_map_elf
  <2>1. /\ r.elf_file # NULL /\ k <= Len(image.phdrs)
        /\ table' = PhdrMap(table, r, image.phdrs[k])
        /\ next' = [next EXCEPT !.header = k + 1] /\ pc' = pc
    BY <1>5 DEF process_map_elf, r, image
  <2>2. k \in 1 .. Segments(image)
    BY <1>2, <1>4, <2>1
  <2>3. table' = AreaCall(table, r, k)
    BY <1>3, <2>1, <2>2, MapElfIs
  <2>4. next'.p = p /\ next'.header = k + 1
    BY <2>1
  <2> QED
    BY <1>1, <2>1, <2>2, <2>3, <2>4 DEF MapsArea, r, image
<1>6. CASE process_map_binary
  <2>1. /\ r.elf_file = NULL /\ k = 1
        /\ table' = paging_map_to(table, r.directory, OS_PROGRAM_VIRTUAL_ADDRESS, r.ptr,
                      paging_align_address(r.ptr + image.size), UserWritable)
        /\ next' = [next EXCEPT !.header = 2] /\ pc' = pc
    BY <1>6 DEF process_map_binary, r, image
  <2>2. table' = AreaCall(table, r, 1)
    BY <1>3, <2>1, MapBinaryIs
  <2>3. next'.p = p /\ next'.header = k + 1
    BY <2>1
  <2> QED
    BY <1>1, <1>4, <2>1, <2>2, <2>3 DEF MapsArea, r, image
<1>7. CASE process_map_memory
  <2>1. /\ k > IF r.elf_file # NULL THEN Len(image.phdrs) ELSE 1
        /\ table' = paging_map_to(table, r.directory,
                      OS_USER_PROGRAM_VIRTUAL_STACK_ADDRESS_END, r.stack,
                      paging_align_address(r.stack + OS_USER_PROGRAM_VIRTUAL_STACK_SIZE),
                      UserWritable)
        /\ next' = next /\ pc' = "loaded"
    BY <1>7 DEF process_map_memory, r, image
  <2>2. k = Segments(image) + 1
    BY <1>2, <1>4, <2>1
  <2>3. table' = AreaCall(table, r, k)
    BY <1>3, <2>1, <2>2, MapStackIs
  <2> QED
    BY <1>1, <2>1, <2>2, <2>3 DEF MapsArea, r, image
<1> QED
  BY <1>5, <1>6, <1>7

\* A block that nobody has can be entered in the table of a process.
LEMMA LedgerGrows ==
  ASSUME NEW h, NEW t, NEW ps, OwnedIn(h, t, ps), NEW p \in LiveIn(ps),
         NEW x, Unowned(h, t, ps, x), NEW size \in Sizes, h[x] = Pages(size),
         NEW r, r = ps[p], NEW as, as = r.allocations \cup {Allocation(x, size)}
  PROVE  LedgerOK(h, t, ps, p, as) /\ as \in Ledger /\ x \notin Fixed(r)
<1>1. /\ HeapOK(h) /\ r \in Proc /\ Holds(h, t, r)
      /\ \A q \in LiveIn(ps) : q # p => Data(r) \cap Data(ps[q]) = {}
  BY OwnedParts
<1>2. /\ x \in DOMAIN h /\ x \notin DOMAIN t /\ x \notin Data(r)
      /\ \A q \in LiveIn(ps) : x \notin Data(ps[q])
  BY DEF Unowned
<1>3. x \in HeapPages
  BY <1>1, <1>2, HeapBlocks
<1>4. /\ r.allocations \in Ledger /\ Data(r) \subseteq DOMAIN h \ DOMAIN t
      /\ \A a \in r.allocations : a.ptr \notin Fixed(r) /\ h[a.ptr] = Pages(a.size)
      /\ \A a, b \in r.allocations : a.ptr = b.ptr => a = b
  BY <1>1, LedgerPages DEF Holds
<1>5. \A a \in r.allocations : a.ptr \in Data(r)
  BY DEF Data
<1>6. Fixed(r) \subseteq Data(r)
  BY DEF Data
<1> DEFINE b == Allocation(x, size)
<1>7. b.ptr = x /\ b.size = size /\ b \in [ptr : HeapPages, size : Sizes]
  BY <1>3 DEF Allocation
<1> HIDE DEF b
<1>8. as = r.allocations \cup {b}
  BY DEF b
<1>9. as \in Ledger
  BY <1>4, <1>7, <1>8 DEF Ledger
<1>10. \A a \in as : a.ptr \in DOMAIN h \ DOMAIN t
  BY <1>2, <1>4, <1>5, <1>7, <1>8
<1>11. \A a \in as : a.ptr \notin Fixed(r) /\ h[a.ptr] = Pages(a.size)
  BY <1>2, <1>4, <1>6, <1>7, <1>8
<1>12. \A a, c \in as : a.ptr = c.ptr => a = c
  BY <1>2, <1>4, <1>5, <1>7, <1>8
<1>13. \A a \in as : \A q \in LiveIn(ps) : q # p => a.ptr \notin Data(ps[q])
  BY <1>1, <1>2, <1>5, <1>7, <1>8
<1>14. LedgerIn(h, t, ps[p], as)
  BY <1>9, <1>10, <1>11, <1>12 DEF LedgerIn
<1> QED
  BY <1>2, <1>6, <1>9, <1>13, <1>14 DEF LedgerOK

LEMMA LedgerShrinks ==
  ASSUME NEW h, NEW t, NEW ps, OwnedIn(h, t, ps), NEW p \in LiveIn(ps),
         NEW r, r = ps[p], NEW a \in r.allocations, NEW as, as = r.allocations \ {a}
  PROVE  LedgerOK(h, t, ps, p, as) /\ as \in Ledger
<1>1. /\ HeapOK(h) /\ r \in Proc /\ Holds(h, t, r)
      /\ \A q \in LiveIn(ps) : q # p => Data(r) \cap Data(ps[q]) = {}
  BY OwnedParts
<1>2. /\ r.allocations \in Ledger /\ Data(r) \subseteq DOMAIN h \ DOMAIN t
      /\ \A b \in r.allocations : b.ptr \notin Fixed(r) /\ h[b.ptr] = Pages(b.size)
      /\ \A b, c \in r.allocations : b.ptr = c.ptr => b = c
  BY <1>1, LedgerPages DEF Holds
<1>3. \A b \in r.allocations : b.ptr \in Data(r)
  BY DEF Data
<1>4. as \subseteq r.allocations /\ as \in Ledger
  BY <1>2 DEF Ledger
<1>5. LedgerIn(h, t, ps[p], as)
  BY <1>2, <1>3, <1>4 DEF LedgerIn
<1> QED
  BY <1>1, <1>3, <1>4, <1>5 DEF LedgerOK

\* Afterwards the block is nobody's.
LEMMA LedgerLeaves ==
  ASSUME NEW h, NEW t, NEW ps, OwnedIn(h, t, ps), NEW p \in LiveIn(ps),
         NEW r, r = ps[p], NEW a \in r.allocations, NEW as, as = r.allocations \ {a},
         NEW qs, LiveIn(qs) = LiveIn(ps), qs[p] = With(r, as),
         \A q \in Process : q # p => qs[q] = ps[q]
  PROVE  Unowned(h, t, qs, a.ptr)
<1>1. /\ HeapOK(h) /\ r \in Proc /\ Holds(h, t, r)
      /\ \A q \in LiveIn(ps) : q # p => Data(r) \cap Data(ps[q]) = {}
      /\ \A q \in LiveIn(ps) : q \in Process
  BY OwnedParts
<1>2. a.ptr \in Data(r) /\ a.ptr \notin Fixed(r) /\ \A b \in r.allocations : b.ptr = a.ptr => b = a
  BY <1>1 DEF Data, Holds
<1>3. LedgerIn(h, t, r, as)
  BY LedgerShrinks DEF LedgerOK
<1>4. Data(With(r, as)) = Fixed(r) \cup Ptrs(as)
  BY <1>1, <1>3, WithHolds
<1>5. a.ptr \notin Data(qs[p])
  BY <1>2, <1>4 DEF Ptrs
<1>6. \A q \in LiveIn(qs) : a.ptr \notin Data(qs[q])
  BY <1>1, <1>2, <1>5
<1>7. a.ptr \in DOMAIN h \ DOMAIN t
  BY <1>1, <1>2 DEF Holds
<1> QED
  BY <1>6, <1>7 DEF Unowned

\* What malloc and free leave mapped.
LEMMA LedgerMapped ==
  ASSUME IInv, NEW p \in Live, Live' = Live,
         pc \notin {"reading", "exception", "mapping"},
         pc' \notin {"reading", "exception", "mapping"},
         process'[p].filename = process[p].filename,
         \A q \in Process : q # p => process'[q] = process[q],
         NEW o, Turned(p, o), AreasMapped(process'[p], o, Done(p)),
         Pinned(process'[p], o), HeapMapped(process'[p], o)
  PROVE  Mapped'
<1>1. Map(p)' = o /\ View(p)' = o
  BY DEF Turned, View
<1>2. Done(p)' = Done(p)
  BY DEF Done, Image
<1>3. MappedFor(p)'
  BY <1>1, <1>2 DEF MappedFor
<1>4. ASSUME NEW q \in Live', q # p PROVE MappedFor(q)'
  <2>1. q \in Process /\ q \in Live
    BY <1>4, LiveIsProcess
  <2>2. MappedFor(q) /\ process'[q] = process[q] /\ Map(q)' = Map(q)
    BY <1>4, <2>1 DEF IInv, Mapped, Turned
  <2> QED
    BY <2>2, QuietFor
<1> QED
  BY <1>3, <1>4 DEF Mapped

LEMMA CallerIs ==
  ASSUME IInv, CanAllocate
  PROVE  Caller \in Live /\ pc \in {"loaded", "kernel"} /\ View(Caller) = Map(Caller)
<1>1. pc \in {"loaded", "kernel"}
  BY DEF CanAllocate
<1>2. Caller \in Live
  BY DEF IInv, Control, CanAllocate, Caller
<1> QED
  BY <1>1, <1>2 DEF View

\* What is known of the map of a process while nothing is copied.
LEMMA MappedNow ==
  ASSUME IInv, NEW p \in Live, pc \notin {"reading", "exception"}
  PROVE  /\ AreasMapped(process[p], Map(p), Done(p)) /\ Pinned(process[p], Map(p))
         /\ HeapMapped(process[p], Map(p))
<1>1. MappedFor(p) /\ View(p) = Map(p)
  BY DEF IInv, Mapped, View
<1> QED
  BY <1>1 DEF MappedFor

LEMMA MallocStep ==
  ASSUME IInv, NEW size \in Sizes, process_malloc(size), NEW p, p = Caller
  PROVE  /\ IInv' /\ p \in Live
         /\ \E x, n : /\ CanMap(x, x, n)
                      /\ Turned(p, RangeMap(Map(p), x, x, n, UserWritable))
<1>r. PICK r : r = process[p]
  OBVIOUS
<1> DEFINE z == kernel_zalloc(heap, size)
           x == z.ptr
           n == Pages(size)
           m == Map(p)
           o == RangeMap(m, x, x, n, UserWritable)
<1>0. PICK as : as = r.allocations \cup {Allocation(x, size)}
  OBVIOUS
<1>1. /\ CanAllocate /\ Fits(heap, size) /\ heap' = z.heap
      /\ table' = paging_map_to(table, r.directory, x, x,
                    paging_align_address(x + size), UserWritable)
      /\ process' = [process EXCEPT ![p].allocations = as]
      /\ pc' = IF pc = "loaded" THEN "loaded" ELSE "done"
      /\ current' = current /\ cr3' = cr3 /\ next' = next
  BY <1>0, <1>r DEF process_malloc
<1>2. p \in Live /\ pc \in {"loaded", "kernel"}
  BY <1>1, CallerIs
<1> HIDE DEF z, x, n, m, o
<1>3. /\ p \in Process /\ p \in LiveIn(process) /\ r \in Proc
      /\ OwnedIn(heap, table, process) /\ HeapOK(heap)
      /\ Tables(table) /\ Directory(table, r.directory)
      /\ m = Translation(table, r.directory)
  BY <1>2, <1>r, ProcessParts DEF m
<1>4. size \in 1 .. WORD - P
  BY SizesAre
<1>5. Added(heap, heap', x, n)
  <2>1. z = kernel_zalloc(heap, size)
    BY DEF z
  <2> QED
    BY <1>1, <1>3, <1>4, <2>1, Zalloc DEF x, n
<1>6. OwnedIn(heap', table, process) /\ Unowned(heap', table, process, x)
  BY <1>3, <1>5, AddOwned
<1>7. HeapOK(heap') /\ x \in DOMAIN heap' /\ heap'[x] = n
  BY <1>5 DEF Added
<1>8. CanMap(x, x, n) /\ paging_align_address(x + size) = x + n * P
  BY <1>4, <1>7, BlockIs DEF n
<1>9. UserWritable \in 0 .. 7
  BY FlagValues
<1>10. Remapped(table, table', r.directory, RangeMap(Translation(table, r.directory), x, x, n, UserWritable))
  <2>1. table' = paging_map_to(table, r.directory, x, x, x + n * P, UserWritable)
    BY <1>1, <1>8
  <2> QED
    BY <1>3, <1>8, <1>9, <2>1, MapToRemaps
<1>11. Remapped(table, table', DirectoryOf(process, p), o)
  BY <1>3, <1>10, <1>r DEF DirectoryOf, o, m
<1>12. /\ OwnedIn(heap', table', process) /\ DOMAIN table' = DOMAIN table
       /\ MapIn(table', process, p) = o
       /\ \A q \in Process : q # p => MapIn(table', process, q) = MapIn(table, process, q)
  BY <1>3, <1>6, <1>11, RemapOwned
<1>13. Unowned(heap', table', process, x)
  BY <1>6, <1>12 DEF Unowned
<1>14. LedgerOK(heap', table', process, p, as) /\ as \in Ledger /\ x \notin Fixed(r)
  <2>1. r = process[p] /\ as = r.allocations \cup {Allocation(x, size)} /\ heap'[x] = Pages(size)
    BY <1>0, <1>7, <1>r DEF n
  <2> QED
    BY <1>3, <1>12, <1>13, <2>1, LedgerGrows
<1>15. Records(process, p, as, process')
  BY <1>1, <1>3, <1>r DEF Records, Becomes, With
<1>16. /\ OwnedIn(heap', table', process') /\ LiveIn(process') = LiveIn(process)
       /\ process'[p] = With(r, as) /\ \A q \in Process : q # p => process'[q] = process[q]
       /\ \A q \in Process : MapIn(table', process', q) = MapIn(table', process, q)
  <2>1. p \in LiveIn(process) /\ OwnedIn(heap', table', process) /\ LedgerOK(heap', table', process, p, as)
    BY <1>3, <1>12, <1>14
  <2>2. /\ OwnedIn(heap', table', process') /\ LiveIn(process') = LiveIn(process)
        /\ \A q \in Process : q # p => process'[q] = process[q]
        /\ \A q \in Process : MapIn(table', process', q) = MapIn(table', process, q)
    <3>1. OwnedIn(heap', table', process') /\ SameMaps(table', process, p, process')
      BY <1>15, <2>1, LedgerOwned
    <3> QED
      BY <3>1 DEF SameMaps
  <2>3. process'[p] = With(r, as)
    <3>1. process \in [Process -> Proc]
      BY <1>3, OwnedParts
    <3> QED
      BY <1>3, <1>15, <1>r, <3>1 DEF Records, Becomes
  <2> QED
    BY <2>2, <2>3
<1>17. Turned(p, o) /\ Live' = Live
  <2>1. MapIn(table', process', p) = o
    BY <1>3, <1>12, <1>16
  <2>2. \A q \in Process : q # p => MapIn(table', process', q) = MapIn(table, process, q)
    BY <1>12, <1>16
  <2> QED
    BY <1>16, <2>1, <2>2, StateIs DEF Turned
<1>18. pc' \in {"loaded", "done"} /\ (pc' = "loaded" <=> pc = "loaded")
  BY <1>1
<1>19. AreasMapped(process'[p], o, Done(p)) /\ Pinned(process'[p], o) /\ HeapMapped(process'[p], o)
  <2>1. AreasMapped(r, m, Done(p)) /\ Pinned(r, m) /\ HeapMapped(r, m)
    BY <1>2, <1>r, MappedNow DEF m
  <2>2. Holds(heap', table, r)
    BY <1>3, <1>6, <1>r, OwnedParts
  <2>3. BlockChange(heap', r, m, x, UserWritable, as, process'[p], o)
    BY <1>7, <1>16 DEF BlockChange, o
  <2>4. as = r.allocations \cup {Allocation(x, size)} /\ heap'[x] = Pages(size) /\ r \in Proc /\ HeapOK(heap')
    BY <1>0, <1>3, <1>7 DEF n
  <2> QED
    BY <1>14, <2>1, <2>2, <2>3, <2>4, GivenMapped
<1>20. process'[p].filename = process[p].filename
  <2>1. PICK s : s = process'[p]
    OBVIOUS
  <2>2. r \in Proc /\ as \in Ledger /\ s = With(r, as)
    BY <1>3, <1>14, <1>16, <2>1
  <2>3. s.filename = r.filename
    BY <2>2, WithSame
  <2> QED
    BY <1>r, <2>1, <2>3
<1>21. Mapped'
  BY <1>2, <1>16, <1>17, <1>18, <1>19, <1>20, LedgerMapped
<1>22. Owned'
  BY <1>16, <1>18 DEF Owned
<1>23. Control' /\ cr3' = KERNEL
  BY <1>1, <1>2, <1>17, <1>18 DEF IInv, Control, Kernel, CanAllocate
<1>24. IInv'
  BY <1>21, <1>22, <1>23, KernelStep
<1> QED
  BY <1>2, <1>8, <1>17, <1>24 DEF o, m

LEMMA FreeStep ==
  ASSUME IInv, NEW p, p = current, NEW a \in process[p].allocations, process_free(a)
  PROVE  /\ IInv' /\ p \in Live
         /\ \E x, n : CanMap(x, x, n) /\ Turned(p, RangeMap(Map(p), x, x, n, 0))
<1>r. PICK r : r = process[p]
  OBVIOUS
<1>0. PICK as : as = r.allocations \ {a}
  OBVIOUS
<1>x. PICK x, n : x = a.ptr /\ n = Pages(a.size)
  OBVIOUS
<1> DEFINE m == Map(p)
           o == RangeMap(m, x, x, n, 0)
<1>1. /\ pc = "kernel" /\ current # KERNEL
      /\ heap' = kernel_free(heap, {x})
      /\ table' = paging_map_to(table, r.directory, x, x, paging_align_address(x + a.size), 0)
      /\ process' = [process EXCEPT ![p].allocations = as]
      /\ pc' = "done" /\ current' = current /\ cr3' = cr3 /\ next' = next
  BY <1>0, <1>r, <1>x DEF process_free
<1>2. p \in Live
  BY <1>1 DEF IInv, Control
<1> HIDE DEF m, o
<1>3. /\ p \in Process /\ p \in LiveIn(process) /\ r \in Proc
      /\ OwnedIn(heap, table, process) /\ HeapOK(heap) /\ Holds(heap, table, r)
      /\ Tables(table) /\ Directory(table, r.directory)
      /\ m = Translation(table, r.directory)
  BY <1>2, <1>r, ProcessParts DEF m
<1>4. /\ a \in r.allocations /\ a.size \in Sizes /\ x \in DOMAIN heap /\ heap[x] = n
      /\ a.size \in 1 .. WORD - P
  <2>1. a \in r.allocations
    BY <1>r
  <2>2. a.ptr \in DOMAIN heap /\ a.size \in Sizes /\ heap[a.ptr] = Pages(a.size)
    BY <1>3, <2>1, LedgerPages
  <2> QED
    BY <1>x, <2>1, <2>2, SizesAre
<1>5. CanMap(x, x, n) /\ paging_align_address(x + a.size) = x + n * P
  BY <1>3, <1>4, <1>x, BlockIs
<1>6. Remapped(table, table', r.directory, RangeMap(Translation(table, r.directory), x, x, n, 0))
  <2>1. table' = paging_map_to(table, r.directory, x, x, x + n * P, 0) /\ 0 \in 0 .. 7
    BY <1>1, <1>5
  <2> QED
    BY <1>3, <1>5, <2>1, MapToRemaps
<1>7. Remapped(table, table', DirectoryOf(process, p), o)
  BY <1>3, <1>6, <1>r DEF DirectoryOf, o, m
<1>8. /\ OwnedIn(heap, table', process)
      /\ MapIn(table', process, p) = o
      /\ \A q \in Process : q # p => MapIn(table', process, q) = MapIn(table, process, q)
  BY <1>3, <1>7, RemapOwned
<1>9. LedgerOK(heap, table', process, p, as) /\ as \in Ledger
  BY <1>0, <1>3, <1>4, <1>8, <1>r, LedgerShrinks
<1>10. Records(process, p, as, process')
  BY <1>1, <1>3, <1>r DEF Records, Becomes, With
<1>11. /\ OwnedIn(heap, table', process') /\ LiveIn(process') = LiveIn(process)
       /\ process'[p] = With(r, as) /\ \A q \in Process : q # p => process'[q] = process[q]
       /\ \A q \in Process : MapIn(table', process', q) = MapIn(table', process, q)
  <2>1. p \in LiveIn(process) /\ OwnedIn(heap, table', process) /\ LedgerOK(heap, table', process, p, as)
    BY <1>3, <1>8, <1>9
  <2>2. OwnedIn(heap, table', process') /\ SameMaps(table', process, p, process')
    BY <1>10, <2>1, LedgerOwned
  <2>3. process'[p] = With(r, as)
    <3>1. process \in [Process -> Proc]
      BY <1>3, OwnedParts
    <3> QED
      BY <1>3, <1>10, <1>r, <3>1 DEF Records, Becomes
  <2> QED
    BY <2>2, <2>3 DEF SameMaps
<1>12. Turned(p, o) /\ Live' = Live
  <2>1. MapIn(table', process', p) = o
    BY <1>3, <1>8, <1>11
  <2>2. \A q \in Process : q # p => MapIn(table', process', q) = MapIn(table, process, q)
    BY <1>8, <1>11
  <2> QED
    BY <1>11, <2>1, <2>2, StateIs DEF Turned
<1>13. Unowned(heap, table', process', x)
  <2>1. p \in LiveIn(process) /\ OwnedIn(heap, table', process) /\ r = process[p]
    BY <1>3, <1>8, <1>r
  <2> QED
    BY <1>0, <1>4, <1>11, <1>x, <2>1, LedgerLeaves
<1>14. OwnedIn(heap', table', process')
  BY <1>1, <1>11, <1>13, FreeOwned
<1>15. AreasMapped(process'[p], o, Done(p)) /\ Pinned(process'[p], o) /\ HeapMapped(process'[p], o)
  <2>1. AreasMapped(r, m, Done(p)) /\ Pinned(r, m) /\ HeapMapped(r, m)
    BY <1>1, <1>2, <1>r, MappedNow DEF m
  <2>2. BlockChange(heap, r, m, a.ptr, 0, as, process'[p], o)
    BY <1>4, <1>11, <1>x DEF BlockChange, o
  <2>3. r \in Proc /\ HeapOK(heap) /\ Holds(heap, table, r)
    BY <1>3
  <2> QED
    BY <1>0, <1>4, <1>9, <2>1, <2>2, <2>3, TakenMapped
<1>16. process'[p].filename = process[p].filename
  <2>1. PICK s : s = process'[p]
    OBVIOUS
  <2>2. r \in Proc /\ as \in Ledger /\ s = With(r, as)
    BY <1>3, <1>9, <1>11, <2>1
  <2>3. s.filename = r.filename
    BY <2>2, WithSame
  <2> QED
    BY <1>r, <2>1, <2>3
<1>17. Mapped'
  BY <1>1, <1>2, <1>11, <1>12, <1>15, <1>16, LedgerMapped
<1>18. Owned'
  BY <1>1, <1>14 DEF Owned
<1>19. Control' /\ cr3' = KERNEL
  BY <1>1, <1>2, <1>12 DEF IInv, Control, Kernel
<1>20. IInv'
  BY <1>17, <1>18, <1>19, KernelStep
<1> QED
  BY <1>2, <1>5, <1>12, <1>20 DEF o, m

LEMMA TerminateStep ==
  ASSUME IInv, Terminate, NEW p, p = current
  PROVE  IInv' /\ p \in Live /\ Turned(p, NoTlb)
<1>1. pc \in {"kernel", "exception"} /\ current # KERNEL /\ next' = next
  BY DEF Terminate
<1>2. p \in Live /\ cr3 = KERNEL /\ next.p = KERNEL
  BY <1>1 DEF IInv, Control, Kernel
<1>3. p \in Process /\ p \in LiveIn(process) /\ OwnedIn(heap, table, process)
  BY <1>2, ProcessParts
<1>4. process_terminate(p)
  BY DEF Terminate
<1>5. Ending(heap, table, process, p, heap', table')
  BY <1>4 DEF process_terminate, Ending, Freed, Ptrs
<1>6. Becomes(process, p, NoProcess, process')
  BY <1>4 DEF process_terminate, Becomes
<1>7. /\ OwnedIn(heap', table', process') /\ LiveIn(process') = LiveIn(process) \ {p}
      /\ \A q \in LiveIn(process') : process'[q] = process[q]
      /\ \A q \in LiveIn(process') : MapIn(table', process', q) = MapIn(table, process, q)
  BY <1>3, <1>5, <1>6, EndOwned
<1>8. Live' = Live \ {p}
  BY <1>7, StateIs
<1>9. Turned(p, NoTlb)
  <2>1. MapIn(table', process', p) = NoTlb
    BY <1>7 DEF MapIn
  <2>2. ASSUME NEW q \in Process, q # p PROVE MapIn(table', process', q) = MapIn(table, process, q)
    <3>1. CASE q \in LiveIn(process')
      BY <1>7, <3>1
    <3>2. CASE q \notin LiveIn(process')
      BY <1>7, <2>2, <3>2 DEF MapIn
    <3> QED
      BY <3>1, <3>2
  <2> QED
    BY <2>1, <2>2, StateIs DEF Turned
<1>10. pc' \in {"panic", "user"}
  BY DEF Terminate, Run
<1>11. Owned'
  BY <1>7, <1>10 DEF Owned
<1>12. ASSUME NEW q \in Live' PROVE MappedFor(q)'
  <2>1. q \in Live /\ q # p /\ q \in Process /\ process'[q] = process[q]
    BY <1>7, <1>8, StateIs, LiveIsProcess
  <2>2. MappedFor(q) /\ Map(q)' = Map(q)
    BY <1>9, <2>1 DEF IInv, Mapped, Turned
  <2>3. pc \notin {"reading", "mapping"} /\ pc' \notin {"reading", "mapping"} /\ q # current
    BY <1>1, <1>10, <2>1
  <2> QED
    BY <2>1, <2>2, <2>3, QuietFor
<1>13. Mapped'
  BY <1>10, <1>12 DEF Mapped
<1>14. CASE pc' = "panic" /\ UNCHANGED <<current, cr3, tlb>>
  <2>1. Control' /\ cr3' = KERNEL
    BY <1>1, <1>2, <1>14 DEF IInv, Control, Kernel
  <2> QED
    BY <1>2, <1>9, <1>11, <1>13, <2>1, KernelStep
<1>15. CASE \E q \in Live \ {p} : Run(q)
  <2>1. PICK q \in Live \ {p} : Run(q)
    BY <1>15
  <2>2. q \in Live' /\ q \in Process
    BY <1>8, LiveIsProcess
  <2>3. NoStaleTranslation' /\ cr3' = q /\ current' = q /\ pc' = "user" /\ q # KERNEL
    BY <2>1, <2>2, RunIs
  <2>4. Control'
    BY <1>1, <1>2, <2>2, <2>3 DEF Control, Kernel
  <2> QED
    BY <1>2, <1>9, <1>11, <1>13, <2>3, <2>4 DEF IInv
<1> QED
  BY <1>14, <1>15 DEF Terminate

LEMMA MapIsMap ==
  ASSUME NEW t, NEW d, NEW m, m = Translation(t, d)
  PROVE  m = [v \in Page |-> m[v]] /\ \A v \in Page : m[v] = paging_get(t, d, v)
BY DEF Translation

LEMMA CopyMapStep ==
  ASSUME IInv, CopyMap, NEW p, p = current
  PROVE  /\ IInv' /\ p \in Live
         /\ \E x, w : x \in Page /\ w \in Address /\ Turned(p, Updated(Map(p), x, w))
<1>r. PICK r : r = process[p]
  OBVIOUS
<1> DEFINE z == kernel_zalloc(heap, StringSize)
           m == Map(p)
<1>x. PICK x, w : x = z.ptr /\ w = x + UserWritable
  OBVIOUS
<1>o. PICK o : o = Updated(m, x, w)
  OBVIOUS
<1>1. /\ pc = "kernel" /\ current # KERNEL /\ Fits(heap, StringSize) /\ heap' = z.heap
      /\ copy' = [tmp |-> x, old_entry |-> paging_get(table, r.directory, x)]
      /\ table' = paging_map(table, r.directory, x, x, UserWritable)
      /\ pc' = "reading" /\ process' = process /\ current' = current /\ next' = next
      /\ paging_switch(p)
  BY <1>r, <1>x DEF CopyMap
<1>2. p \in Live /\ next.p = KERNEL
  BY <1>1 DEF IInv, Control
<1> HIDE DEF z, m
<1>3. /\ p \in Process /\ p \in LiveIn(process) /\ r \in Proc
      /\ OwnedIn(heap, table, process) /\ HeapOK(heap)
      /\ Tables(table) /\ Directory(table, r.directory)
      /\ m = Translation(table, r.directory)
  BY <1>2, <1>r, ProcessParts DEF m
<1>4. Added(heap, heap', x, Pages(StringSize))
  <2>1. z = kernel_zalloc(heap, StringSize) /\ StringSize \in 1 .. WORD - P
    BY SizesAre DEF z, StringSize
  <2> QED
    BY <1>1, <1>3, <1>x, <2>1, Zalloc
<1>5. OwnedIn(heap', table, process) /\ Unowned(heap', table, process, x)
  BY <1>3, <1>4, AddOwned
<1>6. HeapOK(heap') /\ x \in HeapPages
  BY <1>4 DEF Added
<1>7. x \in Page /\ Aligned(x) /\ w \in Address /\ x % P = 0
  <2>1. UserWritable \in 0 .. 7
    BY FlagValues
  <2>2. x \in Page /\ Aligned(x) /\ \A f \in 0 .. 7 : x + f \in Address
    BY <1>6, HeapWord
  <2> QED
    BY <1>x, <2>1, <2>2 DEF Aligned
<1>8. Remapped(table, table', r.directory, Updated(Translation(table, r.directory), x, w))
  <2>1. table' = paging_set_physical_address(table, r.directory, x, w)
    BY <1>1, <1>7, <1>x DEF paging_map, paging_is_aligned, P
  <2> QED
    BY <1>3, <1>7, <2>1, SetWord
<1>9. Remapped(table, table', DirectoryOf(process, p), o)
  BY <1>3, <1>8, <1>o, <1>r DEF DirectoryOf
<1>10. /\ OwnedIn(heap', table', process) /\ DOMAIN table' = DOMAIN table
       /\ MapIn(table', process, p) = o
       /\ \A q \in Process : q # p => MapIn(table', process, q) = MapIn(table, process, q)
  BY <1>3, <1>5, <1>9, RemapOwned
<1>11. Turned(p, o) /\ Live' = Live
  BY <1>1, <1>10, StateIs DEF Turned
<1>12. copy'.tmp = x /\ copy'.old_entry = m[x] /\ m = [v \in Page |-> m[v]]
  BY <1>1, <1>3, <1>7, MapIsMap
<1>13. Owned'
  <2>1. Unowned(heap', table', process', x)
    BY <1>1, <1>5, <1>10 DEF Unowned
  <2> QED
    BY <1>1, <1>10, <1>12, <2>1 DEF Owned
<1>14. AreasMapped(r, m, Done(p)) /\ Pinned(r, m) /\ HeapMapped(r, m)
  BY <1>1, <1>2, <1>r, MappedNow DEF m
<1>15. /\ AreasMapped(r, o, Done(p)) /\ Pinned(r, o) /\ o[x] = w
       /\ Updated(o, x, m[x]) = m
  <2>1. x \notin Data(r) /\ Holds(heap', table, r)
    BY <1>3, <1>5, <1>r, OwnedParts DEF Unowned
  <2>2. x \notin Fixed(r)
    BY <2>1 DEF Data
  <2> QED
    BY <1>3, <1>6, <1>12, <1>14, <1>o, <2>1, <2>2, EntryMapped
<1>16. MappedFor(p)'
  <2>1. Map(p)' = o /\ View(p)' = Updated(o, x, m[x])
    BY <1>1, <1>11, <1>12 DEF Turned, View, Updated
  <2>2. Done(p)' = Done(p)
    BY <1>1 DEF Done
  <2> QED
    BY <1>1, <1>14, <1>15, <1>r, <2>1, <2>2 DEF MappedFor
<1>17. ASSUME NEW q \in Live', q # p PROVE MappedFor(q)'
  <2>1. q \in Process /\ q \in Live
    BY <1>11, <1>17, LiveIsProcess
  <2>2. MappedFor(q) /\ process'[q] = process[q] /\ Map(q)' = Map(q)
    BY <1>1, <1>11, <1>17, <2>1 DEF IInv, Mapped, Turned
  <2>3. View(q)' = Map(q)' /\ View(q) = Map(q) /\ Done(q)' = Done(q)
    BY <1>1, <1>17 DEF View, Done
  <2> QED
    BY <1>1, <2>2, <2>3, MappedKept
<1>18. Map(current)'[copy'.tmp] = copy'.tmp + UserWritable
  <2>1. Map(p)' = Map(current)'
    BY <1>1
  <2> QED
    BY <1>11, <1>12, <1>15, <1>x, <2>1 DEF Turned
<1>19. Mapped'
  BY <1>1, <1>16, <1>17, <1>18 DEF Mapped
<1>20. cr3' = p /\ NoStaleTranslation'
  <2>1. cr3' = p /\ tlb' = Translation(table', process'[p].directory)
    BY <1>1 DEF paging_switch
  <2>2. tlb' = Map(p)'
    BY <1>2, <1>11, <2>1 DEF Map
  <2> QED
    BY <2>1, <2>2 DEF NoStaleTranslation
<1>21. Control'
  BY <1>1, <1>2, <1>3, <1>11, <1>20 DEF Control, Kernel
<1>22. IInv'
  BY <1>13, <1>19, <1>20, <1>21 DEF IInv
<1> QED
  BY <1>2, <1>7, <1>11, <1>22, <1>o DEF m

\* In the middle of a copy.
LEMMA Reading ==
  ASSUME IInv, pc = "reading"
  PROVE  /\ current \in Live /\ current # KERNEL /\ next.p = KERNEL
         /\ current \in Process \cup {KERNEL}
         /\ Unowned(heap, table, process, copy.tmp)
BY DEF IInv, Control, Owned

LEMMA CopyFaultStep ==
  ASSUME IInv, CopyFault
  PROVE  IInv' /\ \A q : Map(q)' = Map(q)
<1>1. /\ pc = "reading" /\ pc' = "exception" /\ cr3' = KERNEL
      /\ heap' = heap /\ table' = table /\ process' = process /\ current' = current /\ next' = next
  BY DEF CopyFault, kernel_page
<1>2. /\ current \in Live /\ current # KERNEL /\ next.p = KERNEL
      /\ current \in Process \cup {KERNEL}
  BY <1>1, Reading
<1>3. Live' = Live /\ \A q : Map(q)' = Map(q)
  <2>1. Live' = Live
    BY <1>1 DEF Live
  <2> QED
    BY <1>1, <2>1 DEF Map
<1>4. ASSUME NEW q \in Live' PROVE MappedFor(q)'
  <2>1. MappedFor(q) /\ Done(q)' = Done(q) /\ Map(q)' = Map(q)
    BY <1>1, <1>3, <1>4 DEF IInv, Mapped, Done
  <2>2. CASE q = current
    BY <1>1, <2>1, <2>2 DEF MappedFor
  <2>3. CASE q # current
    <3>1. View(q)' = View(q)
      BY <1>1, <2>1, <2>3 DEF View
    <3> QED
      BY <1>1, <2>1, <3>1, MappedKept
  <2> QED
    BY <2>2, <2>3
<1>5. Mapped'
  BY <1>1, <1>4 DEF Mapped
<1>6. Owned'
  BY <1>1 DEF IInv, Owned
<1>7. Control'
  BY <1>1, <1>2, <1>3 DEF Control, Kernel
<1> QED
  BY <1>1, <1>3, <1>5, <1>6, <1>7, KernelStep

LEMMA CopyRestoreStep ==
  ASSUME IInv, CopyRestore, NEW p, p = current
  PROVE  /\ IInv' /\ p \in Live
         /\ \E x, w : x \in Page /\ w \in Address /\ Turned(p, Updated(Map(p), x, w))
<1>r. PICK r : r = process[p]
  OBVIOUS
<1>x. PICK x, w : x = copy.tmp /\ w = copy.old_entry
  OBVIOUS
<1> DEFINE m == Map(p)
<1>o. PICK o : o = Updated(m, x, w)
  OBVIOUS
<1>1. /\ pc = "reading" /\ pc' = "copied" /\ cr3' = KERNEL
      /\ table' = paging_set_physical_address(table, r.directory, x, w)
      /\ heap' = kernel_free(heap, {x})
      /\ process' = process /\ current' = current /\ next' = next
  BY <1>r, <1>x DEF CopyRestore, kernel_page
<1>2. /\ p \in Live /\ p # KERNEL /\ next.p = KERNEL /\ Unowned(heap, table, process, x)
      /\ p \in Process \cup {KERNEL}
  BY <1>1, <1>x, Reading
<1> HIDE DEF m
<1>3. /\ p \in Process /\ p \in LiveIn(process) /\ r \in Proc
      /\ OwnedIn(heap, table, process) /\ HeapOK(heap) /\ Holds(heap, table, r)
      /\ Tables(table) /\ Directory(table, r.directory)
      /\ m = Translation(table, r.directory)
  BY <1>2, <1>r, ProcessParts DEF m
<1>4. x \in HeapPages /\ x \in Page /\ x \notin Fixed(r)
  <2>1. x \in DOMAIN heap /\ x \notin Data(r)
    BY <1>2, <1>3, <1>r DEF Unowned
  <2> QED
    BY <1>3, <2>1, HeapBlocks, HeapWord DEF Data
<1>5. /\ AreasMapped(r, m, Done(p)) /\ Pinned(r, m) /\ HeapMapped(r, o)
  <2>1. MappedFor(p) /\ View(p) = o /\ pc # "exception"
    BY <1>1, <1>2, <1>o, <1>x DEF IInv, Mapped, View, Updated, m
  <2> QED
    BY <1>r, <2>1 DEF MappedFor, m
<1>6. m = [v \in Page |-> m[v]]
  BY <1>3, MapIsMap
<1>7. AreasMapped(r, o, Done(p)) /\ Pinned(r, o) /\ o[x] = w
  BY <1>3, <1>4, <1>5, <1>6, <1>o, EntryMapped
<1>8. w \in Address
  <2>1. w \in {x, x + InitialFlags, x + UserWritable}
    BY <1>4, <1>5, <1>7 DEF HeapMapped
  <2>2. x \in Nat /\ \A f \in 0 .. 7 : x + f \in Address
    BY <1>4, HeapWord
  <2>3. x + 0 = x /\ x + 0 \in Address /\ x + InitialFlags \in Address /\ x + UserWritable \in Address
    BY <2>2, FlagValues
  <2> QED
    BY <2>1, <2>3
<1>9. Remapped(table, table', r.directory, Updated(Translation(table, r.directory), x, w))
  BY <1>1, <1>3, <1>4, <1>8, SetWord
<1>10. Remapped(table, table', DirectoryOf(process, p), o)
  BY <1>3, <1>9, <1>o, <1>r DEF DirectoryOf
<1>11. /\ OwnedIn(heap, table', process) /\ DOMAIN table' = DOMAIN table
       /\ MapIn(table', process, p) = o
       /\ \A q \in Process : q # p => MapIn(table', process, q) = MapIn(table, process, q)
  BY <1>3, <1>10, RemapOwned
<1>12. Turned(p, o) /\ Live' = Live
  BY <1>1, <1>11, StateIs DEF Turned
<1>13. Owned'
  <2>1. Unowned(heap, table', process, x)
    BY <1>2, <1>11 DEF Unowned
  <2>2. OwnedIn(heap', table', process)
    BY <1>1, <1>11, <2>1, FreeOwned
  <2> QED
    BY <1>1, <2>2 DEF Owned
<1>14. MappedFor(p)'
  <2>1. Map(p)' = o /\ View(p)' = o
    BY <1>1, <1>12 DEF Turned, View
  <2>2. Done(p)' = Done(p)
    BY <1>1 DEF Done
  <2> QED
    BY <1>1, <1>5, <1>7, <1>r, <2>1, <2>2 DEF MappedFor
<1>15. ASSUME NEW q \in Live', q # p PROVE MappedFor(q)'
  <2>1. q \in Process /\ q \in Live
    BY <1>12, <1>15, LiveIsProcess
  <2>2. MappedFor(q) /\ process'[q] = process[q] /\ Map(q)' = Map(q)
    BY <1>1, <1>12, <1>15, <2>1 DEF IInv, Mapped, Turned
  <2>3. View(q)' = Map(q)' /\ View(q) = Map(q) /\ Done(q)' = Done(q)
    BY <1>1, <1>15 DEF View, Done
  <2> QED
    BY <1>1, <2>2, <2>3, MappedKept
<1>16. Mapped'
  BY <1>1, <1>14, <1>15 DEF Mapped
<1>17. Control'
  BY <1>1, <1>2, <1>12 DEF Control, Kernel
<1>18. IInv'
  BY <1>1, <1>13, <1>16, <1>17, KernelStep
<1> QED
  BY <1>2, <1>4, <1>8, <1>12, <1>18, <1>o DEF m

LEMMA InitInv == Init => IInv
<1> SUFFICES ASSUME Init PROVE IInv
  OBVIOUS
<1>1. /\ DOMAIN heap = {} /\ DOMAIN table = {} /\ heap = [a \in {} |-> 0] /\ table = [a \in {} |-> 0]
      /\ process = [p \in Process |-> NoProcess] /\ pc = "kernel" /\ current = KERNEL /\ cr3 = KERNEL
      /\ next.p = KERNEL
  BY DEF Init
<1>2. Live = {} /\ LiveIn(process) = {}
  BY <1>1 DEF Live, LiveIn, NoProcess
<1>3. Control
  BY <1>1 DEF Control, Kernel
<1>4. HeapOK(heap)
  BY <1>1 DEF HeapOK
<1>5. process \in [Process -> Proc]
  BY <1>1, NoProcessIs
<1>6. Tables(table)
  BY <1>1 DEF Tables
<1>7. OwnedIn(heap, table, process)
  BY <1>1, <1>2, <1>4, <1>5, <1>6 DEF OwnedIn
<1>8. Owned /\ Mapped /\ NoStaleTranslation
  BY <1>1, <1>2, <1>7 DEF Owned, Mapped, NoStaleTranslation
<1> QED
  BY <1>3, <1>8 DEF IInv

\* What a step does to the maps.
MapsKept == \A q : Map(q)' = Map(q)

MapMade == \E p \in Process : p \notin Live /\ Turned(p, Fresh)

MapGone == \E p \in Live : Turned(p, NoTlb)

RangeMapped ==
  \E p \in Live : \E v, a, n, f :
    CanMap(v, a, n) /\ f \in 0 .. 7 /\ Turned(p, RangeMap(Map(p), v, a, n, f))

PageMapped == \E p \in Live : \E x, w : x \in Page /\ w \in Address /\ Turned(p, Updated(Map(p), x, w))

Changes == MapsKept \/ MapMade \/ MapGone \/ RangeMapped \/ PageMapped

LEMMA MapsStay == ASSUME UNCHANGED <<table, process>> PROVE MapsKept
<1>1. Live' = Live
  BY DEF Live
<1> QED
  BY <1>1 DEF Map, MapsKept

LEMMA StepIs == ASSUME IInv, [Next]_vars PROVE IInv' /\ Changes
<1>1. CASE UNCHANGED vars
  BY <1>1, StutterStep, MapsStay DEF vars, Changes
<1>2. CASE \E p \in Process, filename \in DOMAIN ImageOf : process_load(p, filename)
  BY <1>2, LoadStep DEF Changes, MapMade
<1>3. CASE process_map_elf \/ process_map_binary \/ process_map_memory
  <2>1. PICK p, k : p = next.p /\ k = next.header
    OBVIOUS
  <2>2. PICK r : r = process[p]
    OBVIOUS
  <2>3. MapsArea(p, k)
    BY <1>3, <2>1, MapSteps
  <2>4. /\ IInv' /\ Turned(p, WithArea(r, k, Map(p))) /\ p \in Live
        /\ CanMap(Area(Image(r), k).first, At(r, k), Area(Image(r), k).pages)
        /\ AreaFlags(r, k) \in 0 .. 7
    BY <2>2, <2>3, AreaStep
  <2>5. RangeMapped
    BY <2>4 DEF RangeMapped, WithArea
  <2> QED
    BY <2>4, <2>5 DEF Changes
<1>4. CASE RunLoaded
  BY <1>4, RunLoadedStep, MapsStay DEF RunLoaded, Changes
<1>5. CASE task_run_first_ever_task \/ Leave
  <2>1. PICK p \in Live : Run(p)
    BY <1>5 DEF task_run_first_ever_task, Leave
  <2>2. pc \in {"kernel", "done", "copied"} /\ UNCHANGED <<heap, table, process, next>>
    BY <1>5 DEF task_run_first_ever_task, Leave
  <2>3. IInv'
    BY <2>1, <2>2, ReturnStep
  <2> QED
    BY <2>2, <2>3, MapsStay DEF Changes
<1>6. CASE Enter
  BY <1>6, EnterStep, MapsStay DEF Enter, Changes
<1>7. CASE \E size \in Sizes : process_malloc(size)
  <2>1. PICK size \in Sizes : process_malloc(size)
    BY <1>7
  <2>2. PICK p : p = Caller
    OBVIOUS
  <2>3. /\ IInv' /\ p \in Live
        /\ \E x, n : CanMap(x, x, n) /\ Turned(p, RangeMap(Map(p), x, x, n, UserWritable))
    BY <2>1, <2>2, MallocStep
  <2>4. UserWritable \in 0 .. 7
    BY FlagValues
  <2> QED
    BY <2>3, <2>4 DEF Changes, RangeMapped
<1>8. CASE Free
  <2>1. PICK p : p = current
    OBVIOUS
  <2>2. PICK a \in process[p].allocations : process_free(a)
    BY <1>8, <2>1 DEF Free
  <2>3. /\ IInv' /\ p \in Live
        /\ \E x, n : CanMap(x, x, n) /\ Turned(p, RangeMap(Map(p), x, x, n, 0))
    BY <2>1, <2>2, FreeStep
  <2>4. 0 \in 0 .. 7
    OBVIOUS
  <2> QED
    BY <2>3, <2>4 DEF Changes, RangeMapped
<1>9. CASE Terminate
  <2>1. PICK p : p = current
    OBVIOUS
  <2>2. IInv' /\ p \in Live /\ Turned(p, NoTlb)
    BY <1>9, <2>1, TerminateStep
  <2> QED
    BY <2>2 DEF Changes, MapGone
<1>10. CASE Stopped
  BY <1>10, <1>1 DEF Stopped
<1>11. CASE CopyMap \/ CopyRestore
  <2>1. PICK p : p = current
    OBVIOUS
  <2>2. /\ IInv' /\ p \in Live
        /\ \E x, w : x \in Page /\ w \in Address /\ Turned(p, Updated(Map(p), x, w))
    BY <1>11, <2>1, CopyMapStep, CopyRestoreStep
  <2> QED
    BY <2>2 DEF Changes, PageMapped
<1>12. CASE CopyFault
  BY <1>12, CopyFaultStep DEF Changes, MapsKept
<1> QED
  BY <1>1, <1>2, <1>3, <1>4, <1>5, <1>6, <1>7, <1>8, <1>9, <1>10, <1>11, <1>12 DEF Next

\* In every state the kernel can reach: a program's directory is in cr3 only
\* while the program runs or its string is copied, no block of the heap has two
\* owners, every directory of a process has its tables, and every page of it
\* is mapped as process_map_memory, process_malloc, process_free and
\* copy_string_from_task left it.
THEOREM Inductive == Spec => []IInv
<1>1. IInv /\ [Next]_vars => IInv'
  BY StepIs
<1> QED
  BY <1>1, InitInv, PTL DEF Spec

------------------------------------------------------------------------------
(* Theorems. *)

\* Whatever is loaded, mapped, allocated, freed, copied or terminated: every
\* word of every page table is a word, every table is a taken block of the
\* heap, and the tables are those of the programs that are loaded, so that
\* paging_free_4gb leaves no directory half freed and loses none.
THEOREM Types == Spec => []TypeOK
<1>1. IInv => TypeOK
  <2> SUFFICES ASSUME IInv PROVE TypeOK
    OBVIOUS
  <2>1. OwnedIn(heap, table, process) /\ Live = LiveIn(process)
    BY StateIs DEF IInv, Owned
  <2>2. HeapOK(heap) /\ Tables(table) /\ DOMAIN table \subseteq DOMAIN heap
    BY <2>1, OwnedParts
  <2>3. Taken(heap) \subseteq HeapPages
    BY <2>2 DEF Taken, HeapOK
  <2>4. \A a \in DOMAIN table : table[a] \in [Index -> Address] /\ a \in DOMAIN heap
    BY <2>2 DEF Tables
  <2>5. DOMAIN table = UNION {TablesOf(table, process[p].directory) : p \in Live}
    BY <2>1 DEF OwnedIn
  <2> QED
    BY <2>3, <2>4, <2>5 DEF TypeOK, IInv, Control
<1> QED
  BY <1>1, Inductive, PTL

\* While the directory of a program is loaded, for the program or for
\* copy_string_from_task, the tables are not changed: the processor uses no
\* translation that they no longer have.
THEOREM Translations == Spec => []NoStaleTranslation
<1>1. IInv => NoStaleTranslation
  BY DEF IInv
<1> QED
  BY <1>1, Inductive, PTL

LEMMA DoneIs ==
  ASSUME IInv, NEW p \in Live, NEW r, r = process[p]
  PROVE  /\ Done(p) \in 0 .. Segments(Image(r)) + 1 /\ Segments(Image(r)) \in Nat
         /\ r.filename \in DOMAIN ImageOf
         /\ pc = "user" => Done(p) = Segments(Image(r)) + 1
<1>1. r.filename \in DOMAIN ImageOf
  BY ProcessParts DEF Holds
<1>2. Segments(Image(r)) \in Nat
  BY <1>1, SegmentsIs DEF Image
<1>3. pc = "mapping" => next.header \in 1 .. Segments(Image(process[next.p])) + 1
  BY DEF IInv, Mapped
<1>4. Done(p) \in 0 .. Segments(Image(r)) + 1
  <2>1. CASE pc = "mapping" /\ next.p = p
    BY <1>2, <1>3, <2>1 DEF Done
  <2>2. CASE ~(pc = "mapping" /\ next.p = p)
    BY <1>2, <2>2 DEF Done
  <2> QED
    BY <2>1, <2>2
<1>5. pc = "user" => Done(p) = Segments(Image(r)) + 1
  BY DEF Done
<1> QED
  BY <1>1, <1>2, <1>4, <1>5

\* A page that is in no area and not in the heap keeps its first entry.
LEMMA KernelPageIs ==
  ASSUME IInv, NEW p \in Live, NEW v \in KernelPages
  PROVE  v \in Page /\ Map(p)[v] = v + InitialFlags
<1>1. PICK r : r = process[p]
  OBVIOUS
<1>2. PICK image : image = Image(r)
  OBVIOUS
<1>3. v \in Page /\ v \in Page \ HeapPages
  BY LayoutAssumption
<1>4. /\ Done(p) \in 0 .. Segments(image) + 1 /\ Segments(image) \in Nat
      /\ r.filename \in DOMAIN ImageOf
  BY <1>1, <1>2, DoneIs
<1>5. ASSUME NEW k \in 1 .. Done(p) PROVE ~In(r, k, v)
  <2>1. k \in 1 .. Segments(image) + 1
    BY <1>4
  <2>2. PICK area : area = Area(image, k)
    OBVIOUS
  <2> QED
    BY <1>2, <1>3, <1>4, <2>1, <2>2, InIs
<1>6. AreasMapped(r, Map(p), Done(p))
  BY <1>1 DEF IInv, Mapped, MappedFor
<1> QED
  BY <1>3, <1>5, <1>6 DEF AreasMapped

LEMMA EntryIs ==
  ASSUME NEW v, Aligned(v)
  PROVE  /\ Frame(v + InitialFlags) = v /\ Has(v + InitialFlags, PAGING_IS_PRESENT)
         /\ Has(v + InitialFlags, PAGING_ACCESS_FROM_ALL)
         /\ ~Has(v + InitialFlags, PAGING_IS_WRITEABLE)
         /\ Frame(v + UserWritable) = v /\ Has(v + UserWritable, PAGING_IS_PRESENT)
         /\ Has(v + UserWritable, PAGING_ACCESS_FROM_ALL)
         /\ Has(v + UserWritable, PAGING_IS_WRITEABLE)
         /\ Frame(v) = v /\ ~Has(v, PAGING_IS_PRESENT)
<1>1. InitialFlags \in 0 .. 7 /\ UserWritable \in 0 .. 7 /\ 0 \in 0 .. 7
  BY FlagValues
<1>2. /\ Flags(v + InitialFlags) = InitialFlags /\ Frame(v + InitialFlags) = v
      /\ Flags(v + UserWritable) = UserWritable /\ Frame(v + UserWritable) = v
      /\ Flags(v + 0) = 0 /\ Frame(v + 0) = v
  BY <1>1, WordParts
<1>3. v + 0 = v
  BY DEF Aligned
<1> QED
  BY <1>2, <1>3, FlagBits

\* Whatever a program maps, allocates and frees, the kernel finds its own pages
\* and the task and the chunk of the program in the program's directory, and
\* copy_string_from_task finds tmp there.
THEOREM Reachable == Spec => []KernelReachable
<1>1. IInv => KernelReachable
  <2> SUFFICES ASSUME IInv PROVE KernelReachable
    OBVIOUS
  <2>1. ASSUME NEW p \in Live, NEW v \in KernelPages \cup {process[p].task, process[p].chunk}
        PROVE  Aligned(v) /\ Map(p)[v] = v + InitialFlags
    <3>1. CASE v \in KernelPages
      BY <3>1, KernelPageIs, PageAligned
    <3>2. CASE v \in {process[p].task, process[p].chunk}
      <4>1. Pinned(process[p], Map(p))
        BY DEF IInv, Mapped, MappedFor
      <4>2. Holds(heap, table, process[p])
        BY ProcessParts
      <4>3. v \in HeapPages
        BY <3>2, <4>2 DEF Holds
      <4> QED
        BY <3>2, <4>1, <4>3, HeapWord DEF Pinned
    <3> QED
      BY <3>1, <3>2
  <2>2. ASSUME NEW p \in Live, NEW v \in KernelPages \cup {process[p].task, process[p].chunk}
        PROVE  Frame(Map(p)[v]) = v /\ Has(Map(p)[v], PAGING_IS_PRESENT)
    BY <2>1, EntryIs
  <2>3. ASSUME pc = "reading"
        PROVE  Frame(tlb[copy.tmp]) = copy.tmp /\ Has(tlb[copy.tmp], PAGING_IS_PRESENT)
    <3>1. cr3 = current /\ current # KERNEL /\ Unowned(heap, table, process, copy.tmp)
      BY <2>3 DEF IInv, Control, Owned
    <3>2. tlb = Map(current)
      BY <3>1 DEF IInv, NoStaleTranslation
    <3>3. tlb[copy.tmp] = copy.tmp + UserWritable
      BY <2>3, <3>2 DEF IInv, Mapped
    <3>4. HeapOK(heap)
      BY OwnedParts DEF IInv, Owned
    <3>5. Aligned(copy.tmp)
      BY <3>1, <3>4, HeapBlocks, HeapWord DEF Unowned
    <3> QED
      BY <3>3, <3>5, EntryIs
  <2> QED
    BY <2>2, <2>3 DEF KernelReachable
<1> QED
  BY <1>1, Inductive, PTL

\* A change of some pages of one map.
Stretch(m, o) ==
  LET C == {x \in Page : o[x] # m[x]}
  IN  \E first, last \in C : \A x \in Page :
        o[x] = IF x \in first .. last THEN o[first] + (x - first) ELSE m[x]

Flat(m) == m = [x \in Page |-> m[x]]

\* A range that is mapped changes the pages between two pages or nothing.
LEMMA RangeChanges ==
  ASSUME NEW m, Flat(m), NEW v \in Nat, NEW a \in Nat, NEW n, n * P \in Nat, NEW f \in 0 .. 7,
         NEW o, o = RangeMap(m, v, a, n, f)
  PROVE  o = m \/ Stretch(m, o)
<1>m. m = [x \in Page |-> m[x]]
  BY DEF Flat
<1>c. PICK C : C = {x \in Page : o[x] # m[x]}
  OBVIOUS
<1> SUFFICES o = m \/ \E first, last \in C : \A x \in Page :
               o[x] = IF x \in first .. last THEN o[first] + (x - first) ELSE m[x]
  BY <1>c DEF Stretch
<1>1. Page \subseteq Nat /\ \A x \in Page : x < WORD
  BY PageAddress
<1>2. o = [x \in Page |-> o[x]]
  BY DEF RangeMap
<1>3. PICK e : e = v + n * P
  OBVIOUS
<1>4. e \in Nat
  BY <1>3
<1>5. \A x \in Page : v <= x /\ x < e => o[x] = a + (x - v) + f
  BY <1>3 DEF RangeMap
<1>6. \A x \in Page : ~(v <= x /\ x < e) => o[x] = m[x]
  BY <1>3 DEF RangeMap
<1>7. CASE C = {}
  <2>1. \A x \in Page : o[x] = m[x]
    BY <1>7, <1>c
  <2> QED
    BY <1>2, <1>m, <2>1
<1>8. CASE C # {}
  <2>1. C \in SUBSET Nat /\ C \subseteq Page
    BY <1>1, <1>c
  <2>2. PICK first \in C : \A y \in C : first <= y
    BY <1>8, <2>1, LeastExists
  <2>3. PICK D : D = {WORD - y : y \in C}
    OBVIOUS
  <2>4. D \in SUBSET Nat /\ D # {}
    <3>1. ASSUME NEW z \in D PROVE z \in Nat
      <4>1. PICK y \in C : z = WORD - y
        BY <2>3
      <4>2. y \in Nat /\ y < WORD /\ WORD \in Nat
        BY <1>1, <2>1, Constants
      <4> QED
        BY <4>1, <4>2
    <3>2. D # {}
      BY <1>8, <2>3
    <3> QED
      BY <3>1, <3>2
  <2>5. PICK d \in D : \A y \in D : d <= y
    BY <2>4, LeastExists
  <2>6. PICK last \in C : d = WORD - last
    BY <2>3, <2>5
  <2>7. \A y \in C : y <= last
    <3> TAKE y \in C
    <3>1. WORD - y \in D
      BY <2>3
    <3>2. WORD - last <= WORD - y
      BY <2>5, <2>6, <3>1
    <3>3. WORD \in Nat /\ y \in Nat /\ last \in Nat
      BY <2>1, <2>6, Constants
    <3> QED
      BY <3>2, <3>3
  <2>8. first \in Nat /\ last \in Nat /\ v <= first /\ first < e /\ v <= last /\ last < e /\ first \in Page
    BY <1>6, <1>c, <2>1, <2>2, <2>6
  <2>9. o[first] = a + (first - v) + f
    BY <1>5, <2>8
  <2>10. ASSUME NEW x \in Page
         PROVE  o[x] = IF x \in first .. last THEN o[first] + (x - first) ELSE m[x]
    <3>1. x \in Nat
      BY <1>1
    <3>2. CASE x \in first .. last
      <4>1. v <= x /\ x < e
        BY <1>4, <2>8, <3>1, <3>2
      <4>2. o[x] = a + (x - v) + f
        BY <1>5, <4>1
      <4>3. a + (x - v) + f = (a + (first - v) + f) + (x - first)
        BY <2>8, <3>1
      <4> QED
        BY <2>9, <3>2, <4>2, <4>3
    <3>3. CASE x \notin first .. last
      <4>1. x \notin C
        BY <2>2, <2>7, <2>8, <3>1, <3>3
      <4> QED
        BY <1>c, <3>3, <4>1
    <3> QED
      BY <3>2, <3>3
  <2> QED
    BY <2>10
<1> QED
  BY <1>7, <1>8

LEMMA EntryChanges ==
  ASSUME NEW m, Flat(m), NEW v \in Page, NEW w \in Address,
         NEW o, o = Updated(m, v, w)
  PROVE  o = m \/ Stretch(m, o)
<1>m. m = [x \in Page |-> m[x]]
  BY DEF Flat
<1>c. PICK C : C = {x \in Page : o[x] # m[x]}
  OBVIOUS
<1> SUFFICES o = m \/ \E first, last \in C : \A x \in Page :
               o[x] = IF x \in first .. last THEN o[first] + (x - first) ELSE m[x]
  BY <1>c DEF Stretch
<1>1. \A x \in Page : x \in Nat
  BY PageAddress
<1>2. o = [x \in Page |-> o[x]] /\ o[v] = w /\ \A x \in Page : x # v => o[x] = m[x]
  BY <1>m DEF Updated
<1>3. CASE m[v] = w
  BY <1>2, <1>3, <1>m
<1>4. CASE m[v] # w
  <2>1. v \in C
    BY <1>2, <1>4, <1>c
  <2>2. w \in Nat
    BY Constants DEF Address
  <2>3. ASSUME NEW x \in Page
        PROVE  o[x] = IF x \in v .. v THEN o[v] + (x - v) ELSE m[x]
    <3>1. x \in Nat /\ v \in Nat
      BY <1>1
    <3>2. x \in v .. v <=> x = v
      BY <3>1
    <3>3. w + (v - v) = w
      BY <2>2, <3>1
    <3> QED
      BY <1>2, <3>2, <3>3
  <2> QED
    BY <2>1, <2>3
<1> QED
  BY <1>3, <1>4

------------------------------------------------------------------------------
(* The maps of module PageMap. *)

Maps == [p \in Process |-> Map(p)]

LEMMA MapsAre ==
  ASSUME IInv, NEW p \in Live, NEW m, m = Map(p)
  PROVE  p \in Process /\ m = [v \in Page |-> m[v]]
<1>1. PICK d : m = Translation(table, d)
  BY ProcessParts
<1> QED
  BY <1>1, MapIsMap, LiveIsProcess

LEMMA NotNothing ==
  ASSUME NEW m, m = [v \in Page |-> m[v]]
  PROVE  m # NoTlb
<1>1. 0 \in Page
  <2>1. 0 * P = 0 /\ 0 \in 0 .. E * E - 1
    BY Constants
  <2> QED
    BY <2>1, Constants
<1>2. DOMAIN m = Page /\ DOMAIN NoTlb = {}
  BY DEF NoTlb
<1> QED
  BY <1>1, <1>2

LEMMA TurnedIs ==
  ASSUME NEW p \in Process, NEW m, Turned(p, m)
  PROVE  Maps' = [Maps EXCEPT ![p] = m] /\ Maps[p] = Map(p) /\ Maps'[p] = m
<1>1. Map(p)' = m /\ \A q \in Process : q # p => Map(q)' = Map(q)
  BY DEF Turned
<1>2. Maps = [q \in Process |-> Map(q)] /\ Maps' = [q \in Process |-> Map(q)']
  BY DEF Maps
<1> QED
  BY <1>1, <1>2

Stretched(old, new, p) ==
  /\ old[p] # NoTlb /\ new[p] # NoTlb
  /\ new = [old EXCEPT ![p] = new[p]]
  /\ Stretch(old[p], new[p])

LEMMA StretchedIs == \A p : Stretched(Maps, Maps', p) <=> PM!MapRange(p)
BY DEF Stretched, Stretch, PM!MapRange, Maps

LEMMA StretchMaps ==
  ASSUME IInv, NEW p \in Live, NEW o, Turned(p, o), o = [v \in Page |-> o[v]],
         o = Map(p) \/ Stretch(Map(p), o)
  PROVE  [PM!Next]_Maps
<1>1. PICK m : m = Map(p)
  OBVIOUS
<1>2. p \in Process /\ m = [v \in Page |-> m[v]]
  BY <1>1, MapsAre
<1>3. Maps' = [Maps EXCEPT ![p] = o] /\ Maps[p] = m /\ Maps'[p] = o
  BY <1>1, <1>2, TurnedIs
<1>4. m # NoTlb /\ o # NoTlb
  BY <1>2, NotNothing
<1>5. CASE o = m
  <2>1. Maps' = Maps
    BY <1>2, <1>3, <1>5 DEF Maps
  <2> QED
    BY <2>1
<1>6. CASE Stretch(m, o)
  <2>1. Stretched(Maps, Maps', p)
    BY <1>3, <1>4, <1>6 DEF Stretched
  <2>2. PM!MapRange(p)
    BY <2>1, StretchedIs
  <2> QED
    BY <1>2, <2>2 DEF PM!Next
<1> QED
  BY <1>1, <1>5, <1>6

LEMMA StepMaps == ASSUME IInv, Changes PROVE [PM!Next]_Maps
<1>1. CASE MapsKept
  <2>1. Maps' = Maps
    BY <1>1 DEF MapsKept, Maps
  <2> QED
    BY <2>1
<1>2. CASE MapMade
  <2>1. PICK p \in Process : p \notin Live /\ Turned(p, Fresh)
    BY <1>2 DEF MapMade
  <2>2. Maps' = [Maps EXCEPT ![p] = Fresh] /\ Maps[p] = Map(p)
    BY <2>1, TurnedIs
  <2>3. Maps[p] = NoTlb
    BY <2>1, <2>2 DEF Map
  <2>4. PM!Create(p)
    BY <2>2, <2>3 DEF PM!Create, Maps, Fresh
  <2> QED
    BY <2>4 DEF PM!Next
<1>3. CASE MapGone
  <2>1. PICK p \in Live : Turned(p, NoTlb)
    BY <1>3 DEF MapGone
  <2>2. PICK m : m = Map(p)
    OBVIOUS
  <2>3. p \in Process /\ m # NoTlb
    BY <2>2, MapsAre, NotNothing
  <2>4. Maps' = [Maps EXCEPT ![p] = NoTlb] /\ Maps[p] # NoTlb
    BY <2>1, <2>2, <2>3, TurnedIs
  <2>5. PM!Destroy(p)
    BY <2>4 DEF PM!Destroy, Maps
  <2> QED
    BY <2>3, <2>5 DEF PM!Next
<1>4. CASE RangeMapped
  <2>1. PICK p \in Live : \E v, a, n, f :
          CanMap(v, a, n) /\ f \in 0 .. 7 /\ Turned(p, RangeMap(Map(p), v, a, n, f))
    BY <1>4 DEF RangeMapped
  <2>2. PICK v, a, n, f : CanMap(v, a, n) /\ f \in 0 .. 7 /\ Turned(p, RangeMap(Map(p), v, a, n, f))
    BY <2>1
  <2>3. PICK m, o : m = Map(p) /\ o = RangeMap(m, v, a, n, f)
    OBVIOUS
  <2>4. Flat(m)
    BY <2>3, MapsAre DEF Flat
  <2>5. v \in Nat /\ a \in Nat /\ n \in Nat
    BY <2>2 DEF CanMap, Aligned
  <2>6. n * P \in Nat
    BY <2>5, Constants
  <2>7. f \in 0 .. 7 /\ o = RangeMap(m, v, a, n, f)
    BY <2>2, <2>3
  <2>8. o = m \/ Stretch(m, o)
    BY <2>4, <2>5, <2>6, <2>7, RangeChanges
  <2>9. o = [x \in Page |-> o[x]]
    BY <2>3 DEF RangeMap
  <2>10. Turned(p, o) /\ (o = Map(p) \/ Stretch(Map(p), o))
    BY <2>2, <2>3, <2>8
  <2> QED
    BY <2>9, <2>10, StretchMaps
<1>5. CASE PageMapped
  <2>1. PICK p \in Live : \E x, w : x \in Page /\ w \in Address /\ Turned(p, Updated(Map(p), x, w))
    BY <1>5 DEF PageMapped
  <2>2. PICK v, w : v \in Page /\ w \in Address /\ Turned(p, Updated(Map(p), v, w))
    BY <2>1
  <2>3. PICK m, o : m = Map(p) /\ o = Updated(m, v, w)
    OBVIOUS
  <2>4. Flat(m)
    BY <2>3, MapsAre DEF Flat
  <2>5. v \in Page /\ w \in Address /\ o = Updated(m, v, w)
    BY <2>2, <2>3
  <2>6. o = m \/ Stretch(m, o)
    BY <2>4, <2>5, EntryChanges
  <2>7. o = [x \in Page |-> o[x]]
    BY <2>3, <2>4 DEF Flat, Updated
  <2>8. Turned(p, o) /\ (o = Map(p) \/ Stretch(Map(p), o))
    BY <2>2, <2>3, <2>6
  <2> QED
    BY <2>7, <2>8, StretchMaps
<1> QED
  BY <1>1, <1>2, <1>3, <1>4, <1>5 DEF Changes

\* The page tables in the heap behave as one flat map per process: task_init
\* makes a map where every page is itself, process_terminate takes one away,
\* and every call of paging_map_to, paging_map and paging_set_physical_address
\* changes consecutive pages of the directory it names and no other map,
\* although the tables are found through words of the directory and their
\* blocks were freed and taken again.
THEOREM Implements == Spec => ImplementsPageMap
<1>1. Init => PM!Init
  <2> SUFFICES ASSUME Init PROVE PM!Init
    OBVIOUS
  <2>1. Live = {}
    BY DEF Init, Live, NoProcess
  <2>2. Maps = [p \in Process |-> NoTlb]
    BY <2>1 DEF Maps, Map
  <2> QED
    BY <2>2 DEF PM!Init, Maps
<1>2. IInv /\ [Next]_vars => [PM!Next]_Maps
  BY StepIs, StepMaps
<1>3. IInv /\ [Next]_vars => [PM!Next]_([p \in Process |-> Map(p)])
  BY <1>2 DEF Maps
<1> QED
  BY <1>1, <1>3, Inductive, PTL DEF Spec, ImplementsPageMap, PM!Spec

------------------------------------------------------------------------------
(* What a program can write. *)

\* The frames of some bytes are whole pages.
LEMMA FramesAre ==
  ASSUME NEW b \in Nat, NEW size \in Nat, NEW o, Aligned(o), o <= b, b < o + P,
         NEW n \in Nat, NEW e \in Nat, e = o + n * P, b + size <= e, e < b + size + P,
         size = 0 => n = 0
  PROVE  FramesFrom(b, size) = PagesFrom(o, n)
<1>1. o \in Nat /\ P \in Nat \ {0}
  BY Constants DEF Aligned
<1>2. \A x : x \in PagesFrom(o, n) <=> Aligned(x) /\ o <= x /\ x < e
  BY PagesFromIs
<1>3. Aligned(e)
  <2>1. Aligned(n * P)
    BY AlignedTimes
  <2> QED
    BY <2>1, AlignedArithmetic
<1>4. ASSUME NEW x \in FramesFrom(b, size) PROVE x \in PagesFrom(o, n)
  <2>1. PICK i \in 0 .. size - 1 : x = Frame(b + i)
    BY DEF FramesFrom
  <2>2. PICK y : y = b + i
    OBVIOUS
  <2>3. y \in Nat /\ o <= y /\ y < b + size
    BY <1>1, <2>2
  <2>4. x = paging_align_to_lower_page(y)
    BY <2>1, <2>2 DEF Frame, Flags, paging_align_to_lower_page
  <2>5. Aligned(x) /\ x <= y /\ y < x + P
    BY <2>3, <2>4, AlignLower
  <2>6. x < o => x + P <= o
    BY <2>5, AlignedArithmetic
  <2>7. x \in Nat
    BY <2>5 DEF Aligned
  <2>8. o <= x /\ x < e
    BY <1>1, <2>3, <2>5, <2>6, <2>7
  <2> QED
    BY <1>2, <2>5, <2>8
<1>5. ASSUME NEW x \in PagesFrom(o, n) PROVE x \in FramesFrom(b, size)
  <2>1. Aligned(x) /\ x \in Nat /\ o <= x /\ x < e
    BY <1>2 DEF Aligned
  <2>2. x + P <= e
    BY <1>3, <2>1, AlignedArithmetic
  <2>3. size # 0
    <3>1. n = 0 => e = o
      BY <1>1
    <3> QED
      BY <1>1, <2>1, <3>1
  <2>4. CASE x <= b
    <3>1. o < x => o + P <= x
      BY <2>1, AlignedArithmetic
    <3>2. x = o
      BY <1>1, <2>1, <2>4, <3>1
    <3>3. paging_align_to_lower_page(b) = x
      BY <3>2, LowerUnique
    <3>4. Frame(b + 0) = x /\ 0 \in 0 .. size - 1
      BY <2>3, <3>3 DEF Frame, Flags, paging_align_to_lower_page
    <3> QED
      BY <3>4 DEF FramesFrom
  <2>5. CASE b < x
    <3>1. PICK i : i = x - b
      OBVIOUS
    <3>2. i \in 0 .. size - 1 /\ b + i = x
      BY <1>1, <2>1, <2>2, <2>5, <3>1
    <3>3. Frame(x) = x
      BY <2>1 DEF Frame, Flags, Aligned, P
    <3> QED
      BY <3>2, <3>3 DEF FramesFrom
  <2> QED
    BY <2>1, <2>4, <2>5
<1> QED
  BY <1>4, <1>5

LEMMA BlockFrames ==
  ASSUME NEW x, Aligned(x), NEW size \in 1 .. WORD - P
  PROVE  FramesFrom(x, size) = PagesFrom(x, Pages(size))
<1>1. PICK n : n = Pages(size)
  OBVIOUS
<1>2. n \in Nat \ {0} /\ size <= n * P /\ n * P < size + P
  BY <1>1, SizeInPages
<1>3. PICK e : e = x + n * P
  OBVIOUS
<1>4. x \in Nat /\ P \in Nat \ {0} /\ n * P \in Nat /\ size \in Nat /\ size # 0
  BY <1>2, Constants DEF Aligned
<1>5. e \in Nat /\ x <= x /\ x < x + P /\ x + size <= e /\ e < x + size + P
  BY <1>2, <1>3, <1>4
<1>6. FramesFrom(x, size) = PagesFrom(x, n)
  BY <1>2, <1>3, <1>4, <1>5, FramesAre
<1> QED
  BY <1>1, <1>6

Allows(w) ==
  \A f \in {PAGING_IS_PRESENT, PAGING_IS_WRITEABLE, PAGING_ACCESS_FROM_ALL} : Has(w, f)

LEMMA AllowsIs ==
  ASSUME NEW v, Aligned(v)
  PROVE  ~Allows(v) /\ ~Allows(v + InitialFlags) /\ Allows(v + UserWritable)
BY EntryIs DEF Allows

\* The frames behind an area.
AreaPages(r, k) == PagesFrom(At(r, k), Area(Image(r), k).pages)

WrittenAreas(r) == {k \in 1 .. Segments(Image(r)) + 1 : AreaFlags(r, k) = UserWritable}

Written(r) == AllocPages(r) \cup UNION {AreaPages(r, k) : k \in WrittenAreas(r)}

\* A page of an area has its frame in the memory behind the area, and every
\* frame there has its page.
LEMMA AreaShift ==
  ASSUME NEW v, NEW a, NEW n, CanMap(v, a, n)
  PROVE  /\ \A x \in PagesFrom(v, n) : Aligned(a + (x - v)) /\ a + (x - v) \in PagesFrom(a, n)
         /\ \A y \in PagesFrom(a, n) : v + (y - a) \in PagesFrom(v, n) /\ a + ((v + (y - a)) - v) = y
<1>1. Aligned(v) /\ Aligned(a) /\ n \in Nat
  BY DEF CanMap
<1>2. PICK s : s = n * P
  OBVIOUS
<1>3. s \in Nat /\ v \in Nat /\ a \in Nat
  BY <1>1, <1>2, Constants DEF Aligned
<1>4. \A x : x \in PagesFrom(v, n) <=> Aligned(x) /\ v <= x /\ x < v + s
  BY <1>1, <1>2, PagesFromIs
<1>5. \A x : x \in PagesFrom(a, n) <=> Aligned(x) /\ a <= x /\ x < a + s
  BY <1>1, <1>2, PagesFromIs
<1>6. ASSUME NEW x \in PagesFrom(v, n)
      PROVE  Aligned(a + (x - v)) /\ a + (x - v) \in PagesFrom(a, n)
  <2>1. Aligned(x) /\ x \in Nat /\ v <= x /\ x < v + s
    BY <1>4 DEF Aligned
  <2>2. Aligned(x - v)
    BY <1>1, <2>1, AlignedArithmetic
  <2>3. Aligned(a + (x - v))
    BY <1>1, <2>2, AlignedArithmetic
  <2>4. a <= a + (x - v) /\ a + (x - v) < a + s
    BY <1>3, <2>1
  <2> QED
    BY <1>5, <2>3, <2>4
<1>7. ASSUME NEW y \in PagesFrom(a, n)
      PROVE  v + (y - a) \in PagesFrom(v, n) /\ a + ((v + (y - a)) - v) = y
  <2>1. Aligned(y) /\ y \in Nat /\ a <= y /\ y < a + s
    BY <1>5 DEF Aligned
  <2>2. Aligned(y - a)
    BY <1>1, <2>1, AlignedArithmetic
  <2>3. Aligned(v + (y - a))
    BY <1>1, <2>2, AlignedArithmetic
  <2>4. v <= v + (y - a) /\ v + (y - a) < v + s /\ a + ((v + (y - a)) - v) = y
    BY <1>3, <2>1
  <2> QED
    BY <1>4, <2>3, <2>4
<1> QED
  BY <1>6, <1>7

\* The map of a program that has been loaded: its areas, and the heap.
Placed(h, t, r, m) ==
  /\ HeapOK(h) /\ r \in Proc /\ Holds(h, t, r)
  /\ AreasMapped(r, m, Segments(Image(r)) + 1)

Complete(h, t, r, m) == Placed(h, t, r, m) /\ HeapMapped(r, m)

LEMMA PlacedParts ==
  ASSUME NEW h, NEW t, NEW r, NEW m, Placed(h, t, r, m)
  PROVE  /\ HeapOK(h) /\ r \in Proc /\ Holds(h, t, r) /\ r.filename \in DOMAIN ImageOf
         /\ Segments(Image(r)) \in Nat
         /\ AreasMapped(r, m, Segments(Image(r)) + 1)
<1>1. r.filename \in DOMAIN ImageOf
  BY DEF Placed, Holds
<1>2. Segments(Image(r)) \in Nat
  BY <1>1, SegmentsIs DEF Image
<1> QED
  BY <1>1, <1>2 DEF Placed

LEMMA CompleteParts ==
  ASSUME NEW h, NEW t, NEW r, NEW m, Complete(h, t, r, m)
  PROVE  /\ Placed(h, t, r, m)
         /\ HeapOK(h) /\ r \in Proc /\ Holds(h, t, r) /\ r.filename \in DOMAIN ImageOf
         /\ Segments(Image(r)) \in Nat
         /\ AreasMapped(r, m, Segments(Image(r)) + 1) /\ HeapMapped(r, m)
<1>1. Placed(h, t, r, m) /\ HeapMapped(r, m)
  BY DEF Complete
<1> QED
  BY <1>1, PlacedParts

\* Every page of an area.
LEMMA AreaEntry ==
  ASSUME NEW h, NEW t, NEW r, NEW m, Placed(h, t, r, m),
         NEW k \in 1 .. Segments(Image(r)) + 1, NEW v \in Page, In(r, k, v),
         NEW x, x = At(r, k) + (v - Area(Image(r), k).first)
  PROVE  /\ Aligned(x) /\ x \in AreaPages(r, k) /\ m[v] = x + AreaFlags(r, k)
         /\ AreaFlags(r, k) \in {InitialFlags, UserWritable} /\ v \notin HeapPages
<1>1. /\ HeapOK(h) /\ r \in Proc /\ Holds(h, t, r) /\ r.filename \in DOMAIN ImageOf
      /\ AreasMapped(r, m, Segments(Image(r)) + 1)
  BY PlacedParts
<1>2. PICK image : image = Image(r)
  OBVIOUS
<1>3. PICK area : area = Area(image, k)
  OBVIOUS
<1>4. PICK a : a = At(r, k)
  OBVIOUS
<1>5. k \in 1 .. Segments(image) + 1
  BY <1>2
<1>6. CanMap(area.first, a, area.pages) /\ AreaFlags(r, k) \in {InitialFlags, UserWritable}
  BY <1>1, <1>2, <1>3, <1>4, <1>5, AreaMemory
<1>7. v \in PagesFrom(area.first, area.pages) /\ v \notin HeapPages
  BY <1>1, <1>2, <1>3, <1>5, InIs
<1>8. Aligned(a + (v - area.first)) /\ a + (v - area.first) \in PagesFrom(a, area.pages)
  BY <1>6, <1>7, AreaShift
<1>9. x = a + (v - area.first)
  BY <1>2, <1>3, <1>4
<1>10. m[v] = AreaWord(r, k, v)
  BY <1>1, <1>7 DEF AreasMapped
<1>11. m[v] = x + AreaFlags(r, k)
  BY <1>10 DEF AreaWord
<1> QED
  BY <1>2, <1>3, <1>4, <1>6, <1>7, <1>8, <1>9, <1>11 DEF AreaPages

\* Every frame behind an area.
LEMMA AreaFrame ==
  ASSUME NEW h, NEW t, NEW r, NEW m, Complete(h, t, r, m),
         NEW k \in 1 .. Segments(Image(r)) + 1, NEW x \in AreaPages(r, k)
  PROVE  \E v \in Page : In(r, k, v) /\ x = At(r, k) + (v - Area(Image(r), k).first)
<1>1. /\ HeapOK(h) /\ r \in Proc /\ Holds(h, t, r) /\ r.filename \in DOMAIN ImageOf
  BY CompleteParts
<1>2. PICK image : image = Image(r)
  OBVIOUS
<1>3. PICK area : area = Area(image, k)
  OBVIOUS
<1>4. PICK a : a = At(r, k)
  OBVIOUS
<1>5. k \in 1 .. Segments(image) + 1
  BY <1>2
<1>6. CanMap(area.first, a, area.pages)
  BY <1>1, <1>2, <1>3, <1>4, <1>5, AreaMemory
<1>7. x \in PagesFrom(a, area.pages)
  BY <1>2, <1>3, <1>4 DEF AreaPages
<1>8. PICK v : v = area.first + (x - a)
  OBVIOUS
<1>9. v \in PagesFrom(area.first, area.pages) /\ a + (v - area.first) = x
  BY <1>6, <1>7, <1>8, AreaShift
<1>10. v \in Page
  BY <1>6, <1>9 DEF CanMap
<1>11. In(r, k, v)
  BY <1>1, <1>2, <1>3, <1>5, <1>9, <1>10, InIs
<1> QED
  BY <1>2, <1>3, <1>4, <1>9, <1>10, <1>11

AllowedFrames(m) == {Frame(w) : w \in {u \in {m[v] : v \in Page} : Allows(u)}}

\* What can be written through a map is what malloc gave and the memory behind
\* the writable areas.
LEMMA AllowedIs ==
  ASSUME NEW h, NEW t, NEW r, NEW m, Complete(h, t, r, m)
  PROVE  AllowedFrames(m) = Written(r)
<1>1. /\ Placed(h, t, r, m) /\ HeapOK(h) /\ r \in Proc /\ Holds(h, t, r) /\ Segments(Image(r)) \in Nat
      /\ AreasMapped(r, m, Segments(Image(r)) + 1) /\ HeapMapped(r, m)
  BY CompleteParts
<1>2. PICK N : N = Segments(Image(r)) + 1
  OBVIOUS
<1>3. ASSUME NEW v \in Page, Allows(m[v]) PROVE Frame(m[v]) \in Written(r)
  <2>1. Aligned(v)
    BY PageAligned
  <2>2. CASE v \in HeapPages
    <3>1. /\ m[v] \in {v, v + InitialFlags, v + UserWritable}
          /\ (m[v] = v + UserWritable <=> v \in AllocPages(r))
      BY <1>1, <2>2 DEF HeapMapped
    <3>2. m[v] = v + UserWritable
      BY <1>3, <2>1, <3>1, AllowsIs
    <3>3. Frame(m[v]) = v
      BY <2>1, <3>2, EntryIs
    <3> QED
      BY <3>1, <3>2, <3>3 DEF Written
  <2>3. CASE v \notin HeapPages
    <3>1. PICK k \in 1 .. N : In(r, k, v)
      <4>1. (\A k \in 1 .. N : ~In(r, k, v)) => m[v] = v + InitialFlags
        BY <1>1, <1>2, <2>3 DEF AreasMapped
      <4>2. m[v] # v + InitialFlags
        BY <1>3, <2>1, AllowsIs
      <4> QED
        BY <4>1, <4>2
    <3>2. PICK x : x = At(r, k) + (v - Area(Image(r), k).first)
      OBVIOUS
    <3>3. k \in 1 .. Segments(Image(r)) + 1
      BY <1>2
    <3>4. /\ Aligned(x) /\ x \in AreaPages(r, k) /\ m[v] = x + AreaFlags(r, k)
          /\ AreaFlags(r, k) \in {InitialFlags, UserWritable}
      BY <1>1, <3>1, <3>2, <3>3, AreaEntry
    <3>5. AreaFlags(r, k) = UserWritable
      BY <1>3, <3>4, AllowsIs
    <3>6. Frame(m[v]) = x
      BY <3>4, <3>5, EntryIs
    <3>7. k \in WrittenAreas(r)
      BY <3>3, <3>5 DEF WrittenAreas
    <3> QED
      BY <3>4, <3>6, <3>7 DEF Written
  <2> QED
    BY <2>2, <2>3
<1>4. ASSUME NEW x \in Written(r) PROVE \E v \in Page : Allows(m[v]) /\ Frame(m[v]) = x
  <2>1. CASE x \in AllocPages(r)
    <3>1. x \in HeapPages
      <4>1. PICK a \in r.allocations : x \in PagesFrom(a.ptr, Pages(a.size))
        BY <2>1 DEF AllocPages
      <4>2. a.ptr \in DOMAIN h /\ h[a.ptr] = Pages(a.size)
        BY <1>1, LedgerPages
      <4> QED
        BY <1>1, <4>1, <4>2 DEF HeapOK
    <3>2. m[x] = x + UserWritable
      BY <1>1, <2>1, <3>1 DEF HeapMapped
    <3>3. Aligned(x) /\ x \in Page
      BY <3>1, HeapWord
    <3> QED
      BY <3>2, <3>3, EntryIs, AllowsIs
  <2>2. CASE \E k \in WrittenAreas(r) : x \in AreaPages(r, k)
    <3>1. PICK k \in WrittenAreas(r) : x \in AreaPages(r, k)
      BY <2>2
    <3>2. k \in 1 .. Segments(Image(r)) + 1 /\ AreaFlags(r, k) = UserWritable
      BY DEF WrittenAreas
    <3>3. PICK v \in Page : In(r, k, v) /\ x = At(r, k) + (v - Area(Image(r), k).first)
      BY <3>1, <3>2, AreaFrame
    <3>4. Aligned(x) /\ m[v] = x + AreaFlags(r, k)
      BY <1>1, <3>2, <3>3, AreaEntry
    <3> QED
      BY <3>2, <3>4, EntryIs, AllowsIs
  <2> QED
    BY <2>1, <2>2 DEF Written
<1> QED
  BY <1>3, <1>4 DEF AllowedFrames

\* What is assumed of a segment, by its header.
LEMMA HeaderIs ==
  ASSUME NEW name \in DOMAIN ImageOf, NEW image, image = ImageOf[name],
         NEW k \in 1 .. Len(image.phdrs), NEW phdr, phdr = image.phdrs[k]
  PROVE  /\ phdr \in ProgramHeader
         /\ phdr.memsz = 0 => paging_is_aligned(phdr.offset)
         /\ phdr.filesz <= phdr.memsz
         /\ phdr.type = "PT_LOAD" => phdr.memsz > 0
         /\ phdr.filesz > 0 => phdr.type = "PT_LOAD"
<1>1. k \in DOMAIN ImageOf[name].phdrs
  BY ImageIs
<1>2. phdr \in ProgramHeader
  BY ImageIs DEF Loadable
<1>3. phdr = ImageOf[name].phdrs[k]
  OBVIOUS
<1>4. phdr.memsz = 0 => paging_is_aligned(phdr.offset)
  BY <1>1, <1>3, ImageAssumption
<1>5. /\ phdr.filesz <= phdr.memsz
      /\ phdr.type = "PT_LOAD" => phdr.memsz > 0
      /\ phdr.filesz > 0 => phdr.type = "PT_LOAD"
  BY <1>1, <1>3, ImageAssumption
<1> QED
  BY <1>2, <1>4, <1>5

\* The same pages as the fields of the process and the headers of its file
\* name them.
LEMMA SegmentFrames ==
  ASSUME NEW h, NEW t, NEW r, NEW m, Complete(h, t, r, m), r.elf_file # NULL,
         NEW k \in 1 .. Len(Image(r).phdrs), NEW phdr, phdr = Image(r).phdrs[k]
  PROVE  FramesFrom(r.ptr + phdr.offset, phdr.memsz) = AreaPages(r, k)
<1>1. PICK image : image = Image(r)
  OBVIOUS
<1>2. /\ HeapOK(h) /\ r \in Proc /\ Holds(h, t, r) /\ r.filename \in DOMAIN ImageOf
  BY CompleteParts
<1>3. /\ image = ImageOf[r.filename] /\ Segments(image) = Len(image.phdrs)
      /\ elf_validate_loaded(image.header) /\ r.ptr \in DOMAIN h /\ Segments(image) \in Nat
  BY <1>1, <1>2, HoldsParts
<1>4. PICK o, u, n : SegmentAt(image, k, phdr, o, u, n)
  BY <1>1 DEF SegmentAt
<1>5. Segment(phdr, o, u, n)
  BY <1>1, <1>2, <1>3, <1>4, SegmentIs
<1>6. PICK f, z, s : f = phdr.offset /\ z = phdr.memsz /\ s = n * P
  OBVIOUS
<1>7. /\ f \in Nat /\ z \in Nat /\ Aligned(o) /\ o \in Nat /\ o <= f /\ f < o + P
      /\ Aligned(u) /\ u \in Nat /\ f + z <= u /\ u < f + z + P
      /\ n \in Nat /\ s \in Nat /\ u = o + s
  BY <1>5, <1>6 DEF Segment, Aligned
<1>8. P \in Nat \ {0}
  BY Constants
<1>9. z = 0 => n = 0
  <2>1. SUFFICES ASSUME z = 0 PROVE n = 0
    OBVIOUS
  <2>2. paging_is_aligned(f)
    <3>1. k \in 1 .. Len(image.phdrs) /\ phdr = image.phdrs[k] /\ phdr.memsz = 0
      BY <1>1, <1>6, <2>1
    <3>2. phdr.memsz = 0 => paging_is_aligned(phdr.offset)
      BY <1>2, <1>3, <3>1, HeaderIs
    <3> QED
      BY <1>6, <3>1, <3>2
  <2>3. Aligned(f)
    BY <1>7, <2>2 DEF Aligned, paging_is_aligned, P
  <2>4. o < f => o + P <= f
    BY <1>7, <2>3, AlignedArithmetic
  <2>5. f < u => f + P <= u
    BY <1>7, <2>3, AlignedArithmetic
  <2>6. s = 0
    BY <1>7, <1>8, <2>1, <2>4, <2>5
  <2> QED
    BY <1>6, <1>7, <1>8, <2>6
<1>10. r.ptr \in HeapPages /\ Aligned(r.ptr)
  BY <1>2, <1>3, HeapBlocks, HeapWord
<1>11. PICK x, a, b, e : x = r.ptr /\ a = x + o /\ b = x + f /\ e = a + s
  OBVIOUS
<1>12. Aligned(a) /\ x \in Nat /\ a \in Nat
  <2>1. Aligned(x)
    BY <1>10, <1>11
  <2> QED
    BY <1>7, <1>11, <2>1, AlignedArithmetic DEF Aligned
<1>13. b \in Nat /\ e \in Nat /\ a <= b /\ b < a + P /\ b + z <= e /\ e < b + z + P
  <2>1. f \in Nat /\ z \in Nat /\ s \in Nat /\ o \in Nat /\ u \in Nat
    BY <1>7
  <2>2. o <= f /\ f < o + P /\ f + z <= u /\ u < f + z + P
    BY <1>7
  <2>3. o + s = u
    BY <1>7
  <2>4. x \in Nat
    BY <1>12
  <2>5. a = x + o /\ b = x + f /\ e = a + s
    BY <1>11
  <2> QED
    BY <1>8, <2>1, <2>2, <2>3, <2>4, <2>5
<1>14. FramesFrom(b, z) = PagesFrom(a, n)
  <2>1. e = a + n * P
    BY <1>6, <1>11
  <2> QED
    BY <1>7, <1>9, <1>12, <1>13, <2>1, FramesAre, SMTT(30)
<1>15. ~(k > Segments(image))
  BY <1>1, <1>3
<1>16. At(r, k) = a
  BY <1>1, <1>4, <1>11, <1>15 DEF At, SegmentAt
<1>17. Area(image, k).pages = n
  BY <1>3, <1>4, <1>15 DEF Area, SegmentAt, P
<1> QED
  BY <1>1, <1>6, <1>11, <1>14, <1>16, <1>17 DEF AreaPages

\* The stack, and what malloc gave.
LEMMA BlocksWritten ==
  ASSUME NEW h, NEW t, NEW r, NEW m, Complete(h, t, r, m)
  PROVE  /\ FramesFrom(r.stack, OS_USER_PROGRAM_VIRTUAL_STACK_SIZE)
              = AreaPages(r, Segments(Image(r)) + 1)
         /\ UNION {FramesFrom(a.ptr, a.size) : a \in r.allocations} = AllocPages(r)
<1>1. PICK image : image = Image(r)
  OBVIOUS
<1>2. HeapOK(h) /\ r \in Proc /\ Holds(h, t, r)
  BY CompleteParts
<1>3. /\ Segments(image) \in Nat /\ r.stack \in DOMAIN h
      /\ OS_USER_PROGRAM_VIRTUAL_STACK_SIZE \in 1 .. WORD - P
  BY <1>1, <1>2, HoldsParts
<1>4. FramesFrom(r.stack, OS_USER_PROGRAM_VIRTUAL_STACK_SIZE) = AreaPages(r, Segments(image) + 1)
  <2>1. PICK k, x : k = Segments(image) + 1 /\ x = r.stack
    OBVIOUS
  <2>2. k > Segments(image)
    BY <1>3, <2>1
  <2>3. At(r, k) = x /\ Area(image, k).pages = Pages(OS_USER_PROGRAM_VIRTUAL_STACK_SIZE)
    BY <1>1, <2>1, <2>2 DEF At, Area
  <2>4. Aligned(x)
    BY <1>2, <1>3, <2>1, HeapBlocks, HeapWord
  <2>5. FramesFrom(x, OS_USER_PROGRAM_VIRTUAL_STACK_SIZE)
          = PagesFrom(x, Pages(OS_USER_PROGRAM_VIRTUAL_STACK_SIZE))
    BY <1>3, <2>4, BlockFrames
  <2> QED
    BY <1>1, <2>1, <2>3, <2>5 DEF AreaPages
<1>5. ASSUME NEW a \in r.allocations
      PROVE  FramesFrom(a.ptr, a.size) = PagesFrom(a.ptr, Pages(a.size))
  <2>1. PICK x, size : x = a.ptr /\ size = a.size
    OBVIOUS
  <2>2. x \in HeapPages /\ size \in Sizes
    BY <1>2, <2>1, LedgerPages
  <2>3. Aligned(x) /\ size \in 1 .. WORD - P
    BY <2>2, HeapWord, SizesAre
  <2>4. FramesFrom(x, size) = PagesFrom(x, Pages(size))
    BY <2>3, BlockFrames
  <2> QED
    BY <2>1, <2>4
<1>6. UNION {FramesFrom(a.ptr, a.size) : a \in r.allocations} = AllocPages(r)
  BY <1>5 DEF AllocPages
<1> QED
  BY <1>1, <1>4, <1>6

\* The image: a binary can be written, and of an ELF file the segments whose
\* headers say so.
LEMMA ImageWritten ==
  ASSUME NEW h, NEW t, NEW r, NEW m, Complete(h, t, r, m), NEW N, N = Segments(Image(r))
  PROVE  ImageFrames(r) = UNION {AreaPages(r, k) : k \in {j \in 1 .. N : AreaFlags(r, j) = UserWritable}}
<1>1. PICK image : image = Image(r)
  OBVIOUS
<1>2. HeapOK(h) /\ r \in Proc /\ Holds(h, t, r) /\ r.filename \in DOMAIN ImageOf
  BY CompleteParts
<1>3. /\ N \in Nat /\ r.ptr \in DOMAIN h /\ image.size \in 1 .. WORD - P
      /\ r.elf_file # NULL <=> elf_validate_loaded(image.header)
      /\ image = ImageOf[r.filename]
      /\ r.elf_file # NULL => N = Len(image.phdrs)
      /\ r.elf_file = NULL => N = 1
  BY <1>1, <1>2, HoldsParts
<1>4. CASE r.elf_file = NULL
  <2>1. AreaFlags(r, 1) = UserWritable
    BY <1>4 DEF AreaFlags
  <2>2. {j \in 1 .. N : AreaFlags(r, j) = UserWritable} = {1}
    BY <1>3, <1>4, <2>1
  <2>3. ~(1 > Segments(image))
    BY <1>1, <1>3, <1>4
  <2>4. At(r, 1) = r.ptr /\ Area(image, 1).pages = Pages(image.size)
    BY <1>1, <1>3, <1>4, <2>3 DEF At, Area
  <2>5. PICK x, size : x = r.ptr /\ size = image.size
    OBVIOUS
  <2>6. Aligned(x) /\ size \in 1 .. WORD - P
    BY <1>2, <1>3, <2>5, HeapBlocks, HeapWord
  <2>7. FramesFrom(x, size) = PagesFrom(x, Pages(size))
    BY <2>6, BlockFrames
  <2>8. ImageFrames(r) = AreaPages(r, 1)
    BY <1>1, <1>4, <2>4, <2>5, <2>7 DEF ImageFrames, AreaPages
  <2> QED
    BY <2>2, <2>8
<1>5. CASE r.elf_file # NULL
  <2>1. DOMAIN image.phdrs = 1 .. N
    BY <1>2, <1>3, <1>5, ImageIs
  <2>2. ASSUME NEW k \in 1 .. N, NEW phdr, phdr = image.phdrs[k]
        PROVE  /\ FramesFrom(r.ptr + phdr.offset, phdr.memsz) = AreaPages(r, k)
               /\ (phdr.write <=> AreaFlags(r, k) = UserWritable)
    <3>1. k \in 1 .. Len(Image(r).phdrs) /\ phdr = Image(r).phdrs[k]
      BY <1>1, <1>3, <1>5, <2>2
    <3>2. FramesFrom(r.ptr + phdr.offset, phdr.memsz) = AreaPages(r, k)
      BY <1>5, <3>1, SegmentFrames
    <3>3. k <= Segments(Image(r))
      BY <1>3
    <3>4. AreaFlags(r, k) = IF ~phdr.write THEN InitialFlags ELSE UserWritable
      BY <1>5, <3>1, <3>3 DEF AreaFlags
    <3>5. InitialFlags # UserWritable
      BY FlagValues
    <3> QED
      BY <3>2, <3>4, <3>5
  <2>3. ASSUME NEW x \in ImageFrames(r)
        PROVE  \E k \in 1 .. N : AreaFlags(r, k) = UserWritable /\ x \in AreaPages(r, k)
    <3>1. PICK i \in DOMAIN image.phdrs :
            /\ image.phdrs[i].write
            /\ x \in FramesFrom(r.ptr + image.phdrs[i].offset, image.phdrs[i].memsz)
      BY <1>1, <1>5, <2>3 DEF ImageFrames
    <3> QED
      BY <2>1, <2>2, <3>1
  <2>4. ASSUME NEW k \in 1 .. N, AreaFlags(r, k) = UserWritable, NEW x \in AreaPages(r, k)
        PROVE  x \in ImageFrames(r)
    <3>1. PICK phdr : phdr = image.phdrs[k]
      OBVIOUS
    <3>2. phdr.write /\ x \in FramesFrom(r.ptr + phdr.offset, phdr.memsz)
      BY <2>2, <2>4, <3>1
    <3>3. phdr \in {j \in {Image(r).phdrs[i] : i \in DOMAIN Image(r).phdrs} : j.write}
      BY <1>1, <2>1, <3>1, <3>2
    <3> QED
      BY <1>5, <3>2, <3>3 DEF ImageFrames
  <2> QED
    BY <2>3, <2>4
<1> QED
  BY <1>4, <1>5

LEMMA OwnIsWritten ==
  ASSUME NEW h, NEW t, NEW r, NEW m, Complete(h, t, r, m)
  PROVE  WritableOwn(r) \cup BehindFile(r) = Written(r)
<1>1. PICK N : N = Segments(Image(r))
  OBVIOUS
<1>2. PICK A : A = {j \in 1 .. N : AreaFlags(r, j) = UserWritable}
  OBVIOUS
<1>3. N \in Nat
  BY <1>1, CompleteParts
<1>4. ImageFrames(r) = UNION {AreaPages(r, k) : k \in A}
  BY <1>1, <1>2, ImageWritten
<1>5. AreaFlags(r, N + 1) = UserWritable
  <2>1. ~(N + 1 <= N)
    BY <1>3
  <2> QED
    BY <1>1, <2>1 DEF AreaFlags
<1>6. WrittenAreas(r) = A \cup {N + 1}
  <2>1. \A k : k \in 1 .. N + 1 <=> k \in 1 .. N \/ k = N + 1
    BY <1>3
  <2> QED
    BY <1>1, <1>2, <1>5, <2>1 DEF WrittenAreas
<1>7. UNION {AreaPages(r, k) : k \in WrittenAreas(r)}
        = AreaPages(r, N + 1) \cup UNION {AreaPages(r, k) : k \in A}
  BY <1>6
<1>8. WritableOwn(r) \cup BehindFile(r)
        = (FramesFrom(r.stack, OS_USER_PROGRAM_VIRTUAL_STACK_SIZE)
             \cup UNION {FramesFrom(a.ptr, a.size) : a \in r.allocations})
          \cup ImageFrames(r)
  BY DEF WritableOwn, BehindFile
<1>9. /\ FramesFrom(r.stack, OS_USER_PROGRAM_VIRTUAL_STACK_SIZE) = AreaPages(r, N + 1)
      /\ UNION {FramesFrom(a.ptr, a.size) : a \in r.allocations} = AllocPages(r)
  BY <1>1, BlocksWritten
<1> QED
  <2>1. WritableOwn(r) \cup BehindFile(r)
          = (AreaPages(r, N + 1) \cup AllocPages(r)) \cup ImageFrames(r)
    BY <1>8, <1>9
  <2>2. PICK U : U = UNION {AreaPages(r, k) : k \in A}
    OBVIOUS
  <2>3. Written(r) = AllocPages(r) \cup (AreaPages(r, N + 1) \cup U)
    BY <1>7, <2>2 DEF Written
  <2>4. ImageFrames(r) = U
    BY <1>4, <2>2
  <2> QED
    BY <2>1, <2>3, <2>4

\* Every page of its own is in a block of the process.
LEMMA OwnInBlocks ==
  ASSUME NEW h, NEW t, NEW r, NEW m, Complete(h, t, r, m), NEW x \in WritableOwn(r)
  PROVE  \E b \in Data(r) : b \in DOMAIN h \ DOMAIN t /\ x \in PagesFrom(b, h[b])
<1>1. HeapOK(h) /\ r \in Proc /\ Holds(h, t, r)
  BY CompleteParts
<1>2. Data(r) \subseteq DOMAIN h \ DOMAIN t
  BY <1>1 DEF Holds
<1>3. CASE x \in UNION {FramesFrom(a.ptr, a.size) : a \in r.allocations}
  <2>0. x \in AllocPages(r)
    BY <1>3, BlocksWritten
  <2>1. PICK a \in r.allocations : x \in PagesFrom(a.ptr, h[a.ptr])
    BY <1>1, <2>0, LedgerPages
  <2>2. a.ptr \in Data(r)
    BY DEF Data
  <2> QED
    BY <1>2, <2>1, <2>2
<1>4. ASSUME NEW b \in {r.ptr, r.stack}, NEW size \in 1 .. WORD - P, h[b] = Pages(size),
             x \in FramesFrom(b, size)
      PROVE  b \in Data(r) /\ x \in PagesFrom(b, h[b])
  <2>1. b \in Data(r)
    BY <1>4 DEF Data, Fixed
  <2>2. Aligned(b)
    BY <1>1, <1>2, <2>1, HeapBlocks, HeapWord
  <2> QED
    BY <1>4, <2>1, <2>2, BlockFrames
<1>5. PICK image : image = Image(r)
  OBVIOUS
<1>6. /\ h[r.ptr] = Pages(image.size) /\ image.size \in 1 .. WORD - P
      /\ h[r.stack] = Pages(OS_USER_PROGRAM_VIRTUAL_STACK_SIZE)
      /\ OS_USER_PROGRAM_VIRTUAL_STACK_SIZE \in 1 .. WORD - P
  BY <1>1, <1>5, HoldsParts
<1>7. CASE x \in FramesFrom(r.stack, OS_USER_PROGRAM_VIRTUAL_STACK_SIZE)
  BY <1>2, <1>4, <1>6, <1>7
<1>8. CASE x \in FileFrames(r)
  BY <1>2, <1>4, <1>5, <1>6, <1>8 DEF FileFrames
<1> QED
  BY <1>3, <1>7, <1>8 DEF WritableOwn

LEMMA CompleteNow ==
  ASSUME IInv, pc = "user", NEW p \in Live, NEW r, r = process[p], NEW m, m = Map(p)
  PROVE  Complete(heap, table, r, m)
<1>1. /\ HeapOK(heap) /\ process[p] \in Proc /\ Holds(heap, table, process[p])
  <2>1. OwnedIn(heap, table, process) /\ Live = LiveIn(process)
    BY StateIs DEF IInv, Owned
  <2> QED
    BY <2>1, OwnedParts
<1>2. Done(p) = Segments(Image(r)) + 1
  BY DoneIs
<1>3. AreasMapped(process[p], Map(p), Done(p)) /\ HeapMapped(process[p], Map(p))
  BY MappedNow
<1> QED
  BY <1>1, <1>2, <1>3 DEF Complete, Placed

\* When a program runs, every program that is loaded can write its stack, what
\* malloc gave it and the writable part of its image, all of that, which is no
\* other program's and no page table.  Beyond it, it can write what lies next
\* to its file up to the end of its blank data, where that is longer than the
\* file's last block, and nothing else: what process_free took back and what
\* copy_string_from_task mapped for a moment is out of its reach.
THEOREM OwnMemory == Spec => []WritableIsOwn
<1>1. IInv => WritableIsOwn
  <2> SUFFICES ASSUME IInv, pc = "user", NEW p \in Live
               PROVE  /\ Writable(p) = WritableOwn(process[p]) \cup BehindFile(process[p])
                      /\ \A q \in Live \ {p} :
                           WritableOwn(process[p]) \cap WritableOwn(process[q]) = {}
                      /\ WritableOwn(process[p]) \cap DOMAIN table = {}
    BY DEF WritableIsOwn
  <2>1. ASSUME NEW q \in Live
        PROVE  /\ Complete(heap, table, process[q], Map(q))
               /\ Writable(q) = WritableOwn(process[q]) \cup BehindFile(process[q])
    <3>1. PICK r, m : r = process[q] /\ m = Map(q)
      OBVIOUS
    <3>2. Complete(heap, table, r, m)
      BY <3>1, CompleteNow
    <3>3. AllowedFrames(m) = Written(r) /\ WritableOwn(r) \cup BehindFile(r) = Written(r)
      BY <3>2, AllowedIs, OwnIsWritten
    <3>4. Writable(q) = AllowedFrames(m)
      BY <3>1 DEF Writable, AllowedFrames, Allows
    <3> QED
      BY <3>1, <3>2, <3>3, <3>4
  <2>2. ASSUME NEW q \in Live, NEW x \in WritableOwn(process[q])
        PROVE  \E b \in Data(process[q]) : /\ b \in DOMAIN heap \ DOMAIN table
                                           /\ x \in PagesFrom(b, heap[b])
    <3>1. PICK r, m : r = process[q] /\ m = Map(q)
      OBVIOUS
    <3>2. Complete(heap, table, r, m) /\ x \in WritableOwn(r)
      BY <2>1, <2>2, <3>1
    <3>3. \E b \in Data(r) : b \in DOMAIN heap \ DOMAIN table /\ x \in PagesFrom(b, heap[b])
      BY <3>2, OwnInBlocks
    <3> QED
      BY <3>1, <3>3
  <2>3. OwnedIn(heap, table, process) /\ Live = LiveIn(process)
    BY StateIs DEF IInv, Owned
  <2>4. /\ HeapOK(heap) /\ DOMAIN table \subseteq DOMAIN heap
        /\ \A q \in Live \ {p} : Data(process[p]) \cap Data(process[q]) = {}
    BY <2>3, OwnedParts
  <2>5. ASSUME NEW q \in Live \ {p}, NEW x \in WritableOwn(process[p]),
             x \in WritableOwn(process[q])
        PROVE  FALSE
    <3>1. PICK b \in Data(process[p]) : b \in DOMAIN heap /\ x \in PagesFrom(b, heap[b])
      BY <2>2, <2>5
    <3>2. PICK c \in Data(process[q]) : c \in DOMAIN heap /\ x \in PagesFrom(c, heap[c])
      BY <2>2, <2>5
    <3>3. b # c
      BY <2>4, <2>5, <3>1, <3>2
    <3>4. PagesFrom(b, heap[b]) \cap PagesFrom(c, heap[c]) = {}
      BY <2>4, <3>1, <3>2, <3>3, BlocksApart
    <3> QED
      BY <3>1, <3>2, <3>4
  <2>6. ASSUME NEW x \in WritableOwn(process[p]), x \in DOMAIN table PROVE FALSE
    <3>1. PICK b \in Data(process[p]) : b \in DOMAIN heap \ DOMAIN table /\ x \in PagesFrom(b, heap[b])
      BY <2>2, <2>6
    <3>2. b # x /\ b \in DOMAIN heap /\ x \in DOMAIN heap
      BY <2>4, <2>6, <3>1
    <3>3. x \notin PagesFrom(b, heap[b])
      BY <2>4, <3>2, BlocksApart
    <3> QED
      BY <3>1, <3>3
  <2> QED
    BY <2>1, <2>5, <2>6
<1> QED
  BY <1>1, Inductive, PTL

------------------------------------------------------------------------------
(* What a program finds of its file. *)

\* Byte j of an area is byte j of the memory behind it.
LEMMA ByteOfArea ==
  ASSUME NEW h, NEW t, NEW r, NEW m, Placed(h, t, r, m), NEW image, image = Image(r),
         NEW k \in 1 .. Segments(image) + 1, NEW area, area = Area(image, k),
         NEW a, a = At(r, k), NEW j \in Nat, j < area.pages * P,
         NEW v, v = area.first + j, NEW g, g = paging_align_to_lower_page(v)
  PROVE  /\ g \in Page /\ Frame(m[g]) + (v - g) = a + j
         /\ Has(m[g], PAGING_IS_PRESENT) /\ Has(m[g], PAGING_ACCESS_FROM_ALL)
         /\ (Has(m[g], PAGING_IS_WRITEABLE) <=> AreaFlags(r, k) = UserWritable)
<1>1. HeapOK(h) /\ r \in Proc /\ Holds(h, t, r) /\ r.filename \in DOMAIN ImageOf
  BY PlacedParts
<1>2. image = ImageOf[r.filename]
  BY DEF Image
<1>3. PICK n, s, f : n = area.pages /\ s = n * P /\ f = area.first
  OBVIOUS
<1>4. /\ Aligned(f) /\ f \in Nat /\ n \in Nat /\ s \in Nat
      /\ PagesFrom(f, n) \subseteq Page
  BY <1>1, <1>2, <1>3, AreaIs
<1>5. v \in Nat /\ v = f + j /\ j < s
  BY <1>3, <1>4
<1>6. Aligned(g) /\ g \in Nat /\ g <= v /\ v < g + P
  BY <1>5, AlignLower DEF Aligned
<1>7. g < f => g + P <= f
  BY <1>4, <1>6, AlignedArithmetic
<1>8. f <= g /\ g < f + s
  BY <1>4, <1>5, <1>6, <1>7, Constants
<1>9. g \in PagesFrom(f, n)
  BY <1>3, <1>4, <1>6, <1>8, PagesFromIs
<1>10. g \in Page /\ In(r, k, g)
  BY <1>1, <1>3, <1>4, <1>9, InIs
<1>11. PICK x : x = a + (g - f)
  OBVIOUS
<1>12. /\ Aligned(x) /\ m[g] = x + AreaFlags(r, k)
       /\ AreaFlags(r, k) \in {InitialFlags, UserWritable}
  <2>1. x = At(r, k) + (g - Area(Image(r), k).first)
    BY <1>3, <1>11
  <2>2. k \in 1 .. Segments(Image(r)) + 1
    OBVIOUS
  <2> QED
    BY <1>10, <2>1, <2>2, AreaEntry
<1>13. CanMap(area.first, a, area.pages)
  BY <1>1, AreaMemory
<1>14. a \in Nat
  BY <1>13 DEF CanMap, Aligned
<1>15. x + (v - g) = a + j
  BY <1>4, <1>5, <1>6, <1>11, <1>14
<1>16. InitialFlags # UserWritable
  BY FlagValues
<1> QED
  BY <1>10, <1>12, <1>15, <1>16, EntryIs

\* What SeesOwnImage says of a byte.
Seen(m, b) ==
  LET g == paging_align_to_lower_page(b.v)
  IN  /\ g \in Page /\ Frame(m[g]) + (b.v - g) = b.at
      /\ Has(m[g], PAGING_IS_PRESENT) /\ Has(m[g], PAGING_ACCESS_FROM_ALL)
      /\ (Has(m[g], PAGING_IS_WRITEABLE) <=> b.write)

ByteOf(r, phdr, i) ==
  [v |-> phdr.vaddr + i, at |-> r.ptr + phdr.offset + i, write |-> phdr.write,
   file |-> i < phdr.filesz]

LEMMA ImageBytesAre ==
  ASSUME NEW h, NEW t, NEW r, NEW m, Placed(h, t, r, m), r.elf_file # NULL,
         NEW image, image = Image(r)
  PROVE  /\ \A b \in ImageBytes(r) : \E k \in Loaded(image.phdrs, Len(image.phdrs)) :
              \E i \in 0 .. image.phdrs[k].memsz - 1 : b = ByteOf(r, image.phdrs[k], i)
         /\ \A k \in Loaded(image.phdrs, Len(image.phdrs)) :
              \A i \in 0 .. image.phdrs[k].memsz - 1 :
                ByteOf(r, image.phdrs[k], i) \in ImageBytes(r)
<1>1. HeapOK(h) /\ r \in Proc /\ Holds(h, t, r) /\ r.filename \in DOMAIN ImageOf
  BY PlacedParts
<1>2. image = ImageOf[r.filename]
  BY DEF Image
<1>3. DOMAIN image.phdrs = 1 .. Len(image.phdrs)
  BY <1>1, <1>2, ImageIs
<1>4. ImageBytes(r) = UNION {{ByteOf(r, p, i) : i \in 0 .. p.memsz - 1} :
                               p \in {q \in {image.phdrs[k] : k \in 1 .. Len(image.phdrs)} :
                                        q.type = "PT_LOAD"}}
  BY <1>3 DEF ImageBytes, ByteOf
<1>5. {q \in {image.phdrs[k] : k \in 1 .. Len(image.phdrs)} : q.type = "PT_LOAD"} =
        {image.phdrs[k] : k \in Loaded(image.phdrs, Len(image.phdrs))}
  BY DEF Loaded
<1> QED
  BY <1>4, <1>5

\* A byte of a segment.
LEMMA SegmentByte ==
  ASSUME NEW h, NEW t, NEW r, NEW m, Placed(h, t, r, m), r.elf_file # NULL,
         NEW image, image = Image(r), NEW k \in 1 .. Len(image.phdrs),
         NEW phdr, phdr = image.phdrs[k], NEW i \in 0 .. phdr.memsz - 1,
         NEW b, b = ByteOf(r, phdr, i)
  PROVE  Seen(m, b)
<1>1. HeapOK(h) /\ r \in Proc /\ Holds(h, t, r) /\ r.filename \in DOMAIN ImageOf
  BY PlacedParts
<1>2. /\ image = ImageOf[r.filename] /\ Segments(image) = Len(image.phdrs)
      /\ elf_validate_loaded(image.header) /\ r.ptr \in DOMAIN h /\ Segments(image) \in Nat
  BY <1>1, HoldsParts
<1>3. PICK o, u, n : SegmentAt(image, k, phdr, o, u, n)
  BY DEF SegmentAt
<1>4. Segment(phdr, o, u, n)
  BY <1>1, <1>2, <1>3, SegmentIs
<1>5. PICK f, y, z, s, x, q : /\ f = phdr.offset /\ y = phdr.vaddr
                           /\ z = phdr.memsz /\ s = n * P /\ x = r.ptr
                           /\ q = paging_align_to_lower_page(y)
  OBVIOUS
<1>6. /\ f \in Nat /\ y \in Nat /\ z \in Nat /\ s \in Nat /\ o \in Nat /\ u \in Nat
      /\ o <= f /\ f + z <= u /\ u = o + s /\ y - q = f - o
  BY <1>4, <1>5 DEF Segment, Aligned
<1>7. Aligned(q) /\ q \in Nat
  BY <1>5, <1>6, AlignLower DEF Aligned
<1>8. x \in HeapPages
  BY <1>1, <1>2, <1>5, HeapBlocks
<1>9. x \in Nat
  BY <1>8, HeapWord
<1>10. ~(k > Segments(image)) /\ k \in 1 .. Segments(image) + 1 /\ k <= Segments(image)
  BY <1>2
<1>11. PICK area : area = Area(image, k)
  OBVIOUS
<1>12. area.first = q /\ area.pages = n
  BY <1>2, <1>3, <1>5, <1>10, <1>11 DEF Area, SegmentAt, P
<1>13. PICK a, j, v : a = At(r, k) /\ j = (f - o) + i /\ v = y + i
  OBVIOUS
<1>14. a = x + o
  BY <1>3, <1>5, <1>10, <1>13 DEF At, SegmentAt
<1>15. i \in Nat /\ i < z
  BY <1>5, <1>6
<1>16. j \in Nat /\ j < s /\ v = q + j /\ a + j = x + f + i
  BY <1>6, <1>7, <1>9, <1>13, <1>14, <1>15
<1>17. PICK g : g = paging_align_to_lower_page(v)
  OBVIOUS
<1>18. /\ g \in Page /\ Frame(m[g]) + (v - g) = a + j
       /\ Has(m[g], PAGING_IS_PRESENT) /\ Has(m[g], PAGING_ACCESS_FROM_ALL)
       /\ (Has(m[g], PAGING_IS_WRITEABLE) <=> AreaFlags(r, k) = UserWritable)
  <2>1. j < area.pages * P /\ v = area.first + j
    BY <1>5, <1>12, <1>16
  <2> QED
    BY <1>10, <1>11, <1>13, <1>16, <1>17, <2>1, ByteOfArea
<1>19. AreaFlags(r, k) = IF ~phdr.write THEN InitialFlags ELSE UserWritable
  BY <1>10 DEF AreaFlags
<1>20. InitialFlags # UserWritable
  BY FlagValues
<1>21. b.v = v /\ b.at = a + j /\ b.write = phdr.write
  BY <1>5, <1>13, <1>16 DEF ByteOf
<1> QED
  BY <1>17, <1>18, <1>19, <1>20, <1>21 DEF Seen

LEMMA BytesSeen ==
  ASSUME NEW h, NEW t, NEW r, NEW m, Placed(h, t, r, m), NEW b \in ImageBytes(r)
  PROVE  Seen(m, b)
<1>1. PICK image : image = Image(r)
  OBVIOUS
<1>2. HeapOK(h) /\ r \in Proc /\ Holds(h, t, r) /\ r.filename \in DOMAIN ImageOf
  BY PlacedParts
<1>3. CASE r.elf_file # NULL
  <2>1. PICK k \in Loaded(image.phdrs, Len(image.phdrs)) :
          \E i \in 0 .. image.phdrs[k].memsz - 1 : b = ByteOf(r, image.phdrs[k], i)
    BY <1>1, <1>3, ImageBytesAre
  <2>2. PICK phdr : phdr = image.phdrs[k]
    OBVIOUS
  <2>3. PICK i \in 0 .. phdr.memsz - 1 : b = ByteOf(r, phdr, i)
    BY <2>1, <2>2
  <2>4. k \in 1 .. Len(image.phdrs)
    BY DEF Loaded
  <2> QED
    BY <1>1, <1>3, <2>2, <2>3, <2>4, SegmentByte
<1>4. CASE r.elf_file = NULL
  <2>1. /\ image = ImageOf[r.filename] /\ Segments(image) = 1
        /\ ~elf_validate_loaded(image.header) /\ r.ptr \in DOMAIN h
        /\ image.size \in 1 .. WORD - P
    BY <1>1, <1>2, <1>4, HoldsParts
  <2>2. PICK i \in 0 .. image.size - 1 :
          b = [v |-> OS_PROGRAM_VIRTUAL_ADDRESS + i, at |-> r.ptr + i, write |-> TRUE,
               file |-> TRUE]
    BY <1>1, <1>4 DEF ImageBytes
  <2>3. PICK area, a, v : /\ area = Area(image, 1) /\ a = At(r, 1)
                          /\ v = OS_PROGRAM_VIRTUAL_ADDRESS + i
    OBVIOUS
  <2>4. ~(1 > Segments(image)) /\ 1 \in 1 .. Segments(image) + 1
    BY <2>1
  <2>5. area.first = OS_PROGRAM_VIRTUAL_ADDRESS /\ area.pages = Pages(image.size) /\ a = r.ptr
    BY <1>1, <1>4, <2>1, <2>3, <2>4 DEF Area, At
  <2>6. PICK n, size : n = area.pages /\ size = image.size
    OBVIOUS
  <2>7. size <= n * P /\ n \in Nat
    BY <2>1, <2>5, <2>6, SizeInPages
  <2>8. i \in Nat /\ i < size /\ size \in Nat
    BY <2>1, <2>6
  <2>9. n * P \in Nat
    BY <2>7, Constants
  <2>10. i < n * P
    BY <2>7, <2>8, <2>9
  <2>11. i < area.pages * P /\ v = area.first + i
    BY <2>3, <2>5, <2>6, <2>10
  <2>12. PICK g : g = paging_align_to_lower_page(v)
    OBVIOUS
  <2>13. /\ g \in Page /\ Frame(m[g]) + (v - g) = a + i
         /\ Has(m[g], PAGING_IS_PRESENT) /\ Has(m[g], PAGING_ACCESS_FROM_ALL)
         /\ (Has(m[g], PAGING_IS_WRITEABLE) <=> AreaFlags(r, 1) = UserWritable)
    BY <1>1, <2>3, <2>4, <2>8, <2>11, <2>12, ByteOfArea
  <2>14. AreaFlags(r, 1) = UserWritable
    BY <1>4 DEF AreaFlags
  <2>15. b.v = v /\ b.at = a + i /\ b.write = TRUE
    BY <2>2, <2>3, <2>5
  <2> QED
    BY <2>12, <2>13, <2>14, <2>15 DEF Seen
<1> QED
  BY <1>3, <1>4

\* The entry point of an ELF file is in one of its segments.
LEMMA EntryByte ==
  ASSUME NEW name \in DOMAIN ImageOf, NEW image, image = ImageOf[name],
         elf_validate_loaded(image.header)
  PROVE  \E k \in Loaded(image.phdrs, Len(image.phdrs)) :
           \E i \in 0 .. image.phdrs[k].memsz - 1 :
             i < image.phdrs[k].filesz /\ image.phdrs[k].vaddr + i = image.header.entry
<1>1. PICK k \in DOMAIN image.phdrs :
        image.header.entry \in image.phdrs[k].vaddr .. image.phdrs[k].vaddr + image.phdrs[k].filesz - 1
  BY ImageAssumption
<1>2. k \in 1 .. Len(image.phdrs)
  BY ImageIs
<1>3. PICK phdr : phdr = image.phdrs[k]
  OBVIOUS
<1>4. /\ phdr \in ProgramHeader /\ phdr.filesz <= phdr.memsz
      /\ phdr.filesz > 0 => phdr.type = "PT_LOAD"
  BY <1>2, <1>3, HeaderIs
<1>5. PICK y, c, z, e : /\ y = phdr.vaddr /\ c = phdr.filesz /\ z = phdr.memsz
                        /\ e = image.header.entry
  OBVIOUS
<1>6. y \in Nat /\ c \in Nat /\ z \in Nat /\ c <= z /\ e \in y .. y + c - 1
  BY <1>1, <1>3, <1>4, <1>5 DEF ProgramHeader
<1>7. PICK i : i = e - y
  OBVIOUS
<1>8. i \in 0 .. z - 1 /\ i < c /\ y + i = e /\ c > 0
  BY <1>6, <1>7
<1>9. k \in Loaded(image.phdrs, Len(image.phdrs))
  BY <1>2, <1>3, <1>4, <1>5, <1>8 DEF Loaded
<1>10. /\ i \in 0 .. image.phdrs[k].memsz - 1 /\ i < image.phdrs[k].filesz
       /\ image.phdrs[k].vaddr + i = image.header.entry
  BY <1>3, <1>5, <1>8
<1> QED
  BY <1>9, <1>10

LEMMA StartsInside ==
  ASSUME NEW h, NEW t, NEW r, NEW m, Placed(h, t, r, m)
  PROVE  \E b \in ImageBytes(r) : b.file /\ b.v = r.ip
<1>1. PICK image : image = Image(r)
  OBVIOUS
<1>2. HeapOK(h) /\ r \in Proc /\ Holds(h, t, r) /\ r.filename \in DOMAIN ImageOf
  BY PlacedParts
<1>3. /\ image = ImageOf[r.filename] /\ image.size \in 1 .. WORD - P
      /\ r.elf_file # NULL <=> elf_validate_loaded(image.header)
      /\ r.elf_file = NULL => Segments(image) = 1
  BY <1>1, <1>2, HoldsParts
<1>4. r.ip = IF r.elf_file # NULL THEN image.header.entry ELSE OS_PROGRAM_VIRTUAL_ADDRESS
  BY <1>1, <1>2 DEF Holds, Described
<1>5. CASE r.elf_file # NULL
  <2>1. PICK k \in Loaded(image.phdrs, Len(image.phdrs)) :
          \E i \in 0 .. image.phdrs[k].memsz - 1 :
            i < image.phdrs[k].filesz /\ image.phdrs[k].vaddr + i = image.header.entry
    BY <1>2, <1>3, <1>5, EntryByte
  <2>2. PICK i \in 0 .. image.phdrs[k].memsz - 1 :
          i < image.phdrs[k].filesz /\ image.phdrs[k].vaddr + i = image.header.entry
    BY <2>1
  <2>3. PICK b : b = ByteOf(r, image.phdrs[k], i)
    OBVIOUS
  <2>4. b \in ImageBytes(r)
    BY <1>1, <1>5, <2>3, ImageBytesAre
  <2>5. b.file /\ b.v = r.ip
    BY <1>4, <1>5, <2>2, <2>3 DEF ByteOf
  <2> QED
    BY <2>4, <2>5
<1>6. CASE r.elf_file = NULL
  <2>1. ~(1 > Segments(image)) /\ 1 \in 1 .. Segments(image) + 1
    BY <1>3, <1>6
  <2>2. PICK area : area = Area(image, 1)
    OBVIOUS
  <2>3. area.first = OS_PROGRAM_VIRTUAL_ADDRESS
    BY <1>3, <1>6, <2>1, <2>2 DEF Area
  <2>4. area.first \in Nat
    BY <1>2, <1>3, <2>1, <2>2, AreaIs
  <2>5. PICK b : b = [v |-> OS_PROGRAM_VIRTUAL_ADDRESS + 0, at |-> r.ptr + 0,
                      write |-> TRUE, file |-> TRUE]
    OBVIOUS
  <2>6. b.file /\ b.v = r.ip
    BY <1>4, <1>6, <2>3, <2>4, <2>5
  <2>7. 0 \in 0 .. image.size - 1
    BY <1>3
  <2>8. b \in ImageBytes(r)
    BY <1>1, <1>6, <2>5, <2>7 DEF ImageBytes
  <2> QED
    BY <2>6, <2>8
<1> QED
  BY <1>5, <1>6

\* Base and end of the span.
SpanOf(s, B) ==
  /\ \A b \in B : s.virtual_base <= b.v /\ (b.file => b.v < s.virtual_end)
  /\ \E b \in B : b.v = s.virtual_base /\ b.at = s.physical_base
  /\ \E b \in B : LET n == IF b.file THEN 1 ELSE 0
                 IN  b.v + n = s.virtual_end /\ b.at + n = s.physical_end

LEMMA SpanOfFile ==
  ASSUME NEW h, NEW t, NEW r, NEW m, Placed(h, t, r, m), r.elf_file # NULL,
         NEW s, s = r.span, NEW B, B = ImageBytes(r)
  PROVE  SpanOf(s, B)
<1>1. PICK image : image = Image(r)
  OBVIOUS
<1>2. HeapOK(h) /\ r \in Proc /\ Holds(h, t, r) /\ r.filename \in DOMAIN ImageOf
  BY PlacedParts
<1>3. /\ image = ImageOf[r.filename] /\ elf_validate_loaded(image.header) /\ r.ptr \in DOMAIN h
  BY <1>1, <1>2, HoldsParts
<1>4. PICK phdrs, N, mem : phdrs = image.phdrs /\ N = Len(phdrs) /\ mem = r.ptr
  OBVIOUS
<1>5. N \in Nat /\ Len(phdrs) = N /\ Loadable(phdrs, N)
  BY <1>2, <1>3, <1>4, ImageIs
<1>6. mem \in Nat
  BY <1>2, <1>3, <1>4, HeapBlocks, HeapWord
<1>7. s = elf_process_pheaders(mem, phdrs)
  BY <1>1, <1>2, <1>4 DEF Holds, Described
<1>8. Spanned(s, mem, phdrs, N)
  BY <1>5, <1>6, <1>7, SpanIs
<1>9. s \in Span /\ \A k \in Loaded(phdrs, N) : Around(s, phdrs[k])
  BY <1>8 DEF Spanned
<1>10. /\ s.virtual_base \in Nat /\ s.virtual_end \in Nat
       /\ s.physical_base \in Nat /\ s.physical_end \in Nat
  BY <1>9 DEF Span
<1>11. ASSUME NEW k \in Loaded(phdrs, N)
       PROVE  /\ phdrs[k].vaddr \in Nat /\ phdrs[k].offset \in Nat
              /\ phdrs[k].filesz \in Nat /\ phdrs[k].memsz \in Nat
              /\ phdrs[k].filesz <= phdrs[k].memsz /\ phdrs[k].memsz > 0
  <2>1. PICK phdr : phdr = phdrs[k]
    OBVIOUS
  <2>2. k \in 1 .. Len(image.phdrs) /\ phdr = image.phdrs[k] /\ phdr.type = "PT_LOAD"
    BY <1>4, <2>1 DEF Loaded
  <2>3. /\ phdr \in ProgramHeader /\ phdr.filesz <= phdr.memsz
        /\ phdr.type = "PT_LOAD" => phdr.memsz > 0
    BY <1>2, <1>3, <2>2, HeaderIs
  <2> QED
    BY <2>1, <2>2, <2>3 DEF ProgramHeader
<1>12. ASSUME NEW k \in Loaded(phdrs, N), NEW i \in 0 .. phdrs[k].memsz - 1
       PROVE  ByteOf(r, phdrs[k], i) \in B
  BY <1>1, <1>4, ImageBytesAre
<1>13. ASSUME NEW b \in B
       PROVE  s.virtual_base <= b.v /\ (b.file => b.v < s.virtual_end)
  <2>1. PICK k \in Loaded(phdrs, N) :
          \E i \in 0 .. phdrs[k].memsz - 1 : b = ByteOf(r, phdrs[k], i)
    BY <1>1, <1>4, ImageBytesAre
  <2>2. PICK i \in 0 .. phdrs[k].memsz - 1 : b = ByteOf(r, phdrs[k], i)
    BY <2>1
  <2>3. PICK y, c, z : y = phdrs[k].vaddr /\ c = phdrs[k].filesz /\ z = phdrs[k].memsz
    OBVIOUS
  <2>4. y \in Nat /\ c \in Nat /\ z \in Nat
    BY <1>11, <2>3
  <2>5. i \in Nat
    BY <2>2, <2>3, <2>4
  <2>6. s.virtual_base <= y /\ y + c <= s.virtual_end
    BY <1>9, <2>3 DEF Around
  <2>7. b.v = y + i /\ (b.file <=> i < c)
    BY <2>2, <2>3 DEF ByteOf
  <2> QED
    BY <1>10, <2>4, <2>5, <2>6, <2>7
<1>14. Loaded(phdrs, N) # {}
  BY <1>2, <1>3, <1>4, EntryByte
<1>15. \E b \in B : b.v = s.virtual_base /\ b.at = s.physical_base
  <2>1. PICK k \in Loaded(phdrs, N) : Low(s, mem, phdrs[k])
    BY <1>8, <1>14 DEF Spanned
  <2>2. PICK y, f, z, b : /\ y = phdrs[k].vaddr /\ f = phdrs[k].offset
                          /\ z = phdrs[k].memsz /\ b = ByteOf(r, phdrs[k], 0)
    OBVIOUS
  <2>3. y \in Nat /\ f \in Nat /\ z \in Nat /\ z > 0
    BY <1>11, <2>2
  <2>4. b \in B
    <3>1. 0 \in 0 .. z - 1
      BY <2>3
    <3> QED
      BY <1>12, <2>2, <3>1
  <2>5. b.v = y + 0 /\ b.at = mem + f + 0
    BY <1>4, <2>2 DEF ByteOf
  <2>6. s.virtual_base = y /\ s.physical_base = mem + f
    BY <2>1, <2>2 DEF Low
  <2>7. y + 0 = y /\ mem + f + 0 = mem + f
    BY <1>6, <2>3
  <2> QED
    BY <2>4, <2>5, <2>6, <2>7
<1>16. \E b \in B : LET n == IF b.file THEN 1 ELSE 0
                   IN  b.v + n = s.virtual_end /\ b.at + n = s.physical_end
  <2>1. PICK k \in Loaded(phdrs, N) : High(s, mem, phdrs[k])
    BY <1>8, <1>14 DEF Spanned
  <2>2. PICK y, f, c, z : /\ y = phdrs[k].vaddr /\ f = phdrs[k].offset
                          /\ c = phdrs[k].filesz /\ z = phdrs[k].memsz
    OBVIOUS
  <2>3. y \in Nat /\ f \in Nat /\ c \in Nat /\ z \in Nat /\ c <= z /\ z > 0
    BY <1>11, <2>2
  <2>4. s.virtual_end = y + c /\ s.physical_end = mem + f + c
    BY <2>1, <2>2 DEF High
  \* The last byte of the file, or the first one of a segment without such.
  <2>5. PICK i : i = IF c > 0 THEN c - 1 ELSE 0
    OBVIOUS
  <2>6. PICK n : n = IF c > 0 THEN 1 ELSE 0
    OBVIOUS
  <2>7. i \in 0 .. z - 1 /\ (i < c <=> c > 0)
    BY <2>3, <2>5
  <2>8. y + i + n = y + c /\ mem + f + i + n = mem + f + c
    BY <1>6, <2>3, <2>5, <2>6
  <2>9. PICK b : b = ByteOf(r, phdrs[k], i)
    OBVIOUS
  <2>10. b \in B
    BY <1>12, <2>2, <2>7, <2>9
  <2>11. b.v = y + i /\ b.at = mem + f + i /\ b.file = (i < c)
    BY <1>4, <2>2, <2>9 DEF ByteOf
  <2>12. n = IF b.file THEN 1 ELSE 0
    BY <2>6, <2>7, <2>11
  <2> QED
    BY <2>4, <2>8, <2>10, <2>11, <2>12
<1> QED
  BY <1>13, <1>15, <1>16 DEF SpanOf

LEMMA PlacedNow ==
  ASSUME IInv, NEW p \in Live, next.p # p, NEW r, r = process[p], NEW m, m = Map(p)
  PROVE  Placed(heap, table, r, m)
<1>1. HeapOK(heap) /\ process[p] \in Proc /\ Holds(heap, table, process[p])
  BY ProcessParts
<1>2. Done(p) = Segments(Image(r)) + 1
  BY DEF Done
<1>3. AreasMapped(process[p], Map(p), Done(p))
  BY DEF IInv, Mapped, MappedFor
<1> QED
  BY <1>1, <1>2, <1>3 DEF Placed

\* From the end of process_map_memory to process_terminate a program finds
\* every byte of its segments where it was linked for it, readable, and writable
\* as its header says, in the memory elf_load or process_load_binary read the
\* file into; the entry point is one of the file's bytes, and the struct
\* elf_file has where they begin and end.
THEOREM OwnImage == Spec => []SeesOwnImage
<1>1. IInv => SeesOwnImage
  <2> SUFFICES ASSUME IInv, NEW p \in Live, next.p # p, NEW r, r = process[p],
                      NEW m, m = Map(p)
      PROVE  /\ \A b \in ImageBytes(r) :
                  /\ paging_get_physical_address(table, r.directory, b.v) = b.at
                  /\ Has(m[paging_align_to_lower_page(b.v)], PAGING_IS_PRESENT)
                  /\ Has(m[paging_align_to_lower_page(b.v)], PAGING_ACCESS_FROM_ALL)
                  /\ (Has(m[paging_align_to_lower_page(b.v)], PAGING_IS_WRITEABLE) <=> b.write)
             /\ \E b \in ImageBytes(r) : b.file /\ b.v = r.ip
             /\ r.elf_file # NULL => SpanOf(r.span, ImageBytes(r))
    BY DEF SeesOwnImage, Ready, SpanOf
  <2>1. Placed(heap, table, r, m)
    BY PlacedNow
  <2>2. m = Translation(table, r.directory)
    BY DEF Map
  <2>3. ASSUME NEW b \in ImageBytes(r), NEW g, g = paging_align_to_lower_page(b.v)
        PROVE  /\ paging_get_physical_address(table, r.directory, b.v) = b.at
               /\ Has(m[g], PAGING_IS_PRESENT) /\ Has(m[g], PAGING_ACCESS_FROM_ALL)
               /\ (Has(m[g], PAGING_IS_WRITEABLE) <=> b.write)
    <3>1. Seen(m, b)
      BY <2>1, BytesSeen
    <3>2. /\ g \in Page /\ Frame(m[g]) + (b.v - g) = b.at
          /\ Has(m[g], PAGING_IS_PRESENT) /\ Has(m[g], PAGING_ACCESS_FROM_ALL)
          /\ (Has(m[g], PAGING_IS_WRITEABLE) <=> b.write)
      BY <2>3, <3>1 DEF Seen
    <3>3. m[g] = paging_get(table, r.directory, g)
      BY <2>2, <3>2 DEF Translation
    <3> QED
      BY <2>3, <3>2, <3>3 DEF paging_get_physical_address
  <2>4. \E b \in ImageBytes(r) : b.file /\ b.v = r.ip
    BY <2>1, StartsInside
  <2>5. r.elf_file # NULL => SpanOf(r.span, ImageBytes(r))
    BY <2>1, SpanOfFile
  <2> QED
    BY <2>3, <2>4, <2>5
<1> QED
  BY <1>1, Inductive, PTL
==============================================================================
