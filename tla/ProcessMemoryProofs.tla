------------------------- MODULE ProcessMemoryProofs --------------------------
(***************************************************************************)
(* Proofs about the memory of processes, for any heap, any number of       *)
(* processes and of allocations and any sizes.                             *)
(***************************************************************************)
EXTENDS ProcessMemory, TLAPS, NaturalsInduction, WellFoundedInduction

------------------------------------------------------------------------------
(* The heap: a table and the allocations it stands for. *)

Item == [ptr : 1 .. TABLE_TOTAL, size : Nat \ {0}]

Of(a) == Range(a.ptr, a.size)

Flags(a, i) ==
  {"TAKEN"} \cup (IF i + 1 = a.ptr THEN {"IS_FIRST"} ELSE {})
            \cup (IF i + 1 # a.ptr + a.size - 1 THEN {"HAS_NEXT"} ELSE {})

\* The table e has the allocations L and no other; they share no block.  One
\* may reach past the end of the table.
Describes(e, L) ==
  /\ e \in [0 .. TABLE_TOTAL - 1 -> Heap!Entry]
  /\ L \subseteq Item
  /\ \A a, b \in L : a # b => Of(a) \cap Of(b) = {}
  /\ \A a \in L : \A i \in 0 .. TABLE_TOTAL - 1 : i + 1 \in Of(a) => e[i] = Flags(a, i)
  /\ \A i \in 0 .. TABLE_TOTAL - 1 : (\A a \in L : i + 1 \notin Of(a)) => e[i] = {}

LEMMA LeastExists ==
  ASSUME NEW S \in SUBSET Nat, S # {}
  PROVE  \E x \in S : \A y \in S : x <= y
<1> DEFINE R == OpToRel(<, Nat)
<1>1. \A y, z \in Nat : y < z => <<y, z>> \in R
  BY SMT DEF OpToRel
<1> HIDE DEF R
<1>2. IsWellFoundedOn(R, Nat)
  BY NatLessThanWellFounded DEF R
<1>3. PICK x \in S : \A y \in S : ~(<<y, x>> \in R)
  BY <1>2, WFMin
<1>4. \A y \in S : x <= y
  <2> SUFFICES ASSUME NEW y \in S PROVE ~(y < x)
    OBVIOUS
  <2>1. x \in Nat /\ y \in Nat
    OBVIOUS
  <2> QED
    BY <1>1, <1>3, <2>1
<1> QED
  BY <1>4

\* heap_get_start_block offers free blocks, or fails.
LEMMA StartBlock ==
  ASSUME NEW e, NEW n \in Nat \ {0}, NEW s, s = Heap!heap_get_start_block(e, n)
  PROVE  /\ s \in Int
         /\ s >= 0 => /\ s \in 0 .. TABLE_TOTAL - 1
                      /\ \A i \in s .. s + n - 1 : i < TABLE_TOTAL => Heap!IsFree(e, i)
<1> USE TotalAssumption
<1>1. CASE Heap!Runs(e, n) # {}
  <2>1. Heap!Runs(e, n) \in SUBSET Nat
    BY DEF Heap!Runs
  <2>2. s \in Heap!Runs(e, n)
    BY <1>1, <2>1, LeastExists DEF Heap!heap_get_start_block, Heap!Least
  <2> QED
    BY <2>2 DEF Heap!Runs, Heap!FreeRun
<1>2. CASE Heap!Runs(e, n) = {} /\ Heap!LastRun(e) # {}
  <2>1. Heap!LastRun(e) \in SUBSET Nat
    BY DEF Heap!LastRun
  <2>2. s \in Heap!LastRun(e)
    BY <1>2, <2>1, LeastExists DEF Heap!heap_get_start_block, Heap!Least
  <2> QED
    BY <2>2 DEF Heap!LastRun, Heap!FreeRun
<1>3. CASE Heap!Runs(e, n) = {} /\ Heap!LastRun(e) = {}
  BY <1>3 DEF Heap!heap_get_start_block, Heap!NO_MEMORY_ERROR
<1> QED
  BY <1>1, <1>2, <1>3

\* kernel_zalloc adds one allocation that shares nothing with the others, or
\* returns NULL and changes nothing.
LEMMA Zalloc ==
  ASSUME NEW e, NEW L, Describes(e, L), NEW n \in Nat \ {0},
         NEW z, z = kernel_zalloc(e, n)
  PROVE  \/ z.ptr = NULL /\ z.entries = e
         \/ /\ z.ptr \in 1 .. TABLE_TOTAL
            /\ Describes(z.entries, L \cup {[ptr |-> z.ptr, size |-> n]})
            /\ \A a \in L : Of(a) \cap Range(z.ptr, n) = {}
<1> USE TotalAssumption
<1>1. PICK s : s = Heap!heap_get_start_block(e, n)
  OBVIOUS
<1>2. /\ s \in Int
      /\ s >= 0 => /\ s \in 0 .. TABLE_TOTAL - 1
                   /\ \A i \in s .. s + n - 1 : i < TABLE_TOTAL => Heap!IsFree(e, i)
  BY <1>1, StartBlock
<1>3. CASE s < 0
  BY <1>1, <1>3 DEF kernel_zalloc
<1>4. CASE s >= 0
  <2>1. z = [entries |-> Heap!heap_mark_blocks_taken(e, s, n), ptr |-> s + 1]
    BY <1>1, <1>2, <1>4 DEF kernel_zalloc, Heap!heap_block_to_address
  <2>2. PICK new, f : new = [ptr |-> s + 1, size |-> n] /\ f = z.entries
    OBVIOUS
  <2>3. new \in Item /\ Of(new) = s + 1 .. s + n /\ new.ptr = s + 1 /\ new.size = n
    BY <1>2, <1>4, <2>2 DEF Item, Of, Range
  <2>4. /\ e \in [0 .. TABLE_TOTAL - 1 -> Heap!Entry]
        /\ L \subseteq Item
        /\ \A a, b \in L : a # b => Of(a) \cap Of(b) = {}
        /\ \A a \in L : \A i \in 0 .. TABLE_TOTAL - 1 : i + 1 \in Of(a) => e[i] = Flags(a, i)
        /\ \A i \in 0 .. TABLE_TOTAL - 1 : (\A a \in L : i + 1 \notin Of(a)) => e[i] = {}
    BY DEF Describes
  <2>5. \A i \in 0 .. TABLE_TOTAL - 1 : \A a \in L : i + 1 \in Of(a) => ~Heap!IsFree(e, i)
    BY <2>4 DEF Flags, Heap!IsFree, Heap!heap_get_entry_type, Heap!HEAP_BLOCK_TABLE_ENTRY_FREE
  <2>6. \A a \in L : Of(a) \cap Of(new) = {}
    <3> SUFFICES ASSUME NEW a \in L, NEW j \in Of(a), j \in Of(new) PROVE FALSE
      OBVIOUS
    <3>1. a.ptr \in 1 .. TABLE_TOTAL /\ a.size \in Nat \ {0} /\ Of(a) = a.ptr .. a.ptr + a.size - 1
      BY <2>4 DEF Item, Of, Range
    <3>2. j \in Int /\ a.ptr <= j /\ j <= a.ptr + a.size - 1 /\ s + 1 <= j /\ j <= s + n
      BY <1>2, <2>3, <3>1
    <3>3. PICK k : k = IF j <= TABLE_TOTAL THEN j - 1 ELSE TABLE_TOTAL - 1
      OBVIOUS
    <3>4. /\ k \in 0 .. TABLE_TOTAL - 1 /\ k + 1 \in Of(a) /\ k \in s .. s + n - 1
          /\ k < TABLE_TOTAL
      BY <1>2, <1>4, <3>1, <3>2, <3>3
    <3> QED
      BY <1>2, <1>4, <2>5, <3>4
  <2>7. /\ DOMAIN f = 0 .. TABLE_TOTAL - 1
        /\ f = [i \in DOMAIN f |-> f[i]]
        /\ \A i \in 0 .. TABLE_TOTAL - 1 :
             f[i] = IF i + 1 \in Of(new) THEN Flags(new, i) ELSE e[i]
    <3>1. f = Heap!heap_mark_blocks_taken(e, s, n)
      BY <2>1, <2>2
    <3>2. \A i \in 0 .. TABLE_TOTAL - 1 : /\ i \in s .. s + n - 1 <=> i + 1 \in Of(new)
                                          /\ i = s <=> i + 1 = new.ptr
                                          /\ i # s + n - 1 <=> i + 1 # new.ptr + new.size - 1
      BY <1>2, <2>3
    <3>3. f = [i \in 0 .. TABLE_TOTAL - 1 |->
                 IF i \in s .. s + n - 1
                 THEN {"TAKEN"} \cup (IF i = s THEN {"IS_FIRST"} ELSE {})
                                \cup (IF i # s + n - 1 THEN {"HAS_NEXT"} ELSE {})
                 ELSE e[i]]
      BY <2>4, <3>1 DEF Heap!heap_mark_blocks_taken
    <3> QED
      BY <3>2, <3>3 DEF Flags
  <2>8. f \in [0 .. TABLE_TOTAL - 1 -> Heap!Entry]
    <3>1. \A i : Flags(new, i) \in Heap!Entry
      BY DEF Flags, Heap!Entry
    <3>2. \A i \in 0 .. TABLE_TOTAL - 1 : f[i] \in Heap!Entry
      BY <2>4, <2>7, <3>1
    <3> QED
      BY <2>7, <3>2
  <2>9. Describes(f, L \cup {new})
    <3>1. \A a, b \in L \cup {new} : a # b => Of(a) \cap Of(b) = {}
      BY <2>4, <2>6
    <3>2. \A a \in L \cup {new} : \A i \in 0 .. TABLE_TOTAL - 1 :
            i + 1 \in Of(a) => f[i] = Flags(a, i)
      BY <2>4, <2>6, <2>7
    <3>3. \A i \in 0 .. TABLE_TOTAL - 1 :
            (\A a \in L \cup {new} : i + 1 \notin Of(a)) => f[i] = {}
      BY <2>4, <2>7
    <3> QED
      BY <2>3, <2>4, <2>8, <3>1, <3>2, <3>3 DEF Describes
  <2>10. z.ptr = s + 1 /\ s + 1 \in 1 .. TABLE_TOTAL /\ Of(new) = Range(z.ptr, n)
    BY <1>2, <1>4, <2>1, <2>3 DEF Of
  <2> QED
    BY <2>2, <2>6, <2>9, <2>10
<1> QED
  BY <1>2, <1>3, <1>4

\* kernel_free of an allocation takes away that one.
LEMMA FreeOne ==
  ASSUME NEW e, NEW L, Describes(e, L), NEW a \in L
  PROVE  Describes(kernel_free(e, a.ptr), L \ {a})
<1> USE TotalAssumption
<1>1. /\ e \in [0 .. TABLE_TOTAL - 1 -> Heap!Entry]
      /\ L \subseteq Item
      /\ \A b, c \in L : b # c => Of(b) \cap Of(c) = {}
      /\ \A b \in L : \A i \in 0 .. TABLE_TOTAL - 1 : i + 1 \in Of(b) => e[i] = Flags(b, i)
      /\ \A i \in 0 .. TABLE_TOTAL - 1 : (\A b \in L : i + 1 \notin Of(b)) => e[i] = {}
  BY DEF Describes
<1>2. /\ a.ptr \in 1 .. TABLE_TOTAL /\ a.size \in Nat \ {0}
      /\ Of(a) = a.ptr .. a.ptr + a.size - 1
  BY <1>1 DEF Item, Of, Range
<1>3. PICK s, f : s = a.ptr - 1 /\ f = kernel_free(e, a.ptr)
  OBVIOUS
<1>4. s \in 0 .. TABLE_TOTAL - 1 /\ s % WORD = s
  <2>1. PICK x : x = a.ptr
    OBVIOUS
  <2>2. x \in 1 .. TABLE_TOTAL /\ s = x - 1
    BY <1>2, <1>3, <2>1
  <2>3. s \in 0 .. TABLE_TOTAL - 1
    BY <2>2
  <2> QED
    BY <2>3, WordAssumption
<1>5. Heap!heap_address_to_block(a.ptr) = s
  BY <1>2, <1>3 DEF Heap!heap_address_to_block
<1>6. f = [i \in 0 .. TABLE_TOTAL - 1 |->
             IF s <= i /\ \A j \in s .. i - 1 : "HAS_NEXT" \in e[j] THEN {} ELSE e[i]]
  BY <1>1, <1>3, <1>4, <1>5 DEF kernel_free, Heap!heap_mark_blocks_free,
     Heap!HEAP_BLOCK_TABLE_ENTRY_FREE
<1>7. \A j \in 0 .. TABLE_TOTAL - 1 :
        j + 1 \in Of(a) => ("HAS_NEXT" \in e[j] <=> j + 1 # a.ptr + a.size - 1)
  BY <1>1 DEF Flags
<1>8. \A i \in 0 .. TABLE_TOTAL - 1 : f[i] = IF i + 1 \in Of(a) THEN {} ELSE e[i]
  <2> SUFFICES ASSUME NEW i \in 0 .. TABLE_TOTAL - 1
               PROVE  (s <= i /\ \A j \in s .. i - 1 : "HAS_NEXT" \in e[j]) <=> i + 1 \in Of(a)
    BY <1>6
  <2>1. ASSUME i + 1 \in Of(a), NEW j \in s .. i - 1 PROVE "HAS_NEXT" \in e[j]
    <3>1. j \in 0 .. TABLE_TOTAL - 1 /\ j + 1 \in Of(a) /\ j + 1 # a.ptr + a.size - 1
      <4>1. PICK x, y : x = a.ptr /\ y = a.size
        OBVIOUS
      <4>2. x \in Int /\ y \in Int /\ s = x - 1 /\ Of(a) = x .. x + y - 1
        BY <1>2, <1>3, <4>1
      <4>3. i + 1 <= x + y - 1
        BY <2>1, <4>2
      <4>4. j \in Int /\ s <= j /\ j <= i - 1
        BY <1>4, <2>1
      <4>5. j \in 0 .. TABLE_TOTAL - 1 /\ j + 1 \in x .. x + y - 1 /\ j + 1 # x + y - 1
        BY <1>4, <4>2, <4>3, <4>4
      <4> QED
        BY <4>1, <4>2, <4>5
    <3> QED
      BY <1>7, <3>1
  <2>2. i + 1 \in Of(a) => s <= i
    BY <1>2, <1>3
  <2>3. ASSUME s <= i, i + 1 \notin Of(a) PROVE \E j \in s .. i - 1 : "HAS_NEXT" \notin e[j]
    <3>1. PICK j : j = a.ptr + a.size - 2
      OBVIOUS
    <3>2. i + 1 > a.ptr + a.size - 1
      BY <1>2, <1>3, <2>3
    <3>3. /\ j \in s .. i - 1 /\ j \in 0 .. TABLE_TOTAL - 1
          /\ j + 1 \in Of(a) /\ j + 1 = a.ptr + a.size - 1
      <4>1. PICK x, y : x = a.ptr /\ y = a.size
        OBVIOUS
      <4>2. x \in Int /\ y \in Int /\ y >= 1 /\ s = x - 1 /\ j = x + y - 2 /\ i + 1 > x + y - 1
        BY <1>2, <1>3, <3>1, <3>2, <4>1
      <4>3. j \in Int /\ s <= j /\ j <= i - 1 /\ j + 1 = x + y - 1
        BY <4>2
      <4> QED
        <5>1. Of(a) = x .. x + y - 1
          BY <1>2, <4>1
        <5>2. j \in s .. i - 1 /\ j \in 0 .. TABLE_TOTAL - 1 /\ j + 1 \in x .. x + y - 1
          BY <1>4, <4>2, <4>3
        <5>3. j + 1 = a.ptr + a.size - 1
          BY <4>1, <4>3
        <5> QED
          BY <5>1, <5>2, <5>3
    <3> QED
      BY <1>7, <3>3
  <2> QED
    BY <2>1, <2>2, <2>3
<1>9. f \in [0 .. TABLE_TOTAL - 1 -> Heap!Entry]
  <2>1. {} \in Heap!Entry
    BY DEF Heap!Entry
  <2> QED
    BY <1>1, <1>6, <1>8, <2>1
<1>10. \A b \in L \ {a} : \A i \in 0 .. TABLE_TOTAL - 1 : i + 1 \in Of(b) => f[i] = Flags(b, i)
  <2> SUFFICES ASSUME NEW b \in L \ {a}, NEW i \in 0 .. TABLE_TOTAL - 1, i + 1 \in Of(b)
               PROVE  f[i] = Flags(b, i)
    OBVIOUS
  <2>1. i + 1 \notin Of(a)
    BY <1>1
  <2> QED
    BY <1>1, <1>8, <2>1
<1>11. \A i \in 0 .. TABLE_TOTAL - 1 : (\A b \in L \ {a} : i + 1 \notin Of(b)) => f[i] = {}
  BY <1>1, <1>8
<1> QED
  BY <1>1, <1>3, <1>9, <1>10, <1>11 DEF Describes

\* kernel_free(NULL) changes nothing.
LEMMA FreeNull ==
  ASSUME NEW e, NEW L, Describes(e, L)
  PROVE  kernel_free(e, NULL) = e
<1> USE TotalAssumption
<1>1. e \in [0 .. TABLE_TOTAL - 1 -> Heap!Entry]
  BY DEF Describes
<1>2. PICK b : b = Heap!heap_address_to_block(NULL) % WORD
  OBVIOUS
<1>3. b = WORD - 1
  <2>1. Heap!heap_address_to_block(NULL) = -1
    BY DEF Heap!heap_address_to_block, NULL
  <2>2. (-1) % WORD = WORD - 1
    BY WordAssumption
  <2> QED
    BY <1>2, <2>1, <2>2
<1>4. kernel_free(e, NULL) = [i \in 0 .. TABLE_TOTAL - 1 |->
             IF b <= i /\ \A j \in b .. i - 1 : "HAS_NEXT" \in e[j] THEN {} ELSE e[i]]
  BY <1>1, <1>2 DEF kernel_free, Heap!heap_mark_blocks_free, Heap!HEAP_BLOCK_TABLE_ENTRY_FREE
<1>5. \A i \in 0 .. TABLE_TOTAL - 1 : ~(b <= i)
  BY <1>3, WordAssumption
<1> QED
  BY <1>1, <1>4, <1>5

------------------------------------------------------------------------------
(* A struct process and what it names. *)

Struct ==
  [self : Address, program : Address, stack : Address, task : Address,
   allocations : [AllocationSlot -> [ptr : Address, size : Sizes \cup {0, 1}]],
   writable : SUBSET Nat]

One(x) == [ptr |-> x, size |-> 1]

Parts(proc) == {proc.self, proc.program, proc.stack, proc.task}

Held(proc) ==
  {One(x) : x \in Parts(proc) \ {NULL}}
    \cup {a \in {proc.allocations[i] : i \in AllocationSlot} : a.ptr # NULL}

\* What a program may use.
User(proc) ==
  {proc.program, proc.stack}
    \cup UNION {Range(proc.allocations[i].ptr, proc.allocations[i].size) : i \in AllocationSlot}

\* No pointer of a struct process occurs twice in it, an empty slot has size 0,
\* and the pages that are writable are the program's own.
Distinct(proc) ==
  /\ NULL \notin Parts(proc)
  /\ proc.self # proc.program /\ proc.self # proc.stack /\ proc.self # proc.task
  /\ proc.program # proc.stack /\ proc.program # proc.task /\ proc.stack # proc.task
  /\ \A i \in AllocationSlot : proc.allocations[i].ptr = NULL <=> proc.allocations[i].size = 0
  /\ \A i \in AllocationSlot : proc.allocations[i].ptr \notin Parts(proc)
  /\ \A i, j \in AllocationSlot :
       i # j /\ proc.allocations[i].ptr # NULL => proc.allocations[i].ptr # proc.allocations[j].ptr

WellFormed(proc) ==
  proc \in Struct /\ Distinct(proc) /\ proc.writable = User(proc)

\* A table with a process and the allocations R of everybody else.
Good(e, q, R) ==
  /\ WellFormed(q)
  /\ Describes(e, R \cup Held(q))
  /\ R \cap Held(q) = {}

SameParts(q, r) ==
  r.self = q.self /\ r.program = q.program /\ r.stack = q.stack /\ r.task = q.task

LEMMA HeldMember ==
  ASSUME NEW q
  PROVE  \A a : a \in Held(q) <=> \/ \E x \in Parts(q) \ {NULL} : a = One(x)
                                  \/ \E i \in AllocationSlot : a = q.allocations[i] /\ a.ptr # NULL
BY DEF Held

LEMMA UserMember ==
  ASSUME NEW q
  PROVE  \A x : x \in User(q) <=>
           \/ x \in {q.program, q.stack}
           \/ \E i \in AllocationSlot : x \in Range(q.allocations[i].ptr, q.allocations[i].size)
BY DEF User

\* An allocation begins with its own address.
LEMMA HasItsPtr ==
  ASSUME NEW e, NEW L, Describes(e, L)
  PROVE  /\ \A a \in L : a.ptr \in Of(a) /\ a.ptr \in 1 .. TABLE_TOTAL /\ a.size \in Nat \ {0}
         /\ \A a, b \in L : a.ptr = b.ptr => a = b
         /\ \A a, b \in L : a # b => Of(a) \cap Of(b) = {}
<1>1. L \subseteq Item /\ \A a, b \in L : a # b => Of(a) \cap Of(b) = {}
  BY DEF Describes
<1>2. \A a \in L : a.ptr \in Of(a) /\ a.ptr \in 1 .. TABLE_TOTAL /\ a.size \in Nat \ {0}
  BY <1>1, TotalAssumption DEF Item, Of, Range
<1> QED
  BY <1>1, <1>2

LEMMA SlotTypes ==
  ASSUME NEW q \in Struct
  PROVE  /\ q.allocations \in [AllocationSlot -> [ptr : Address, size : Sizes \cup {0, 1}]]
         /\ \A i \in AllocationSlot :
              /\ q.allocations[i].ptr \in Address /\ q.allocations[i].size \in Sizes \cup {0, 1}
              /\ q.allocations[i].ptr \in Nat /\ q.allocations[i].size \in Nat
              /\ q.allocations[i] = [ptr |-> q.allocations[i].ptr, size |-> q.allocations[i].size]
<1>1. q.allocations \in [AllocationSlot -> [ptr : Address, size : Sizes \cup {0, 1}]]
  BY DEF Struct
<1>2. \A i \in AllocationSlot : q.allocations[i] \in [ptr : Address, size : Sizes \cup {0, 1}]
  BY <1>1
<1>3. \A x \in Address : x \in Nat
  BY TotalAssumption DEF Address
<1>4. \A x \in Sizes \cup {0, 1} : x \in Nat
  BY SizesAssumption
<1>5. \A a \in [ptr : Address, size : Sizes \cup {0, 1}] :
        /\ a.ptr \in Address /\ a.size \in Sizes \cup {0, 1}
        /\ a = [ptr |-> a.ptr, size |-> a.size]
  OBVIOUS
<1> HIDE SizesAssumption
<1> QED
  BY <1>1, <1>2, <1>3, <1>4, <1>5

\* The fields that process_malloc and process_free write.
Written(q, w, s) == [q EXCEPT !.writable = w, !.allocations = s]

LEMMA WrittenFields ==
  ASSUME NEW q \in Struct, NEW w \in SUBSET Nat,
         NEW s \in [AllocationSlot -> [ptr : Address, size : Sizes \cup {0, 1}]],
         NEW r, r = Written(q, w, s)
  PROVE  /\ r \in Struct /\ SameParts(q, r) /\ r.writable = w /\ r.allocations = s
         /\ Parts(r) = Parts(q)
<1>1. /\ r \in Struct /\ r.self = q.self /\ r.program = q.program /\ r.stack = q.stack
      /\ r.task = q.task /\ r.writable = w /\ r.allocations = s
  BY DEF Struct, Written
<1> QED
  BY <1>1 DEF SameParts, Parts

\* process_find_free_allocation_index and the search of process_free.
LEMMA FirstSlot ==
  ASSUME NEW S \in SUBSET AllocationSlot, S # {}
  PROVE  First(S) \in S
<1>1. S \in SUBSET Nat
  BY AllocationsAssumption DEF AllocationSlot
<1>2. \E x \in S : \A y \in S : x <= y
  BY <1>1, LeastExists
<1> QED
  BY <1>2 DEF First

\* The table f has one allocation more than L.
OneMore(L, f, ptr, size) ==
  /\ ptr \in 1 .. TABLE_TOTAL
  /\ Describes(f, L \cup {[ptr |-> ptr, size |-> size]})
  /\ \A a \in L : Of(a) \cap Range(ptr, size) = {}

\* The process with it in slot k.
Filled(q, k, ptr, size) ==
  Written(q, q.writable \cup Range(ptr, size),
          [q.allocations EXCEPT ![k] = [ptr |-> ptr, size |-> size]])

\* process_malloc with memory and a free slot.
LEMMA MallocGrants ==
  ASSUME NEW e, NEW q, NEW R, Good(e, q, R), NEW size \in Sizes \cup {1},
         NEW f, NEW ptr, OneMore(R \cup Held(q), f, ptr, size),
         NEW k \in AllocationSlot, q.allocations[k].ptr = NULL,
         NEW r, r = Filled(q, k, ptr, size)
  PROVE  Good(f, r, R) /\ SameParts(q, r)
<1>0. /\ ptr \in 1 .. TABLE_TOTAL
      /\ Describes(f, (R \cup Held(q)) \cup {[ptr |-> ptr, size |-> size]})
      /\ \A a \in R \cup Held(q) : Of(a) \cap Range(ptr, size) = {}
  BY DEF OneMore
<1>1. q \in Struct /\ Distinct(q) /\ q.writable = User(q) /\ Describes(e, R \cup Held(q)) /\ R \cap Held(q) = {}
  BY DEF Good, WellFormed
<1>2. size \in Nat \ {0} /\ ptr \in Nat /\ ptr \in Address /\ size \in Sizes \cup {0, 1} /\ ptr # NULL
  BY <1>0, SizesAssumption, TotalAssumption DEF Address, NULL
<1>3. PICK new, slots, w : /\ new = [ptr |-> ptr, size |-> size]
                           /\ slots = [q.allocations EXCEPT ![k] = new]
                           /\ w = q.writable \cup Range(ptr, size)
  OBVIOUS
<1>4. /\ slots \in [AllocationSlot -> [ptr : Address, size : Sizes \cup {0, 1}]]
      /\ slots[k] = new
      /\ \A i \in AllocationSlot \ {k} : slots[i] = q.allocations[i]
  BY <1>1, <1>2, <1>3, SlotTypes
<1>5. w \in SUBSET Nat
  <2>1. q.writable \in SUBSET Nat
    BY <1>1 DEF Struct
  <2>2. Range(ptr, size) \in SUBSET Nat
    BY <1>2 DEF Range
  <2> QED
    BY <1>3, <2>1, <2>2
<1>6. /\ r \in Struct /\ SameParts(q, r) /\ r.writable = w /\ r.allocations = slots
      /\ Parts(r) = Parts(q)
  <2>1. r = Written(q, w, slots)
    BY <1>3 DEF Filled
  <2> QED
    BY <1>1, <1>4, <1>5, <2>1, WrittenFields
<1>7. new.ptr = ptr /\ new.size = size /\ Of(new) = Range(ptr, size) /\ ptr \in Of(new)
  BY <1>2, <1>3 DEF Of, Range
<1>8. \A a \in R \cup Held(q) : a.ptr # ptr
  BY <1>0, <1>1, <1>7, HasItsPtr
<1>9. \A x \in Parts(q) : x # ptr
  <2> SUFFICES ASSUME NEW x \in Parts(q) PROVE x # ptr
    OBVIOUS
  <2>1. x # NULL /\ One(x) \in Held(q) /\ One(x).ptr = x
    BY <1>1, HeldMember DEF Distinct, One
  <2> QED
    BY <1>8, <2>1
<1>10. \A i \in AllocationSlot : q.allocations[i].ptr # ptr
  <2> SUFFICES ASSUME NEW i \in AllocationSlot, q.allocations[i].ptr # NULL PROVE q.allocations[i].ptr # ptr
    BY <1>2
  <2>1. q.allocations[i] \in Held(q)
    BY HeldMember
  <2> QED
    BY <1>8, <2>1
<1>11. Held(r) = Held(q) \cup {new}
  <2>1. ASSUME NEW a \in Held(r) PROVE a \in Held(q) \cup {new}
    <3>1. CASE \E x \in Parts(r) \ {NULL} : a = One(x)
      BY <1>6, <3>1, HeldMember
    <3>2. CASE \E i \in AllocationSlot : a = r.allocations[i] /\ a.ptr # NULL
      <4>1. PICK i \in AllocationSlot : a = r.allocations[i] /\ a.ptr # NULL
        BY <3>2
      <4>2. CASE i = k
        BY <1>4, <1>6, <4>1, <4>2
      <4>3. CASE i # k
        <5>1. a = q.allocations[i]
          BY <1>4, <1>6, <4>1, <4>3
        <5> QED
          BY <4>1, <5>1, HeldMember
      <4> QED
        BY <4>2, <4>3
    <3>3. \/ \E x \in Parts(r) \ {NULL} : a = One(x)
          \/ \E i \in AllocationSlot : a = r.allocations[i] /\ a.ptr # NULL
      BY <2>1 DEF Held
    <3> QED
      BY <3>1, <3>2, <3>3
  <2>2. ASSUME NEW a \in Held(q) PROVE a \in Held(r)
    <3>1. CASE \E x \in Parts(q) \ {NULL} : a = One(x)
      BY <1>6, <3>1, HeldMember
    <3>2. CASE \E i \in AllocationSlot : a = q.allocations[i] /\ a.ptr # NULL
      <4>1. PICK i \in AllocationSlot : a = q.allocations[i] /\ a.ptr # NULL
        BY <3>2
      <4>2. i # k /\ r.allocations[i] = a
        BY <1>4, <1>6, <4>1
      <4> QED
        BY <4>1, <4>2, HeldMember
    <3> QED
      BY <2>2, <3>1, <3>2, HeldMember
  <2>3. new \in Held(r)
    BY <1>2, <1>4, <1>6, <1>7, HeldMember
  <2> QED
    BY <2>1, <2>2, <2>3
<1>12. Distinct(r)
  <2>1. \A i \in AllocationSlot : r.allocations[i].ptr = NULL <=> r.allocations[i].size = 0
    BY <1>1, <1>2, <1>4, <1>6, <1>7 DEF Distinct
  <2>2. \A i \in AllocationSlot : r.allocations[i].ptr \notin Parts(r)
    BY <1>1, <1>4, <1>6, <1>7, <1>9 DEF Distinct
  <2>3. \A i, j \in AllocationSlot :
          i # j /\ r.allocations[i].ptr # NULL => r.allocations[i].ptr # r.allocations[j].ptr
    BY <1>1, <1>4, <1>6, <1>7, <1>10 DEF Distinct
  <2> QED
    BY <1>1, <1>6, <2>1, <2>2, <2>3 DEF Distinct, SameParts
<1>13. r.writable = User(r)
  <2>1. Range(q.allocations[k].ptr, q.allocations[k].size) = {}
    BY <1>1 DEF Distinct, Range, NULL
  <2>2. \A x : x \in User(r) <=> x \in User(q) \/ x \in Range(ptr, size)
    <3> SUFFICES ASSUME NEW x PROVE x \in User(r) <=> x \in User(q) \/ x \in Range(ptr, size)
      OBVIOUS
    <3>1. r.program = q.program /\ r.stack = q.stack
      BY <1>6 DEF SameParts
    <3>2. Range(r.allocations[k].ptr, r.allocations[k].size) = Range(ptr, size)
      BY <1>4, <1>6, <1>7
    <3>3. \A i \in AllocationSlot \ {k} : r.allocations[i] = q.allocations[i]
      BY <1>4, <1>6
    <3>4. x \in User(r) <=>
            \/ x \in {r.program, r.stack}
            \/ \E i \in AllocationSlot : x \in Range(r.allocations[i].ptr, r.allocations[i].size)
      BY UserMember
    <3>5. x \in User(q) <=>
            \/ x \in {q.program, q.stack}
            \/ \E i \in AllocationSlot : x \in Range(q.allocations[i].ptr, q.allocations[i].size)
      BY UserMember
    <3>6. ASSUME NEW i \in AllocationSlot, x \in Range(r.allocations[i].ptr, r.allocations[i].size)
          PROVE  x \in User(q) \/ x \in Range(ptr, size)
      <4>1. CASE i = k
        BY <3>2, <3>6, <4>1
      <4>2. CASE i # k
        BY <3>3, <3>5, <3>6, <4>2
      <4> QED
        BY <4>1, <4>2
    <3>7. ASSUME NEW i \in AllocationSlot, x \in Range(q.allocations[i].ptr, q.allocations[i].size)
          PROVE  x \in User(r)
      <4>1. i # k
        BY <2>1, <3>7
      <4> QED
        BY <3>3, <3>4, <3>7, <4>1
    <3> QED
      BY <3>1, <3>2, <3>4, <3>5, <3>6, <3>7
  <2> QED
    BY <1>1, <1>3, <1>6, <2>2
<1>14. Describes(f, R \cup Held(r))
  <2>1. R \cup Held(r) = (R \cup Held(q)) \cup {new}
    BY <1>11
  <2> QED
    BY <1>0, <1>3, <2>1
<1>15. R \cap Held(r) = {}
  BY <1>1, <1>7, <1>8, <1>11
<1> QED
  BY <1>6, <1>12, <1>13, <1>14, <1>15 DEF Good, WellFormed

\* process_malloc keeps a process and everybody else's allocations in order.
LEMMA Malloc ==
  ASSUME NEW e, NEW q, NEW R, Good(e, q, R), NEW size \in Sizes \cup {1},
         NEW m, m = process_malloc([entries |-> e, proc |-> q], size)
  PROVE  /\ m = [entries |-> m.entries, proc |-> m.proc]
         /\ Good(m.entries, m.proc, R) /\ SameParts(q, m.proc)
<1>1. PICK z : z = kernel_zalloc(e, size)
  OBVIOUS
<1>2. size \in Nat \ {0}
  BY SizesAssumption
<1>3. PICK L : L = R \cup Held(q)
  OBVIOUS
<1>4. Describes(e, L)
  BY <1>3 DEF Good
<1>5. \/ z.ptr = NULL /\ z.entries = e
      \/ /\ z.ptr \in 1 .. TABLE_TOTAL
         /\ Describes(z.entries, L \cup {[ptr |-> z.ptr, size |-> size]})
         /\ \A a \in L : Of(a) \cap Range(z.ptr, size) = {}
  BY <1>1, <1>2, <1>4, Zalloc
<1>6. m = IF z.ptr = NULL THEN [entries |-> e, proc |-> q]
          ELSE IF Slots(q, NULL) = {} THEN [entries |-> kernel_free(z.entries, z.ptr), proc |-> q]
          ELSE [entries |-> z.entries,
                proc |-> [q EXCEPT
                  !.writable = @ \cup Range(z.ptr, size),
                  !.allocations[process_find_free_allocation_index(q)] =
                    [ptr |-> z.ptr, size |-> size]]]
  BY <1>1 DEF process_malloc
<1>7. SameParts(q, q)
  BY DEF SameParts
<1>8. CASE z.ptr = NULL
  BY <1>6, <1>7, <1>8
<1>9. CASE z.ptr # NULL /\ Slots(q, NULL) = {}
  <2>1. PICK new, ptr : ptr = z.ptr /\ new = [ptr |-> ptr, size |-> size]
    OBVIOUS
  <2>2. ptr \in 1 .. TABLE_TOTAL /\ Describes(z.entries, L \cup {new})
        /\ \A a \in L : Of(a) \cap Range(ptr, size) = {}
    BY <1>5, <1>9, <2>1
  <2>3. new.ptr = ptr /\ Of(new) = Range(ptr, size) /\ ptr \in Range(ptr, size)
    BY <1>2, <2>1, <2>2, TotalAssumption DEF Of, Range
  <2>4. new \notin L
    BY <2>2, <2>3
  <2>5. (L \cup {new}) \ {new} = L
    BY <2>4
  <2>6. new \in L \cup {new}
    OBVIOUS
  <2>7. Describes(kernel_free(z.entries, new.ptr), (L \cup {new}) \ {new})
    BY <2>2, <2>6, FreeOne
  <2>8. Describes(kernel_free(z.entries, z.ptr), L)
    BY <2>1, <2>3, <2>5, <2>7
  <2>9. Good(kernel_free(z.entries, z.ptr), q, R)
    BY <1>3, <2>8 DEF Good
  <2> QED
    BY <1>6, <1>7, <1>9, <2>9
<1>10. CASE z.ptr # NULL /\ Slots(q, NULL) # {}
  <2>1. PICK k, ptr, r, f : /\ k = process_find_free_allocation_index(q) /\ ptr = z.ptr
                            /\ r = m.proc /\ f = z.entries
    OBVIOUS
  <2>2. k \in AllocationSlot /\ q.allocations[k].ptr = NULL
    <3>1. Slots(q, NULL) \in SUBSET AllocationSlot
      BY DEF Slots
    <3>2. k \in Slots(q, NULL)
      BY <1>10, <2>1, <3>1, FirstSlot DEF process_find_free_allocation_index
    <3> QED
      BY <3>2 DEF Slots
  <2>3. r = [q EXCEPT !.writable = @ \cup Range(ptr, size),
                      !.allocations[k] = [ptr |-> ptr, size |-> size]]
    BY <1>6, <1>10, <2>1
  <2>4. r = Filled(q, k, ptr, size)
    BY <2>3 DEF Filled, Written
  <2>5. OneMore(R \cup Held(q), f, ptr, size)
    BY <1>3, <1>5, <1>10, <2>1 DEF OneMore
  <2>6. Good(f, r, R) /\ SameParts(q, r)
    BY <2>2, <2>4, <2>5, MallocGrants
  <2> QED
    BY <1>6, <1>10, <2>1, <2>6
<1> QED
  BY <1>8, <1>9, <1>10

\* What process_free leaves of the slots.
Emptied(q, ptr) ==
  [i \in AllocationSlot |->
     IF i \in Slots(q, ptr) THEN NoAllocation ELSE q.allocations[i]]

\* process_free of a pointer that the process has in slot k.
LEMMA FreeTakes ==
  ASSUME NEW e, NEW q, NEW R, Good(e, q, R), NEW k \in AllocationSlot,
         NEW a, a = q.allocations[k], a.ptr # NULL,
         NEW r, r = Written(q, q.writable \ Range(a.ptr, a.size), Emptied(q, a.ptr))
  PROVE  Good(kernel_free(e, a.ptr), r, R) /\ SameParts(q, r)
<1>1. q \in Struct /\ Distinct(q) /\ q.writable = User(q) /\ Describes(e, R \cup Held(q)) /\ R \cap Held(q) = {}
  BY DEF Good, WellFormed
<1>2. Slots(q, a.ptr) = {k}
  BY <1>1 DEF Slots, Distinct
<1>3. PICK slots, w : slots = Emptied(q, a.ptr) /\ w = q.writable \ Range(a.ptr, a.size)
  OBVIOUS
<1>4. NoAllocation.ptr = NULL /\ NoAllocation.size = 0
      /\ NoAllocation \in [ptr : Address, size : Sizes \cup {0, 1}]
  BY TotalAssumption DEF NoAllocation, NULL, Address
<1>5. /\ slots \in [AllocationSlot -> [ptr : Address, size : Sizes \cup {0, 1}]]
      /\ slots[k] = NoAllocation
      /\ \A i \in AllocationSlot \ {k} : slots[i] = q.allocations[i]
  BY <1>1, <1>2, <1>3, <1>4, SlotTypes DEF Emptied
<1>6. w \in SUBSET Nat
  BY <1>1, <1>3 DEF Struct
<1>7. /\ r \in Struct /\ SameParts(q, r) /\ r.writable = w /\ r.allocations = slots
      /\ Parts(r) = Parts(q)
  BY <1>1, <1>3, <1>5, <1>6, WrittenFields
<1>8. a \in Held(q)
  BY HeldMember
<1>9. /\ \A b, c \in R \cup Held(q) : b.ptr = c.ptr => b = c
      /\ \A b, c \in R \cup Held(q) : b # c => Of(b) \cap Of(c) = {}
      /\ \A b \in R \cup Held(q) : b.ptr \in Of(b)
  BY <1>1, HasItsPtr
<1>10. \A x \in Parts(q) : x # NULL /\ x # a.ptr /\ One(x) \in Held(q) /\ One(x).ptr = x
  <2> SUFFICES ASSUME NEW x \in Parts(q)
               PROVE  x # NULL /\ x # a.ptr /\ One(x) \in Held(q) /\ One(x).ptr = x
    OBVIOUS
  <2>1. x # NULL /\ x # a.ptr
    BY <1>1 DEF Distinct
  <2> QED
    BY <2>1, HeldMember DEF One
<1>11. Held(r) = Held(q) \ {a}
  <2>1. ASSUME NEW b \in Held(r) PROVE b \in Held(q) \ {a}
    <3>1. CASE \E x \in Parts(r) \ {NULL} : b = One(x)
      BY <1>7, <1>10, <3>1
    <3>2. CASE \E i \in AllocationSlot : b = r.allocations[i] /\ b.ptr # NULL
      <4>1. PICK i \in AllocationSlot : b = r.allocations[i] /\ b.ptr # NULL
        BY <3>2
      <4>2. i # k
        BY <1>4, <1>5, <1>7, <4>1
      <4>3. b = q.allocations[i]
        BY <1>5, <1>7, <4>1, <4>2
      <4>4. b.ptr # a.ptr
        BY <1>1, <4>1, <4>2, <4>3 DEF Distinct
      <4> QED
        BY <4>1, <4>3, <4>4, HeldMember
    <3>3. \/ \E x \in Parts(r) \ {NULL} : b = One(x)
          \/ \E i \in AllocationSlot : b = r.allocations[i] /\ b.ptr # NULL
      BY <2>1 DEF Held
    <3> QED
      BY <3>1, <3>2, <3>3
  <2>2. ASSUME NEW b \in Held(q), b # a PROVE b \in Held(r)
    <3>1. CASE \E x \in Parts(q) \ {NULL} : b = One(x)
      BY <1>7, <3>1, HeldMember
    <3>2. CASE \E i \in AllocationSlot : b = q.allocations[i] /\ b.ptr # NULL
      <4>1. PICK i \in AllocationSlot : b = q.allocations[i] /\ b.ptr # NULL
        BY <3>2
      <4>2. i # k /\ r.allocations[i] = b
        BY <1>5, <1>7, <2>2, <4>1
      <4> QED
        BY <4>1, <4>2, HeldMember
    <3>3. \/ \E x \in Parts(q) \ {NULL} : b = One(x)
          \/ \E i \in AllocationSlot : b = q.allocations[i] /\ b.ptr # NULL
      BY <2>2 DEF Held
    <3> QED
      BY <3>1, <3>2, <3>3
  <2> QED
    BY <2>1, <2>2
<1>12. Distinct(r)
  <2>1. /\ \A i \in AllocationSlot : q.allocations[i].ptr = NULL <=> q.allocations[i].size = 0
        /\ \A i \in AllocationSlot : q.allocations[i].ptr \notin Parts(r)
        /\ NULL \notin Parts(r)
        /\ \A i, j \in AllocationSlot :
             i # j /\ q.allocations[i].ptr # NULL
               => q.allocations[i].ptr # q.allocations[j].ptr
    BY <1>1, <1>7 DEF Distinct
  <2>2. \A i \in AllocationSlot :
          \/ r.allocations[i].ptr = NULL /\ r.allocations[i].size = 0
          \/ r.allocations[i] = q.allocations[i]
    BY <1>4, <1>5, <1>7
  <2>3. \A i \in AllocationSlot : r.allocations[i].ptr = NULL <=> r.allocations[i].size = 0
    <3> SUFFICES ASSUME NEW i \in AllocationSlot
                 PROVE  r.allocations[i].ptr = NULL <=> r.allocations[i].size = 0
      OBVIOUS
    <3>1. q.allocations[i].ptr = NULL <=> q.allocations[i].size = 0
      BY <2>1
    <3>2. \/ r.allocations[i].ptr = NULL /\ r.allocations[i].size = 0
          \/ r.allocations[i] = q.allocations[i]
      BY <2>2
    <3> QED
      BY <3>1, <3>2
  <2>4. \A i \in AllocationSlot : r.allocations[i].ptr \notin Parts(r)
    BY <2>1, <2>2
  <2>5. \A i, j \in AllocationSlot :
          i # j /\ r.allocations[i].ptr # NULL => r.allocations[i].ptr # r.allocations[j].ptr
    <3> SUFFICES ASSUME NEW i \in AllocationSlot, NEW j \in AllocationSlot, i # j,
                        r.allocations[i].ptr # NULL
                 PROVE  r.allocations[i].ptr # r.allocations[j].ptr
      OBVIOUS
    <3>1. r.allocations[i] = q.allocations[i] /\ q.allocations[i].ptr # NULL
      BY <2>2
    <3>2. q.allocations[i].ptr # q.allocations[j].ptr
      BY <2>1, <3>1
    <3>3. r.allocations[j].ptr = NULL \/ r.allocations[j] = q.allocations[j]
      BY <2>2
    <3> QED
      BY <3>1, <3>2, <3>3
  <2> QED
    BY <1>1, <1>7, <2>3, <2>4, <2>5 DEF Distinct, SameParts
<1>13. r.writable = User(r)
  <2>1. Range(r.allocations[k].ptr, r.allocations[k].size) = {}
    <3>1. r.allocations[k].ptr = 0 /\ r.allocations[k].size = 0
      <4>1. r.allocations[k] = NoAllocation
        BY <1>5, <1>7
      <4> QED
        BY <4>1 DEF NoAllocation, NULL
    <3>2. Range(r.allocations[k].ptr, r.allocations[k].size) = Range(0, 0)
      BY <3>1
    <3>3. Range(0, 0) = {}
      BY DEF Range
    <3> QED
      BY <3>2, <3>3
  <2>2. r.program = q.program /\ r.stack = q.stack
    BY <1>7 DEF SameParts
  <2>3. \A i \in AllocationSlot \ {k} : r.allocations[i] = q.allocations[i]
    BY <1>5, <1>7
  <2>4. \A b \in Held(q) \ {a} : Of(b) \cap Range(a.ptr, a.size) = {}
    BY <1>8, <1>9 DEF Of
  <2>5. \A x \in {q.program, q.stack} : x \notin Range(a.ptr, a.size)
    <3> SUFFICES ASSUME NEW x \in {q.program, q.stack} PROVE x \notin Range(a.ptr, a.size)
      OBVIOUS
    <3>1. x \in Parts(q)
      BY DEF Parts
    <3>2. One(x) \in Held(q) \ {a} /\ One(x).ptr = x
      BY <1>10, <3>1
    <3>3. x \in Of(One(x))
      BY <1>9, <3>2
    <3> QED
      BY <2>4, <3>2, <3>3
  <2>6. \A i \in AllocationSlot \ {k} :
          Range(q.allocations[i].ptr, q.allocations[i].size) \cap Range(a.ptr, a.size) = {}
    <3> SUFFICES ASSUME NEW i \in AllocationSlot \ {k}
                 PROVE  Range(q.allocations[i].ptr, q.allocations[i].size)
                          \cap Range(a.ptr, a.size) = {}
      OBVIOUS
    <3>1. CASE q.allocations[i].ptr = NULL
      <4>1. Range(q.allocations[i].ptr, q.allocations[i].size) = {}
        BY <1>1, <3>1 DEF Distinct, Range, NULL
      <4> QED
        BY <4>1
    <3>2. CASE q.allocations[i].ptr # NULL
      <4>1. q.allocations[i] \in Held(q)
        BY <3>2, HeldMember
      <4>2. q.allocations[i] # a
        BY <1>1, <3>2 DEF Distinct
      <4> QED
        BY <2>4, <4>1, <4>2 DEF Of
    <3> QED
      BY <3>1, <3>2
  <2>7. \A x : x \in User(r) <=> x \in User(q) /\ x \notin Range(a.ptr, a.size)
    <3> SUFFICES ASSUME NEW x
                 PROVE  x \in User(r) <=> x \in User(q) /\ x \notin Range(a.ptr, a.size)
      OBVIOUS
    <3>1. x \in User(r) <=>
            \/ x \in {r.program, r.stack}
            \/ \E i \in AllocationSlot : x \in Range(r.allocations[i].ptr, r.allocations[i].size)
      BY UserMember
    <3>2. x \in User(q) <=>
            \/ x \in {q.program, q.stack}
            \/ \E i \in AllocationSlot : x \in Range(q.allocations[i].ptr, q.allocations[i].size)
      BY UserMember
    <3>3. ASSUME NEW i \in AllocationSlot, x \in Range(r.allocations[i].ptr, r.allocations[i].size)
          PROVE  x \in User(q) /\ x \notin Range(a.ptr, a.size)
      <4>1. i # k
        BY <2>1, <3>3
      <4> QED
        BY <2>3, <2>6, <3>2, <3>3, <4>1
    <3>4. ASSUME NEW i \in AllocationSlot, x \in Range(q.allocations[i].ptr, q.allocations[i].size),
                 x \notin Range(a.ptr, a.size)
          PROVE  x \in User(r)
      <4>1. i # k
        BY <3>4
      <4> QED
        BY <2>3, <3>1, <3>4, <4>1
    <3>5. x \in {q.program, q.stack} => x \notin Range(a.ptr, a.size)
      BY <2>5
    <3>6. ASSUME x \in User(r) PROVE x \in User(q) /\ x \notin Range(a.ptr, a.size)
      BY <2>2, <3>1, <3>2, <3>3, <3>5, <3>6
    <3>7. ASSUME x \in User(q), x \notin Range(a.ptr, a.size) PROVE x \in User(r)
      BY <2>2, <3>1, <3>2, <3>4, <3>7
    <3> QED
      BY <3>6, <3>7
  <2> QED
    BY <1>1, <1>3, <1>7, <2>7
<1>14. Describes(kernel_free(e, a.ptr), R \cup Held(r))
  <2>1. R \cup Held(r) = (R \cup Held(q)) \ {a}
    BY <1>1, <1>8, <1>11
  <2>2. a \in R \cup Held(q)
    BY <1>8
  <2>3. Describes(kernel_free(e, a.ptr), (R \cup Held(q)) \ {a})
    BY <1>1, <2>2, FreeOne
  <2> QED
    BY <2>1, <2>3
<1>15. R \cap Held(r) = {}
  BY <1>1, <1>11
<1> QED
  BY <1>7, <1>12, <1>13, <1>14, <1>15 DEF Good, WellFormed

\* process_free of any pointer keeps a process and everybody else's
\* allocations in order and empties the pointer's slot.
LEMMA Free ==
  ASSUME NEW e, NEW q, NEW R, Good(e, q, R), NEW ptr,
         NEW m, m = process_free([entries |-> e, proc |-> q], ptr)
  PROVE  /\ m = [entries |-> m.entries, proc |-> m.proc]
         /\ Good(m.entries, m.proc, R) /\ SameParts(q, m.proc)
         /\ \A i \in AllocationSlot :
              q.allocations[i].ptr \in {ptr, NULL} => m.proc.allocations[i].ptr = NULL
<1>1. q \in Struct /\ Distinct(q) /\ q.writable = User(q) /\ Describes(e, R \cup Held(q)) /\ R \cap Held(q) = {}
  BY DEF Good, WellFormed
<1>2. SameParts(q, q)
  BY DEF SameParts
<1>3. PICK k, size, r : /\ k = First(Slots(q, ptr))
                        /\ size = q.allocations[k].size
                        /\ r = Written(q, q.writable \ Range(ptr, size), Emptied(q, ptr))
  OBVIOUS
<1>4. m = IF Slots(q, ptr) = {} THEN [entries |-> e, proc |-> q]
          ELSE [entries |-> kernel_free(e, ptr), proc |-> r]
  BY <1>3 DEF process_free, Written, Emptied
<1>5. CASE Slots(q, ptr) = {}
  <2>1. \A i \in AllocationSlot : q.allocations[i].ptr # ptr
    BY <1>5 DEF Slots
  <2>2. m = [entries |-> e, proc |-> q]
    BY <1>4, <1>5
  <2> QED
    BY <1>2, <2>1, <2>2
<1>6. CASE Slots(q, ptr) # {}
  <2>1. k \in AllocationSlot /\ q.allocations[k].ptr = ptr
    <3>1. Slots(q, ptr) \in SUBSET AllocationSlot
      BY DEF Slots
    <3>2. k \in Slots(q, ptr)
      BY <1>3, <1>6, <3>1, FirstSlot
    <3> QED
      BY <3>2 DEF Slots
  <2>2. m = [entries |-> kernel_free(e, ptr), proc |-> r]
    BY <1>4, <1>6
  <2>3. CASE ptr = NULL
    <3>1. size = 0
      BY <1>1, <1>3, <2>1, <2>3 DEF Distinct
    <3>2. q.writable \ Range(ptr, size) = q.writable
      BY <2>3, <3>1 DEF Range, NULL
    <3>3. Emptied(q, ptr) = q.allocations
      <4>1. \A i \in AllocationSlot : q.allocations[i].ptr = NULL => q.allocations[i] = NoAllocation
        <5> SUFFICES ASSUME NEW i \in AllocationSlot, q.allocations[i].ptr = NULL
                     PROVE  q.allocations[i] = NoAllocation
          OBVIOUS
        <5>1. q.allocations[i].size = 0
          BY <1>1 DEF Distinct
        <5>2. q.allocations[i] = [ptr |-> q.allocations[i].ptr, size |-> q.allocations[i].size]
          BY <1>1, SlotTypes
        <5> QED
          BY <5>1, <5>2 DEF NoAllocation
      <4>2. q.allocations = [i \in AllocationSlot |-> q.allocations[i]]
        BY <1>1, SlotTypes
      <4> QED
        BY <2>3, <4>1, <4>2 DEF Emptied, Slots
    <3>4. r = q
      <4>1. r = [q EXCEPT !.writable = q.writable, !.allocations = q.allocations]
        BY <1>3, <3>2, <3>3 DEF Written
      <4> QED
        BY <1>1, <4>1 DEF Struct
    <3>5. kernel_free(e, ptr) = e
      BY <1>1, <2>3, FreeNull
    <3> QED
      BY <1>2, <2>2, <2>3, <3>4, <3>5
  <2>4. CASE ptr # NULL
    <3>1. PICK a : a = q.allocations[k]
      OBVIOUS
    <3>2. /\ a.ptr = ptr /\ a.ptr # NULL /\ a.size = size
          /\ r = Written(q, q.writable \ Range(a.ptr, a.size), Emptied(q, a.ptr))
      BY <1>3, <2>1, <2>4, <3>1
    <3>3. Good(kernel_free(e, a.ptr), r, R) /\ SameParts(q, r)
      BY <2>1, <3>1, <3>2, FreeTakes
    <3>4. r.allocations = Emptied(q, ptr)
      <4>1. r = Written(q, q.writable \ Range(ptr, size), Emptied(q, ptr))
        BY <1>3
      <4> QED
        BY <1>1, <4>1 DEF Written, Struct
    <3>5. \A i \in AllocationSlot :
            q.allocations[i].ptr \in {ptr, NULL} => r.allocations[i].ptr = NULL
      BY <3>4 DEF Emptied, Slots, NoAllocation
    <3>6. m.entries = kernel_free(e, ptr) /\ m.proc = r /\ m = [entries |-> m.entries, proc |-> m.proc]
      BY <2>2
    <3>7. kernel_free(e, a.ptr) = kernel_free(e, ptr)
      BY <3>2
    <3> QED
      BY <3>3, <3>5, <3>6, <3>7
  <2> QED
    BY <2>3, <2>4
<1> QED
  BY <1>5, <1>6

------------------------------------------------------------------------------
(* process_terminate_allocations: slot after slot. *)

FreeSlot(m, i) == process_free(m, m.proc.allocations[i - 1].ptr)

\* f[i] is what is left when the first i slots have been freed.
Frees(m, k, f) == f = [i \in 0 .. k |-> IF i = 0 THEN m ELSE FreeSlot(f[i - 1], i)]

LEMMA FreesExists ==
  ASSUME NEW m, NEW n \in Nat
  PROVE  \E f : Frees(m, n, f)
<1> DEFINE S == {k \in Nat : ~\E f : Frees(m, k, f)}
<1> SUFFICES ASSUME S # {} PROVE FALSE
  OBVIOUS
<1>1. S \in SUBSET Nat
  OBVIOUS
<1>2. PICK k \in S : \A j \in S : k <= j
  BY <1>1, LeastExists
<1>3. CASE k = 0
  <2>1. PICK f : f = [i \in 0 .. k |-> m]
    OBVIOUS
  <2>2. \A i \in 0 .. k : i = 0
    BY <1>3
  <2>3. f = [i \in 0 .. k |-> IF i = 0 THEN m ELSE FreeSlot(f[i - 1], i)]
    BY <2>1, <2>2
  <2> QED
    BY <2>3 DEF Frees
<1>4. CASE k # 0
  <2>1. k - 1 \in Nat /\ k - 1 \notin S
    BY <1>2, <1>4
  <2>2. PICK g : Frees(m, k - 1, g)
    BY <2>1
  <2>3. PICK f : f = [i \in 0 .. k |-> IF i = k THEN FreeSlot(g[k - 1], k) ELSE g[i]]
    OBVIOUS
  <2>4. \A i \in 0 .. k - 1 : g[i] = IF i = 0 THEN m ELSE FreeSlot(g[i - 1], i)
    BY <2>2 DEF Frees
  <2>5. \A i \in 0 .. k : f[i] = IF i = 0 THEN m ELSE FreeSlot(f[i - 1], i)
    <3> SUFFICES ASSUME NEW i \in 0 .. k
                 PROVE  f[i] = IF i = 0 THEN m ELSE FreeSlot(f[i - 1], i)
      OBVIOUS
    <3>1. CASE i = k
      <4>1. k - 1 \in 0 .. k /\ k - 1 # k /\ k \in 0 .. k
        BY <2>1
      <4>2. f[k] = FreeSlot(g[k - 1], k) /\ f[k - 1] = g[k - 1]
        BY <2>3, <4>1
      <4> QED
        BY <1>4, <3>1, <4>2
    <3>2. CASE i # k
      <4>1. i \in 0 .. k - 1 /\ f[i] = g[i]
        BY <2>1, <2>3, <3>2
      <4>2. CASE i = 0
        BY <2>4, <4>1, <4>2
      <4>3. CASE i # 0
        <5>1. i - 1 \in 0 .. k /\ i - 1 # k
          BY <2>1, <4>1, <4>3
        <5>2. f[i - 1] = g[i - 1]
          BY <2>3, <5>1
        <5> QED
          BY <2>4, <4>1, <4>3, <5>2
      <4> QED
        BY <4>2, <4>3
    <3> QED
      BY <3>1, <3>2
  <2>6. f = [i \in 0 .. k |-> f[i]]
    BY <2>3
  <2>7. f = [i \in 0 .. k |-> IF i = 0 THEN m ELSE FreeSlot(f[i - 1], i)]
    BY <2>5, <2>6
  <2> QED
    BY <2>7 DEF Frees
<1> QED
  BY <1>3, <1>4

\* It frees every slot, whatever the pointers are.
LEMMA TerminateAllocations ==
  ASSUME NEW e, NEW q, NEW R, Good(e, q, R),
         NEW m, m = process_terminate_allocations([entries |-> e, proc |-> q])
  PROVE  /\ Good(m.entries, m.proc, R) /\ SameParts(q, m.proc)
         /\ \A i \in AllocationSlot : m.proc.allocations[i].ptr = NULL
<1>1. PICK m0, n : m0 = [entries |-> e, proc |-> q] /\ n = OS_MAX_PROGRAM_ALLOCATIONS
  OBVIOUS
<1>2. n \in Nat
  BY <1>1, AllocationsAssumption
<1>3. PICK h : h = CHOOSE f : Frees(m0, n, f)
  OBVIOUS
<1>4. m = h[n]
  BY <1>1, <1>3 DEF process_terminate_allocations, Frees, FreeSlot
<1>5. Frees(m0, n, h)
  BY <1>2, <1>3, FreesExists
<1>6. \A i \in 0 .. n : h[i] = IF i = 0 THEN m0 ELSE FreeSlot(h[i - 1], i)
  BY <1>5 DEF Frees
<1> DEFINE Done(i) == /\ h[i] = [entries |-> h[i].entries, proc |-> h[i].proc]
                      /\ Good(h[i].entries, h[i].proc, R) /\ SameParts(q, h[i].proc)
                      /\ \A j \in AllocationSlot : j < i => h[i].proc.allocations[j].ptr = NULL
           S == {i \in 0 .. n : ~Done(i)}
<1>7. S = {}
  <2> SUFFICES ASSUME S # {} PROVE FALSE
    OBVIOUS
  <2>1. S \in SUBSET Nat
    BY <1>2
  <2>2. PICK i \in S : \A j \in S : i <= j
    BY <2>1, LeastExists
  <2>3. i \in 0 .. n /\ ~Done(i)
    BY <2>2
  <2>4. i # 0
    <3> SUFFICES ASSUME i = 0 PROVE Done(0)
      BY <2>3
    <3>1. h[0] = [entries |-> e, proc |-> q]
      BY <1>1, <1>2, <1>6
    <3>2. \A j \in AllocationSlot : ~(j < 0)
      BY <1>2 DEF AllocationSlot
    <3>3. SameParts(q, q)
      BY DEF SameParts
    <3>4. h[0].entries = e /\ h[0].proc = q /\ h[0] = [entries |-> h[0].entries, proc |-> h[0].proc]
      BY <3>1
    <3> QED
      BY <3>2, <3>3, <3>4
  <2>5. i - 1 \in 0 .. n /\ i - 1 \notin S
    BY <1>2, <2>2, <2>3, <2>4
  <2>6. Done(i - 1)
    BY <2>5
  <2>7. PICK f, p, ptr, g : /\ f = h[i - 1].entries /\ p = h[i - 1].proc
                            /\ ptr = p.allocations[i - 1].ptr /\ g = h[i]
    OBVIOUS
  <2>8. g = process_free([entries |-> f, proc |-> p], ptr)
    BY <1>6, <2>3, <2>4, <2>6, <2>7 DEF FreeSlot
  <2>9. Good(f, p, R) /\ SameParts(q, p)
        /\ \A j \in AllocationSlot : j < i - 1 => p.allocations[j].ptr = NULL
    BY <2>6, <2>7
  <2>10. /\ g = [entries |-> g.entries, proc |-> g.proc]
         /\ Good(g.entries, g.proc, R) /\ SameParts(p, g.proc)
         /\ \A j \in AllocationSlot :
              p.allocations[j].ptr \in {ptr, NULL} => g.proc.allocations[j].ptr = NULL
    BY <2>8, <2>9, Free
  <2>11. SameParts(q, g.proc)
    BY <2>9, <2>10 DEF SameParts
  <2>12. \A j \in AllocationSlot : j < i => g.proc.allocations[j].ptr = NULL
    <3> SUFFICES ASSUME NEW j \in AllocationSlot, j < i PROVE g.proc.allocations[j].ptr = NULL
      OBVIOUS
    <3>1. j < i - 1 \/ j = i - 1
      BY <1>1, <1>2, <2>3 DEF AllocationSlot
    <3> QED
      BY <2>7, <2>9, <2>10, <3>1
  <2> QED
    BY <2>3, <2>7, <2>10, <2>11, <2>12
<1>8. n \in 0 .. n /\ n \notin S
  BY <1>2, <1>7
<1>9. Done(n)
  BY <1>8
<1>10. \A j \in AllocationSlot : j < n
  BY <1>1, <1>2 DEF AllocationSlot
<1> QED
  BY <1>4, <1>9, <1>10

\* process_terminate gives everything back but the struct process.
LEMMA Terminate ==
  ASSUME NEW e, NEW q, NEW R, Good(e, q, R),
         NEW m, m = process_terminate_allocations([entries |-> e, proc |-> q])
  PROVE  /\ Describes(kernel_free(kernel_free(kernel_free(m.entries, m.proc.program),
                                              m.proc.stack), m.proc.task),
                      R \cup {One(q.self)})
         /\ One(q.self) \notin R /\ q.self \in 1 .. TABLE_TOTAL
<1>1. PICK f, r : f = m.entries /\ r = m.proc
  OBVIOUS
<1>2. /\ Good(f, r, R) /\ SameParts(q, r)
      /\ \A i \in AllocationSlot : r.allocations[i].ptr = NULL
  BY <1>1, TerminateAllocations
<1>3. Distinct(r) /\ Describes(f, R \cup Held(r)) /\ R \cap Held(r) = {} /\ r \in Struct
  BY <1>2 DEF Good, WellFormed
<1>4. PICK s, p, t, u : s = r.self /\ p = r.program /\ t = r.stack /\ u = r.task
  OBVIOUS
<1>5. Parts(r) = {s, p, t, u}
  BY <1>4 DEF Parts
<1>6. NULL \notin {s, p, t, u} /\ s # p /\ s # t /\ s # u /\ p # t /\ p # u /\ t # u
  BY <1>3, <1>4, <1>5 DEF Distinct
<1>7. \A x, y : One(x).ptr = x /\ (One(x) = One(y) => x = y)
  <2>1. \A x : One(x).ptr = x
    BY DEF One
  <2> QED
    BY <2>1
<1>8. Held(r) = {One(s), One(p), One(t), One(u)}
  <2>1. \A a \in Held(r) : \E x \in Parts(r) \ {NULL} : a = One(x)
    BY <1>2 DEF Held
  <2>2. \A x \in Parts(r) \ {NULL} : One(x) \in Held(r)
    BY HeldMember
  <2> QED
    BY <1>5, <1>6, <2>1, <2>2
<1>9. PICK L0, L1, L2, L3 : /\ L0 = R \cup {One(s), One(p), One(t), One(u)}
                            /\ L1 = L0 \ {One(p)} /\ L2 = L1 \ {One(t)} /\ L3 = L2 \ {One(u)}
  OBVIOUS
<1>10. \A x \in {s, p, t, u} : One(x) \notin R
  BY <1>3, <1>8
<1>11. L3 = R \cup {One(s)} /\ One(p) \in L0 /\ One(t) \in L1 /\ One(u) \in L2
  BY <1>6, <1>7, <1>9, <1>10
<1>12. Describes(f, L0)
  BY <1>3, <1>8, <1>9
<1>13. Describes(kernel_free(f, One(p).ptr), L0 \ {One(p)})
  BY <1>11, <1>12, FreeOne
<1>14. PICK f1 : f1 = kernel_free(f, p)
  OBVIOUS
<1>15. Describes(f1, L1)
  BY <1>7, <1>9, <1>13, <1>14
<1>16. Describes(kernel_free(f1, One(t).ptr), L1 \ {One(t)})
  BY <1>11, <1>15, FreeOne
<1>17. PICK f2 : f2 = kernel_free(f1, t)
  OBVIOUS
<1>18. Describes(f2, L2)
  BY <1>7, <1>9, <1>16, <1>17
<1>19. Describes(kernel_free(f2, One(u).ptr), L2 \ {One(u)})
  BY <1>11, <1>18, FreeOne
<1>20. Describes(kernel_free(f2, u), R \cup {One(s)})
  BY <1>7, <1>9, <1>11, <1>19
<1>21. s = q.self
  BY <1>2, <1>4 DEF SameParts
<1>22. s \in 1 .. TABLE_TOTAL
  <2>1. One(s) \in R \cup Held(r)
    BY <1>8
  <2>2. One(s).ptr \in 1 .. TABLE_TOTAL
    BY <1>3, <2>1, HasItsPtr
  <2> QED
    BY <1>7, <2>2
<1> QED
  BY <1>1, <1>4, <1>10, <1>14, <1>17, <1>20, <1>21, <1>22

------------------------------------------------------------------------------
(* Loading: one allocation after the other. *)

GrabOne(g) ==
  LET z == kernel_zalloc(g.entries, 1)
  IN  [entries |-> z.entries, ptrs |-> Append(g.ptrs, z.ptr)]

Nothing == [entries |-> entries, ptrs |-> << >>]

\* f[i] is the table and the addresses after i allocations.
Grabs(k, f) == f = [i \in 0 .. k |-> IF i = 0 THEN Nothing ELSE GrabOne(f[i - 1])]

LEMMA GrabsExists ==
  ASSUME NEW n \in Nat
  PROVE  \E f : Grabs(n, f)
<1> DEFINE S == {k \in Nat : ~\E f : Grabs(k, f)}
<1> SUFFICES ASSUME S # {} PROVE FALSE
  OBVIOUS
<1>1. S \in SUBSET Nat
  OBVIOUS
<1>2. PICK k \in S : \A j \in S : k <= j
  BY <1>1, LeastExists
<1>3. CASE k = 0
  <2>1. PICK f : f = [i \in 0 .. k |-> Nothing]
    OBVIOUS
  <2>2. \A i \in 0 .. k : i = 0
    BY <1>3
  <2>3. f = [i \in 0 .. k |-> IF i = 0 THEN Nothing ELSE GrabOne(f[i - 1])]
    BY <2>1, <2>2
  <2> QED
    BY <2>3 DEF Grabs
<1>4. CASE k # 0
  <2>1. k - 1 \in Nat /\ k - 1 \notin S
    BY <1>2, <1>4
  <2>2. PICK g : Grabs(k - 1, g)
    BY <2>1
  <2>3. PICK f : f = [i \in 0 .. k |-> IF i = k THEN GrabOne(g[k - 1]) ELSE g[i]]
    OBVIOUS
  <2>4. \A i \in 0 .. k - 1 : g[i] = IF i = 0 THEN Nothing ELSE GrabOne(g[i - 1])
    BY <2>2 DEF Grabs
  <2>5. \A i \in 0 .. k : f[i] = IF i = 0 THEN Nothing ELSE GrabOne(f[i - 1])
    <3> SUFFICES ASSUME NEW i \in 0 .. k
                 PROVE  f[i] = IF i = 0 THEN Nothing ELSE GrabOne(f[i - 1])
      OBVIOUS
    <3>1. CASE i = k
      <4>1. k - 1 \in 0 .. k /\ k - 1 # k /\ k \in 0 .. k
        BY <2>1
      <4>2. f[k] = GrabOne(g[k - 1]) /\ f[k - 1] = g[k - 1]
        BY <2>3, <4>1
      <4> QED
        BY <1>4, <3>1, <4>2
    <3>2. CASE i # k
      <4>1. i \in 0 .. k - 1 /\ f[i] = g[i]
        BY <2>1, <2>3, <3>2
      <4>2. CASE i = 0
        BY <2>4, <4>1, <4>2
      <4>3. CASE i # 0
        <5>1. i - 1 \in 0 .. k /\ i - 1 # k
          BY <2>1, <4>1, <4>3
        <5>2. f[i - 1] = g[i - 1]
          BY <2>3, <5>1
        <5> QED
          BY <2>4, <4>1, <4>3, <5>2
      <4> QED
        BY <4>2, <4>3
    <3> QED
      BY <3>1, <3>2
  <2>6. f = [i \in 0 .. k |-> f[i]]
    BY <2>3
  <2>7. f = [i \in 0 .. k |-> IF i = 0 THEN Nothing ELSE GrabOne(f[i - 1])]
    BY <2>5, <2>6
  <2> QED
    BY <2>7 DEF Grabs
<1> QED
  BY <1>3, <1>4

Items(s) == {One(x) : x \in Elements(s) \ {NULL}}

\* g are k attempts to allocate on a heap with the allocations L.
Grabbed(L, g, k) ==
  /\ g.ptrs \in Seq(Address) /\ Len(g.ptrs) = k
  /\ Describes(g.entries, L \cup Items(g.ptrs))
  /\ L \cap Items(g.ptrs) = {}
  /\ \A i, j \in 1 .. k : i # j /\ g.ptrs[i] # NULL => g.ptrs[i] # g.ptrs[j]

LEMMA GrabStep ==
  ASSUME NEW L, NEW g, NEW k \in Nat, Grabbed(L, g, k), NEW h, h = GrabOne(g)
  PROVE  Grabbed(L, h, k + 1)
<1>1. PICK s, e, z : s = g.ptrs /\ e = g.entries /\ z = kernel_zalloc(e, 1)
  OBVIOUS
<1>2. /\ s \in Seq(Address) /\ Len(s) = k
      /\ Describes(e, L \cup Items(s)) /\ L \cap Items(s) = {}
      /\ \A i, j \in 1 .. k : i # j /\ s[i] # NULL => s[i] # s[j]
  BY <1>1 DEF Grabbed
<1>3. PICK x, t, f : x = z.ptr /\ t = Append(s, x) /\ f = z.entries
  OBVIOUS
<1>4. h.ptrs = t /\ h.entries = f
  BY <1>1, <1>3 DEF GrabOne
<1>5. \/ x = NULL /\ f = e
      \/ /\ x \in 1 .. TABLE_TOTAL
         /\ Describes(f, (L \cup Items(s)) \cup {[ptr |-> x, size |-> 1]})
         /\ \A a \in L \cup Items(s) : Of(a) \cap Range(x, 1) = {}
  <2>1. 1 \in Nat \ {0}
    OBVIOUS
  <2>2. \/ z.ptr = NULL /\ z.entries = e
        \/ /\ z.ptr \in 1 .. TABLE_TOTAL
           /\ Describes(z.entries, (L \cup Items(s)) \cup {[ptr |-> z.ptr, size |-> 1]})
           /\ \A a \in L \cup Items(s) : Of(a) \cap Range(z.ptr, 1) = {}
    BY <1>1, <1>2, <2>1, Zalloc
  <2> QED
    BY <1>3, <2>2
<1>6. x \in Address
  BY <1>5, TotalAssumption DEF Address, NULL
<1>7. /\ t \in Seq(Address) /\ Len(t) = k + 1 /\ t[k + 1] = x
      /\ \A i \in 1 .. k : t[i] = s[i]
      /\ DOMAIN t = 1 .. k + 1 /\ DOMAIN s = 1 .. k
  BY <1>2, <1>3, <1>6
<1>8. Elements(t) = Elements(s) \cup {x}
  <2>1. \A i \in 1 .. k + 1 : i \in 1 .. k \/ i = k + 1
    OBVIOUS
  <2>2. \A y \in Elements(t) : y \in Elements(s) \cup {x}
    BY <1>7, <2>1 DEF Elements
  <2>3. \A i \in 1 .. k : i \in 1 .. k + 1
    OBVIOUS
  <2>4. k + 1 \in 1 .. k + 1
    OBVIOUS
  <2>5. \A y \in Elements(s) : y \in Elements(t)
    BY <1>7, <2>3 DEF Elements
  <2>6. x \in Elements(t)
    BY <1>7, <2>4 DEF Elements
  <2> QED
    BY <2>2, <2>5, <2>6
<1>9. \A y \in Elements(s) : y # NULL => One(y) \in Items(s) /\ One(y).ptr = y
  BY DEF Items, One
<1>10. CASE x = NULL
  <2>1. Items(t) = Items(s)
    BY <1>8, <1>10 DEF Items
  <2>2. \A i, j \in 1 .. k + 1 : i # j /\ t[i] # NULL => t[i] # t[j]
    <3>1. \A i \in 1 .. k + 1 : i \in 1 .. k \/ i = k + 1
      OBVIOUS
    <3> QED
      BY <1>2, <1>7, <1>10, <3>1
  <2> QED
    BY <1>2, <1>4, <1>5, <1>7, <1>10, <2>1, <2>2 DEF Grabbed, NULL
<1>11. CASE x # NULL
  <2>1. Items(t) = Items(s) \cup {One(x)}
    BY <1>8, <1>11 DEF Items
  <2>2. /\ x \in 1 .. TABLE_TOTAL
        /\ Describes(f, (L \cup Items(s)) \cup {One(x)})
        /\ \A a \in L \cup Items(s) : Of(a) \cap Range(x, 1) = {}
    BY <1>5, <1>11 DEF One
  <2>3. x \in Range(x, 1)
    BY <2>2, TotalAssumption DEF Range
  <2>4. \A a \in L \cup Items(s) : a.ptr # x
    <3>1. \A a \in L \cup Items(s) : a.ptr \in Of(a)
      BY <1>2, HasItsPtr
    <3> QED
      BY <2>2, <2>3, <3>1
  <2>5. One(x).ptr = x
    BY DEF One
  <2>6. Describes(f, L \cup Items(t))
    <3>1. L \cup Items(t) = (L \cup Items(s)) \cup {One(x)}
      BY <2>1
    <3> QED
      BY <2>2, <3>1
  <2>7. L \cap Items(t) = {}
    BY <1>2, <2>1, <2>4, <2>5
  <2>8. \A i \in 1 .. k : s[i] # x
    <3> SUFFICES ASSUME NEW i \in 1 .. k, s[i] = x PROVE FALSE
      OBVIOUS
    <3>1. s[i] \in Elements(s)
      BY <1>7 DEF Elements
    <3>2. One(s[i]) \in Items(s) /\ One(s[i]).ptr = s[i]
      BY <1>9, <1>11, <3>1
    <3> QED
      BY <2>4, <3>2
  <2>9. \A i, j \in 1 .. k + 1 : i # j /\ t[i] # NULL => t[i] # t[j]
    <3>1. \A i \in 1 .. k + 1 : i \in 1 .. k \/ i = k + 1
      OBVIOUS
    <3> QED
      BY <1>2, <1>7, <2>8, <3>1
  <2> QED
    BY <1>4, <1>7, <2>6, <2>7, <2>9 DEF Grabbed
<1> QED
  BY <1>10, <1>11

\* Grab leaves the heap with the allocations it was granted besides the old
\* ones.
LEMMA GrabAll ==
  ASSUME NEW L, Describes(entries, L), NEW k \in Nat, NEW g, g = Grab(k)
  PROVE  Grabbed(L, g, k)
<1>1. PICK h : h = CHOOSE f : Grabs(k, f)
  OBVIOUS
<1>2. g = h[k]
  BY <1>1 DEF Grab, Grabs, GrabOne, Nothing
<1>3. Grabs(k, h)
  BY <1>1, GrabsExists
<1>4. \A i \in 0 .. k : h[i] = IF i = 0 THEN Nothing ELSE GrabOne(h[i - 1])
  BY <1>3 DEF Grabs
<1> DEFINE S == {i \in 0 .. k : ~Grabbed(L, h[i], i)}
<1>5. S = {}
  <2> SUFFICES ASSUME S # {} PROVE FALSE
    OBVIOUS
  <2>1. S \in SUBSET Nat
    OBVIOUS
  <2>2. PICK i \in S : \A j \in S : i <= j
    BY <2>1, LeastExists
  <2>3. i \in 0 .. k /\ ~Grabbed(L, h[i], i)
    BY <2>2
  <2>4. i # 0
    <3> SUFFICES ASSUME i = 0 PROVE Grabbed(L, h[0], 0)
      BY <2>3
    <3>1. h[0] = Nothing
      BY <1>4
    <3>2. h[0].ptrs = << >> /\ h[0].entries = entries
      BY <3>1 DEF Nothing
    <3>3. Items(<< >>) = {}
      BY DEF Items, Elements
    <3>4. << >> \in Seq(Address) /\ Len(<< >>) = 0
      OBVIOUS
    <3>5. Describes(entries, L \cup Items(<< >>)) /\ L \cap Items(<< >>) = {}
      BY <3>3
    <3> QED
      BY <3>2, <3>4, <3>5 DEF Grabbed
  <2>5. i - 1 \in Nat /\ i - 1 \in 0 .. k /\ i - 1 \notin S
    BY <2>2, <2>3, <2>4
  <2>6. Grabbed(L, h[i - 1], i - 1) /\ h[i] = GrabOne(h[i - 1])
    BY <1>4, <2>3, <2>4, <2>5
  <2>7. Grabbed(L, h[i], (i - 1) + 1)
    BY <2>5, <2>6, GrabStep
  <2>8. (i - 1) + 1 = i
    BY <2>3
  <2> QED
    BY <2>3, <2>7, <2>8
<1>6. k \in 0 .. k /\ k \notin S
  BY <1>5
<1> QED
  BY <1>2, <1>6

\* The struct process of a program that has allocated nothing yet.
Fresh(a, b, c, d) ==
  [NoProcess EXCEPT !.self = a, !.program = b, !.stack = c, !.task = d, !.writable = {b, c}]

LEMMA NewProcess ==
  ASSUME NEW a \in 1 .. TABLE_TOTAL, NEW b \in 1 .. TABLE_TOTAL, NEW c \in 1 .. TABLE_TOTAL,
         NEW d \in 1 .. TABLE_TOTAL, a # b, a # c, a # d, b # c, b # d, c # d,
         NEW q, q = Fresh(a, b, c, d)
  PROVE  WellFormed(q) /\ Held(q) = {One(a), One(b), One(c), One(d)}
<1>1. PICK none : none = [i \in AllocationSlot |-> NoAllocation]
  OBVIOUS
<1>2. q = [self |-> a, program |-> b, stack |-> c, task |-> d, allocations |-> none,
           writable |-> {b, c}]
  BY <1>1 DEF NoProcess, Fresh
<1>3. /\ q.self = a /\ q.program = b /\ q.stack = c /\ q.task = d
      /\ q.allocations = none /\ q.writable = {b, c}
  BY <1>2
<1>4. NoAllocation.ptr = NULL /\ NoAllocation.size = 0
      /\ NoAllocation \in [ptr : Address, size : Sizes \cup {0, 1}]
  BY TotalAssumption DEF NoAllocation, NULL, Address
<1>5. a \in Address /\ b \in Address /\ c \in Address /\ d \in Address /\ NULL \notin {a, b, c, d}
      /\ {b, c} \in SUBSET Nat
  BY TotalAssumption DEF Address, NULL
<1>6. none \in [AllocationSlot -> [ptr : Address, size : Sizes \cup {0, 1}]]
      /\ \A i \in AllocationSlot : none[i] = NoAllocation
  BY <1>1, <1>4
<1>7. q \in Struct
  BY <1>2, <1>5, <1>6 DEF Struct
<1>8. Parts(q) = {a, b, c, d}
  BY <1>3 DEF Parts
<1>9. \A i \in AllocationSlot : q.allocations[i].ptr = NULL /\ q.allocations[i].size = 0
  BY <1>3, <1>4, <1>6
<1>10. Distinct(q)
  BY <1>3, <1>5, <1>8, <1>9 DEF Distinct
<1>11. User(q) = {b, c}
  <2>1. \A i \in AllocationSlot : Range(q.allocations[i].ptr, q.allocations[i].size) = {}
    BY <1>9 DEF Range, NULL
  <2> QED
    BY <1>3, <2>1, UserMember
<1>12. Held(q) = {One(a), One(b), One(c), One(d)}
  <2>1. \A y \in Held(q) : \E x \in Parts(q) \ {NULL} : y = One(x)
    BY <1>9 DEF Held
  <2>2. \A x \in Parts(q) \ {NULL} : One(x) \in Held(q)
    BY HeldMember
  <2> QED
    BY <1>5, <1>8, <2>1, <2>2
<1> QED
  BY <1>3, <1>7, <1>10, <1>11, <1>12 DEF WellFormed

\* What stays behind when a program of n allocations has been loaded.
Behind(g, n) == IF n = 4 THEN {} ELSE {g.ptrs[2]}

Ones(N) == {One(x) : x \in N}

\* m is a new process on a heap that had the allocations L.
InPlace(L, n, g, m) ==
  /\ m = [entries |-> m.entries, proc |-> m.proc]
  /\ Good(m.entries, m.proc, L \cup Ones(Behind(g, n)))
  /\ Behind(g, n) \subseteq 1 .. TABLE_TOTAL
  /\ L \cap Ones(Behind(g, n)) = {}

\* process_load_for_slot without and with an ELF image that was none.
LEMMA Load ==
  ASSUME NEW L, NEW n \in {4, 5}, NEW g, Grabbed(L, g, n), Granted(g), NEW m, m = Loaded(g)
  PROVE  InPlace(L, n, g, m)
<1>1. PICK s, e, N : s = g.ptrs /\ e = g.entries /\ N = Ones(Behind(g, n))
  OBVIOUS
<1>2. /\ s \in Seq(Address) /\ Len(s) = n
      /\ Describes(e, L \cup Items(s)) /\ L \cap Items(s) = {}
      /\ \A i, j \in 1 .. n : i # j /\ s[i] # NULL => s[i] # s[j]
  BY <1>1 DEF Grabbed
<1>3. \A i \in 1 .. n : s[i] # NULL /\ s[i] \in 1 .. TABLE_TOTAL
  <2> SUFFICES ASSUME NEW i \in 1 .. n PROVE s[i] # NULL /\ s[i] \in 1 .. TABLE_TOTAL
    OBVIOUS
  <2>1. i \in DOMAIN s /\ s[i] \in Address
    BY <1>2
  <2>2. s[i] # NULL
    BY <1>1, <2>1 DEF Granted
  <2> QED
    BY <2>1, <2>2, TotalAssumption DEF Address, NULL
<1>4. PICK q : q = Fresh(s[1], s[n - 2], s[n - 1], s[n])
  OBVIOUS
<1>5. m = [entries |-> e, proc |-> q]
  BY <1>1, <1>2, <1>4 DEF Loaded, Fresh
<1>6. 1 \in 1 .. n /\ n - 2 \in 1 .. n /\ n - 1 \in 1 .. n /\ n \in 1 .. n /\ 2 \in 1 .. n
      /\ 1 # n - 2 /\ 1 # n - 1 /\ 1 # n /\ n - 2 # n - 1 /\ n - 2 # n /\ n - 1 # n
  OBVIOUS
<1>7. PICK a, b, c, d : a = s[1] /\ b = s[n - 2] /\ c = s[n - 1] /\ d = s[n]
  OBVIOUS
<1>8. /\ a \in 1 .. TABLE_TOTAL /\ b \in 1 .. TABLE_TOTAL
      /\ c \in 1 .. TABLE_TOTAL /\ d \in 1 .. TABLE_TOTAL
      /\ a # b /\ a # c /\ a # d /\ b # c /\ b # d /\ c # d
  BY <1>2, <1>3, <1>6, <1>7
<1>9. q = Fresh(a, b, c, d)
  BY <1>4, <1>7
<1>10. WellFormed(q) /\ Held(q) = {One(a), One(b), One(c), One(d)}
  BY <1>8, <1>9, NewProcess
<1>11. \A x : One(x).ptr = x
  BY DEF One
<1>12. Elements(s) \ {NULL} = {s[i] : i \in 1 .. n}
  BY <1>2, <1>3 DEF Elements
<1>13. /\ Items(s) = N \cup Held(q) /\ N \cap Held(q) = {}
       /\ Behind(g, n) \subseteq 1 .. TABLE_TOTAL
  <2>1. CASE n = 4
    <3>1. N = {}
      BY <1>1, <2>1 DEF Behind, Ones
    <3>2. 1 .. n = {1, n - 2, n - 1, n}
      BY <2>1
    <3>3. Elements(s) \ {NULL} = {a, b, c, d}
      BY <1>7, <1>12, <3>2
    <3>4. Items(s) = {One(a), One(b), One(c), One(d)}
      BY <3>3 DEF Items
    <3> QED
      BY <1>10, <2>1, <3>1, <3>4 DEF Behind, Ones
  <2>2. CASE n = 5
    <3>1. PICK y : y = s[2]
      OBVIOUS
    <3>2. Behind(g, n) = {y} /\ N = {One(y)}
      BY <1>1, <2>2, <3>1 DEF Behind, Ones
    <3>3. 1 .. n = {1, 2, n - 2, n - 1, n}
      BY <2>2
    <3>4. Elements(s) \ {NULL} = {y, a, b, c, d}
      BY <1>7, <1>12, <3>1, <3>3
    <3>5. Items(s) = {One(y), One(a), One(b), One(c), One(d)}
      BY <3>4 DEF Items
    <3>6. 2 # 1 /\ 2 # n - 2 /\ 2 # n - 1 /\ 2 # n
      BY <2>2
    <3>7. y # a /\ y # b /\ y # c /\ y # d
      BY <1>2, <1>3, <1>6, <1>7, <3>1, <3>6
    <3>8. y \in 1 .. TABLE_TOTAL
      BY <1>3, <1>6, <3>1
    <3>9. One(y) \notin {One(a), One(b), One(c), One(d)}
      BY <1>11, <3>7
    <3> QED
      BY <1>10, <3>2, <3>5, <3>8, <3>9
  <2> QED
    BY <2>1, <2>2
<1>14. Good(e, q, L \cup N)
  <2>1. (L \cup N) \cup Held(q) = L \cup Items(s)
    BY <1>13
  <2>2. (L \cup N) \cap Held(q) = {}
    BY <1>2, <1>13
  <2> QED
    BY <1>2, <1>10, <2>1, <2>2 DEF Good
<1>15. L \cap N = {}
  BY <1>2, <1>13
<1> QED
  BY <1>1, <1>5, <1>13, <1>14, <1>15 DEF InPlace

\* process_inject_arguments, whether or not there is memory for argv.
LEMMA Inject ==
  ASSUME NEW e, NEW q, NEW R, Good(e, q, R),
         NEW m, m = process_inject_arguments([entries |-> e, proc |-> q])
  PROVE  Good(m.entries, m.proc, R)
<1>1. PICK argv : argv = process_malloc([entries |-> e, proc |-> q], 1)
  OBVIOUS
<1>2. 1 \in Sizes \cup {1}
  OBVIOUS
<1>3. /\ argv = [entries |-> argv.entries, proc |-> argv.proc]
      /\ Good(argv.entries, argv.proc, R)
  BY <1>1, <1>2, Malloc
<1>4. m = IF argv.proc = q THEN argv ELSE process_malloc(argv, 1)
  BY <1>1 DEF process_inject_arguments
<1>5. CASE argv.proc = q
  BY <1>3, <1>4, <1>5
<1>6. CASE argv.proc # q
  <2>1. PICK f, r : f = argv.entries /\ r = argv.proc
    OBVIOUS
  <2>2. Good(f, r, R) /\ m = process_malloc([entries |-> f, proc |-> r], 1)
    BY <1>3, <1>4, <1>6, <2>1
  <2> QED
    BY <1>2, <2>2, Malloc
<1> QED
  BY <1>5, <1>6

------------------------------------------------------------------------------
(* The invariant. *)

Lost == {One(x) : x \in leaked}

\* The allocations that are not p's.
Others(p) == Lost \cup UNION {Held(process[r]) : r \in Process \ {p}}

AllHeld == Lost \cup UNION {Held(process[p]) : p \in Process}

\* The heap's table is the allocations that processes hold and those that are
\* lost, each of them once.
IInv ==
  /\ process = [p \in Process |-> process[p]]
  /\ \A p \in Process : process[p] = NoProcess \/ WellFormed(process[p])
  /\ leaked \subseteq 1 .. TABLE_TOTAL
  /\ Describes(entries, AllHeld)
  /\ \A p \in Process : Lost \cap Held(process[p]) = {}
  /\ \A p, q \in Process : p # q => Held(process[p]) \cap Held(process[q]) = {}

LEMMA HeldNothing == Held(NoProcess) = {} /\ NoProcess.self = NULL
<1>1. PICK q, none : q = NoProcess /\ none = [i \in AllocationSlot |-> NoAllocation]
  OBVIOUS
<1>2. q = [self |-> NULL, program |-> NULL, stack |-> NULL, task |-> NULL,
           allocations |-> none, writable |-> {}]
  BY <1>1 DEF NoProcess
<1>3. /\ q.self = NULL /\ q.program = NULL /\ q.stack = NULL /\ q.task = NULL
      /\ q.allocations = none
  BY <1>2
<1>4. \A i \in AllocationSlot : none[i].ptr = NULL
  BY <1>1 DEF NoAllocation
<1>5. Parts(q) \ {NULL} = {}
  BY <1>3 DEF Parts
<1>6. \A a : a \notin Held(q)
  BY <1>3, <1>4, <1>5 DEF Held
<1> QED
  BY <1>1, <1>3, <1>6

\* A process that runs is in order, and so is the heap around a free slot.
LEMMA InOrder ==
  ASSUME IInv, NEW p \in Process
  PROVE  /\ p \in Live => Good(entries, process[p], Others(p))
         /\ p \notin Live => process[p] = NoProcess /\ Describes(entries, Others(p))
<1>1. AllHeld = Others(p) \cup Held(process[p])
  BY DEF AllHeld, Others
<1>2. Others(p) \cap Held(process[p]) = {}
  BY DEF IInv, Others
<1>3. Describes(entries, AllHeld) /\ (process[p] = NoProcess \/ WellFormed(process[p]))
  BY DEF IInv
<1>4. WellFormed(process[p]) => process[p].self # NULL
  BY DEF WellFormed, Distinct, Parts
<1>5. CASE p \in Live
  <2>1. process[p] # NoProcess
    BY <1>5, HeldNothing DEF Live
  <2> QED
    BY <1>1, <1>2, <1>3, <1>5, <2>1 DEF Good
<1>6. CASE p \notin Live
  <2>1. process[p] = NoProcess
    BY <1>3, <1>4, <1>6 DEF Live
  <2>2. AllHeld = Others(p)
    BY <1>1, <2>1, HeldNothing
  <2> QED
    BY <1>3, <1>6, <2>1, <2>2
<1> QED
  BY <1>5, <1>6

\* A step that changes one process and loses the allocations N keeps the
\* invariant when the heap has what is left.
LEMMA OneProcess ==
  ASSUME IInv, NEW p \in Process, NEW e, NEW q, NEW N \in SUBSET (1 .. TABLE_TOTAL),
         NEW M, M = {One(x) : x \in N},
         q = NoProcess \/ WellFormed(q),
         Describes(e, (Others(p) \cup M) \cup Held(q)),
         Others(p) \cap M = {}, (Others(p) \cup M) \cap Held(q) = {},
         entries' = e, process' = [process EXCEPT ![p] = q], leaked' = leaked \cup N
  PROVE  IInv'
<1>1. /\ process = [r \in Process |-> process[r]]
      /\ \A r \in Process : process[r] = NoProcess \/ WellFormed(process[r])
      /\ leaked \subseteq 1 .. TABLE_TOTAL
      /\ \A r \in Process : Lost \cap Held(process[r]) = {}
      /\ \A r, s \in Process : r # s => Held(process[r]) \cap Held(process[s]) = {}
  BY DEF IInv
<1>2. /\ process' = [r \in Process |-> process'[r]]
      /\ process'[p] = q
      /\ \A r \in Process \ {p} : process'[r] = process[r]
  BY <1>1
<1>3. Lost' = Lost \cup M
  BY DEF Lost
<1>4. /\ Held(process[p])' = Held(q)
      /\ \A r \in Process \ {p} : Held(process'[r]) = Held(process[r])
  BY <1>2 DEF Held
<1>5. AllHeld' = (Others(p) \cup M) \cup Held(q)
  <2>1. AllHeld' = Lost' \cup UNION {Held(process'[r]) : r \in Process}
    BY DEF AllHeld, Held, Parts
  <2>2. \A a : a \in AllHeld' <=> a \in Lost \/ a \in M \/ a \in Held(q)
                                  \/ \E r \in Process \ {p} : a \in Held(process[r])
    BY <1>2, <1>3, <1>4, <2>1
  <2>3. \A a : a \in Others(p) <=> a \in Lost \/ \E r \in Process \ {p} : a \in Held(process[r])
    BY DEF Others
  <2> QED
    BY <2>2, <2>3
<1>6. Describes(entries, AllHeld)'
  <2>1. Describes(entries', AllHeld')
    BY <1>5
  <2> QED
    BY <2>1 DEF Describes, Item
<1>7. (leaked \subseteq 1 .. TABLE_TOTAL)'
  BY <1>1
<1>8. \A r \in Process : process'[r] = NoProcess \/ WellFormed(process'[r])
  BY <1>1, <1>2
<1>9. \A r \in Process \ {p} : /\ M \cap Held(process[r]) = {}
                               /\ Held(q) \cap Held(process[r]) = {}
  BY DEF Others
<1>10. Lost \cap Held(q) = {}
  BY DEF Others
<1>11. \A r \in Process : Lost' \cap Held(process'[r]) = {}
  BY <1>1, <1>2, <1>3, <1>9, <1>10
<1>12. \A r, s \in Process : r # s => Held(process'[r]) \cap Held(process'[s]) = {}
  BY <1>1, <1>2, <1>9
<1> QED
  BY <1>2, <1>6, <1>7, <1>8, <1>11, <1>12 DEF IInv

LEMMA InitInv == Init => IInv
<1> SUFFICES ASSUME Init PROVE IInv
  OBVIOUS
<1>1. /\ entries = [i \in 0 .. TABLE_TOTAL - 1 |-> {}]
      /\ process = [p \in Process |-> NoProcess] /\ leaked = {}
  BY DEF Init, Heap!HEAP_BLOCK_TABLE_ENTRY_FREE
<1>2. \A p \in Process : process[p] = NoProcess /\ Held(process[p]) = {}
  BY <1>1, HeldNothing
<1>3. Lost = {}
  BY <1>1 DEF Lost
<1>4. AllHeld = {}
  BY <1>2, <1>3 DEF AllHeld
<1>5. Describes(entries, {})
  <2>1. {} \in Heap!Entry
    BY DEF Heap!Entry
  <2> QED
    BY <1>1, <2>1 DEF Describes
<1> QED
  BY <1>1, <1>2, <1>3, <1>4, <1>5 DEF IInv

\* A load that fails loses what it had allocated and nothing else.
LEMMA LoadFailsInv == ASSUME IInv, NEW p \in Process, LoadFails(p) PROVE IInv'
<1>1. p \notin Live /\ process' = process
  BY DEF LoadFails
<1>2. PICK k \in 0 .. 4 : /\ Granted(Grab(k)) /\ entries' = Grab(k).entries
                          /\ leaked' = leaked \cup Elements(Grab(k).ptrs)
  BY DEF LoadFails
<1>3. process[p] = NoProcess /\ Describes(entries, Others(p))
  BY <1>1, InOrder
<1>4. k \in Nat
  OBVIOUS
<1>5. PICK g, L : g = Grab(k) /\ L = Others(p)
  OBVIOUS
<1>6. Grabbed(L, g, k)
  BY <1>3, <1>4, <1>5, GrabAll
<1>7. PICK s, e, N, q, M : /\ s = g.ptrs /\ e = g.entries /\ N = Elements(s) /\ q = NoProcess
                           /\ M = {One(x) : x \in N}
  OBVIOUS
<1>8. /\ s \in Seq(Address) /\ Len(s) = k
      /\ Describes(e, L \cup Items(s)) /\ L \cap Items(s) = {}
  BY <1>6, <1>7 DEF Grabbed
<1>9. NULL \notin N /\ N \in SUBSET (1 .. TABLE_TOTAL)
  <2>1. \A i \in DOMAIN s : s[i] \in Address /\ s[i] # NULL
    BY <1>2, <1>5, <1>7, <1>8 DEF Granted
  <2>2. \A x \in Address : x # NULL => x \in 1 .. TABLE_TOTAL
    BY TotalAssumption DEF Address, NULL
  <2> QED
    BY <1>7, <2>1, <2>2 DEF Elements
<1>10. M = Items(s)
  BY <1>7, <1>9 DEF Items
<1>11. Held(q) = {}
  BY <1>7, HeldNothing
<1>12. Describes(e, (Others(p) \cup M) \cup Held(q))
  <2>1. (Others(p) \cup M) \cup Held(q) = L \cup Items(s)
    BY <1>5, <1>10, <1>11
  <2> QED
    BY <1>8, <2>1
<1>13. Others(p) \cap M = {} /\ (Others(p) \cup M) \cap Held(q) = {}
  BY <1>5, <1>8, <1>10, <1>11
<1>14. entries' = e /\ leaked' = leaked \cup N /\ process' = [process EXCEPT ![p] = q]
  <2>1. process = [r \in Process |-> process[r]]
    BY DEF IInv
  <2> QED
    BY <1>1, <1>2, <1>3, <1>5, <1>7, <2>1
<1> QED
  BY <1>7, <1>9, <1>12, <1>13, <1>14, OneProcess

\* Commands 6 and 7 and kernel_main.
LEMMA LoadInv ==
  ASSUME IInv, NEW p \in Process, NEW arguments \in BOOLEAN, process_load(p, arguments)
  PROVE  IInv'
<1>1. p \notin Live
  BY DEF process_load
<1>2. PICK n \in {4, 5} :
        /\ Granted(Grab(n))
        /\ Becomes(p, IF arguments THEN process_inject_arguments(Loaded(Grab(n)))
                                   ELSE Loaded(Grab(n)))
        /\ leaked' = leaked \cup (IF n = 4 THEN {} ELSE {Grab(n).ptrs[2]})
  BY DEF process_load
<1>3. process[p] = NoProcess /\ Describes(entries, Others(p))
  BY <1>1, InOrder
<1>4. PICK g, L, m0 : g = Grab(n) /\ L = Others(p) /\ m0 = Loaded(g)
  OBVIOUS
<1>5. Grabbed(L, g, n)
  <2>1. Describes(entries, L) /\ n \in Nat
    BY <1>3, <1>4
  <2> QED
    BY <1>4, <2>1, GrabAll
<1>6. PICK N, M : N = Behind(g, n) /\ M = Ones(Behind(g, n))
  OBVIOUS
<1>7. /\ m0 = [entries |-> m0.entries, proc |-> m0.proc]
      /\ Good(m0.entries, m0.proc, L \cup Ones(Behind(g, n)))
      /\ Behind(g, n) \subseteq 1 .. TABLE_TOTAL
      /\ L \cap Ones(Behind(g, n)) = {}
  <2>1. n \in {4, 5} /\ Grabbed(L, g, n) /\ Granted(g) /\ m0 = Loaded(g)
    BY <1>2, <1>4, <1>5
  <2>2. InPlace(L, n, g, m0)
    BY <2>1, Load
  <2> QED
    BY <2>2 DEF InPlace
<1>8. PICK f, r : f = m0.entries /\ r = m0.proc
  OBVIOUS
<1>9. m0 = [entries |-> f, proc |-> r] /\ Good(f, r, L \cup M)
  BY <1>6, <1>7, <1>8
<1>10. PICK m : m = IF arguments THEN process_inject_arguments(m0) ELSE m0
  OBVIOUS
<1>11. Good(m.entries, m.proc, L \cup M)
  <2>1. CASE arguments
    <3>1. m = process_inject_arguments([entries |-> f, proc |-> r])
      BY <1>9, <1>10, <2>1
    <3> QED
      BY <1>9, <3>1, Inject
  <2>2. CASE ~arguments
    BY <1>8, <1>9, <1>10, <2>2
  <2> QED
    BY <2>1, <2>2
<1>12. PICK e, q : e = m.entries /\ q = m.proc
  OBVIOUS
<1>13. /\ WellFormed(q) /\ Describes(e, (Others(p) \cup M) \cup Held(q))
       /\ (Others(p) \cup M) \cap Held(q) = {}
  BY <1>4, <1>11, <1>12 DEF Good
<1>14. N \in SUBSET (1 .. TABLE_TOTAL) /\ M = {One(x) : x \in N} /\ Others(p) \cap M = {}
  BY <1>4, <1>6, <1>7 DEF Ones
<1>15. entries' = e /\ process' = [process EXCEPT ![p] = q] /\ leaked' = leaked \cup N
  BY <1>2, <1>4, <1>6, <1>10, <1>12 DEF Becomes, Behind
<1> QED
  BY <1>13, <1>14, <1>15, OneProcess

\* A step of a running process that loses nothing.
LEMMA KeepsAll ==
  ASSUME IInv, NEW p \in Process, NEW m, Good(m.entries, m.proc, Others(p)),
         Becomes(p, m), leaked' = leaked
  PROVE  IInv'
<1>1. PICK e, q, N, M : e = m.entries /\ q = m.proc /\ N = {} /\ M = {One(x) : x \in N}
  OBVIOUS
<1>2. M = {} /\ N \in SUBSET (1 .. TABLE_TOTAL)
  BY <1>1
<1>3. WellFormed(q) /\ Describes(e, Others(p) \cup Held(q)) /\ Others(p) \cap Held(q) = {}
  BY <1>1 DEF Good
<1>4. Others(p) \cup M = Others(p)
  BY <1>2
<1>5. /\ Describes(e, (Others(p) \cup M) \cup Held(q))
      /\ Others(p) \cap M = {} /\ (Others(p) \cup M) \cap Held(q) = {}
  BY <1>2, <1>3, <1>4
<1>6. entries' = e /\ process' = [process EXCEPT ![p] = q] /\ leaked' = leaked \cup N
  BY <1>1 DEF Becomes
<1> QED
  BY <1>1, <1>2, <1>3, <1>5, <1>6, OneProcess

LEMMA MallocInv == ASSUME IInv, NEW p \in Process, isr80h_command4_malloc(p) PROVE IInv'
<1>1. p \in Live /\ leaked' = leaked
  BY DEF isr80h_command4_malloc
<1>2. PICK size \in Sizes : Becomes(p, process_malloc(Memory(p), size))
  BY DEF isr80h_command4_malloc
<1>3. PICK m, e, q, R : /\ m = process_malloc(Memory(p), size) /\ e = entries /\ q = process[p]
                        /\ R = Others(p)
  OBVIOUS
<1>4. m = process_malloc([entries |-> e, proc |-> q], size)
  BY <1>3 DEF Memory
<1>5. Good(e, q, R)
  BY <1>1, <1>3, InOrder
<1>6. size \in Sizes \cup {1}
  OBVIOUS
<1>7. Good(m.entries, m.proc, R)
  BY <1>4, <1>5, <1>6, Malloc
<1> QED
  BY <1>1, <1>2, <1>3, <1>7, KeepsAll

\* Whatever pointer the program passes.
LEMMA FreeInv == ASSUME IInv, NEW p \in Process, isr80h_command5_free(p) PROVE IInv'
<1>1. p \in Live /\ leaked' = leaked
  BY DEF isr80h_command5_free
<1>2. PICK ptr \in 0 .. TABLE_TOTAL : Becomes(p, process_free(Memory(p), ptr))
  BY DEF isr80h_command5_free
<1>3. PICK m, e, q, R : /\ m = process_free(Memory(p), ptr) /\ e = entries /\ q = process[p]
                        /\ R = Others(p)
  OBVIOUS
<1>4. m = process_free([entries |-> e, proc |-> q], ptr)
  BY <1>3 DEF Memory
<1>5. Good(e, q, R)
  BY <1>1, <1>3, InOrder
<1>6. Good(m.entries, m.proc, R)
  BY <1>4, <1>5, Free
<1> QED
  BY <1>1, <1>2, <1>3, <1>6, KeepsAll

LEMMA TerminateInv == ASSUME IInv, NEW p \in Process, process_terminate(p) PROVE IInv'
<1>1. PICK m, e0, q0, R : /\ m = process_terminate_allocations(Memory(p))
                          /\ e0 = entries /\ q0 = process[p] /\ R = Others(p)
  OBVIOUS
<1>2. /\ p \in Live
      /\ entries' = kernel_free(kernel_free(kernel_free(m.entries, m.proc.program),
                                            m.proc.stack), m.proc.task)
      /\ process' = [process EXCEPT ![p] = NoProcess]
      /\ leaked' = leaked \cup {process[p].self}
  BY <1>1 DEF process_terminate
<1>3. m = process_terminate_allocations([entries |-> e0, proc |-> q0])
  BY <1>1 DEF Memory
<1>4. Good(e0, q0, R)
  BY <1>1, <1>2, InOrder
<1>5. PICK e, s, N, M, q :
        /\ e = kernel_free(kernel_free(kernel_free(m.entries, m.proc.program),
                                       m.proc.stack), m.proc.task)
        /\ s = q0.self /\ N = {s} /\ M = {One(x) : x \in N} /\ q = NoProcess
  OBVIOUS
<1>6. Describes(e, R \cup {One(s)}) /\ One(s) \notin R /\ s \in 1 .. TABLE_TOTAL
  BY <1>3, <1>4, <1>5, Terminate
<1>7. M = {One(s)} /\ Held(q) = {} /\ N \in SUBSET (1 .. TABLE_TOTAL)
  BY <1>5, <1>6, HeldNothing
<1>8. (Others(p) \cup M) \cup Held(q) = R \cup {One(s)}
  BY <1>1, <1>7
<1>9. /\ Describes(e, (Others(p) \cup M) \cup Held(q))
      /\ Others(p) \cap M = {} /\ (Others(p) \cup M) \cap Held(q) = {}
  BY <1>1, <1>6, <1>7, <1>8
<1>10. entries' = e /\ process' = [process EXCEPT ![p] = q] /\ leaked' = leaked \cup N
  BY <1>1, <1>2, <1>5
<1> QED
  BY <1>5, <1>7, <1>9, <1>10, OneProcess

LEMMA StepInv == IInv /\ [Next]_vars => IInv'
<1> SUFFICES ASSUME IInv, [Next]_vars PROVE IInv'
  OBVIOUS
<1>1. CASE Next
  <2>1. PICK p \in Process :
          \/ LoadFails(p) \/ isr80h_command6_process_load_start(p)
          \/ isr80h_command7_invoke_system_command(p) \/ isr80h_command4_malloc(p)
          \/ isr80h_command5_free(p) \/ process_terminate(p)
    BY <1>1 DEF Next
  <2>2. CASE LoadFails(p)
    BY <2>2, LoadFailsInv
  <2>3. CASE isr80h_command6_process_load_start(p)
    <3>1. process_load(p, FALSE)
      BY <2>3 DEF isr80h_command6_process_load_start
    <3> QED
      BY <3>1, LoadInv
  <2>4. CASE isr80h_command7_invoke_system_command(p)
    <3>1. process_load(p, TRUE)
      BY <2>4 DEF isr80h_command7_invoke_system_command
    <3> QED
      BY <3>1, LoadInv
  <2>5. CASE isr80h_command4_malloc(p)
    BY <2>5, MallocInv
  <2>6. CASE isr80h_command5_free(p)
    BY <2>6, FreeInv
  <2>7. CASE process_terminate(p)
    BY <2>7, TerminateInv
  <2> QED
    BY <2>1, <2>2, <2>3, <2>4, <2>5, <2>6, <2>7
<1>2. CASE UNCHANGED vars
  <2>1. entries' = entries /\ process' = process /\ leaked' = leaked
    BY <1>2 DEF vars
  <2>2. Lost' = Lost /\ \A p : Held(process'[p]) = Held(process[p])
    BY <2>1 DEF Lost
  <2>3. AllHeld' = AllHeld
    BY <2>1, <2>2 DEF AllHeld
  <2> QED
    BY <2>1, <2>2, <2>3 DEF IInv
<1> QED
  BY <1>1, <1>2

------------------------------------------------------------------------------
(* What the invariant says of the state. *)

LEMMA OfOne == \A x \in Nat : Of(One(x)) = {x}
<1> SUFFICES ASSUME NEW x \in Nat PROVE Of(One(x)) = {x}
  OBVIOUS
<1>1. Of(One(x)) = x .. x + 1 - 1
  BY DEF Of, One, Range
<1> QED
  BY <1>1

\* The blocks that are taken are those of the allocations.
LEMMA TakenAreHeld ==
  ASSUME IInv
  PROVE  \A x : x \in TakenAddresses <=> x \in Address /\ \E a \in AllHeld : x \in Of(a)
<1> USE TotalAssumption
<1>1. /\ DOMAIN entries = 0 .. TABLE_TOTAL - 1 /\ AllHeld \subseteq Item
      /\ \A a \in AllHeld : \A i \in 0 .. TABLE_TOTAL - 1 :
           i + 1 \in Of(a) => entries[i] = Flags(a, i)
      /\ \A i \in 0 .. TABLE_TOTAL - 1 : (\A a \in AllHeld : i + 1 \notin Of(a)) => entries[i] = {}
  BY DEF IInv, Describes
<1>2. \A a, i : Flags(a, i) # {}
  BY DEF Flags
<1>3. \A i \in 0 .. TABLE_TOTAL - 1 : entries[i] # {} <=> \E a \in AllHeld : i + 1 \in Of(a)
  BY <1>1, <1>2
<1>4. ASSUME NEW x \in TakenAddresses PROVE x \in Address /\ \E a \in AllHeld : x \in Of(a)
  <2>1. PICK i \in 0 .. TABLE_TOTAL - 1 : entries[i] # {} /\ x = i + 1
    BY <1>1 DEF TakenAddresses
  <2>2. x \in Address
    BY <2>1 DEF Address
  <2>3. \E a \in AllHeld : i + 1 \in Of(a)
    BY <1>3, <2>1
  <2> QED
    BY <2>1, <2>2, <2>3
<1>5. ASSUME NEW x \in Address, NEW a \in AllHeld, x \in Of(a) PROVE x \in TakenAddresses
  <2>1. a.ptr \in 1 .. TABLE_TOTAL /\ a.size \in Nat /\ Of(a) = a.ptr .. a.ptr + a.size - 1
    BY <1>1 DEF Item, Of, Range
  <2>2. PICK i : i = x - 1
    OBVIOUS
  <2>3. i \in 0 .. TABLE_TOTAL - 1 /\ x = i + 1
    BY <1>5, <2>1, <2>2 DEF Address
  <2>4. entries[i] # {}
    BY <1>3, <1>5, <2>3
  <2> QED
    BY <1>1, <2>3, <2>4 DEF TakenAddresses
<1> QED
  BY <1>4, <1>5

\* What a process has is what it holds.
LEMMA MemoriesAreHeld ==
  ASSUME IInv, NEW p \in Process
  PROVE  /\ \A x : x \in Memories(p) <=> \E a \in Held(process[p]) : x \in Of(a)
         /\ p \in Live => process[p].writable = UserMemory(p)
<1>1. PICK q : q = process[p]
  OBVIOUS
<1>2. CASE p \notin Live
  <2>1. Memories(p) = {}
    BY <1>2 DEF Memories
  <2>2. Held(process[p]) = {}
    BY <1>2, InOrder, HeldNothing
  <2> QED
    BY <1>2, <2>1, <2>2
<1>3. CASE p \in Live
  <2>1. WellFormed(q)
    BY <1>1, <1>3, InOrder DEF Good
  <2>2. q \in Struct /\ Distinct(q) /\ q.writable = User(q)
    BY <2>1 DEF WellFormed
  <2>3. UserMemory(p) = User(q)
    BY <1>1 DEF UserMemory, User
  <2>4. Memories(p) = User(q) \cup {q.self, q.task}
    BY <1>1, <1>3, <2>3 DEF Memories
  <2>5. \A x \in Parts(q) : x \in Nat /\ x # NULL /\ One(x) \in Held(q) /\ Of(One(x)) = {x}
    <3> SUFFICES ASSUME NEW x \in Parts(q)
                 PROVE  x \in Nat /\ x # NULL /\ One(x) \in Held(q) /\ Of(One(x)) = {x}
      OBVIOUS
    <3>1. x \in Nat
      BY <2>2, TotalAssumption DEF Struct, Parts, Address
    <3>2. x # NULL
      BY <2>2 DEF Distinct
    <3>3. One(x) \in Held(q)
      BY <3>2, HeldMember
    <3> QED
      BY <3>1, <3>2, <3>3, OfOne
  <2>6. ASSUME NEW x \in Memories(p) PROVE \E a \in Held(q) : x \in Of(a)
    <3>1. CASE x \in {q.program, q.stack, q.self, q.task}
      <4>1. x \in Parts(q)
        BY <3>1 DEF Parts
      <4>2. One(x) \in Held(q) /\ x \in Of(One(x))
        BY <2>5, <4>1
      <4> QED
        BY <4>2
    <3>2. CASE \E i \in AllocationSlot : x \in Range(q.allocations[i].ptr, q.allocations[i].size)
      <4>1. PICK i \in AllocationSlot : x \in Range(q.allocations[i].ptr, q.allocations[i].size)
        BY <3>2
      <4>2. PICK a : a = q.allocations[i]
        OBVIOUS
      <4>3. a.ptr # NULL
        <5> SUFFICES ASSUME a.ptr = NULL PROVE FALSE
          OBVIOUS
        <5>1. a.size = 0
          BY <2>2, <4>2 DEF Distinct
        <5>2. Range(a.ptr, a.size) = {}
          BY <5>1 DEF Range, NULL
        <5> QED
          BY <4>1, <4>2, <5>2
      <4>4. a \in Held(q)
        BY <4>2, <4>3, HeldMember
      <4>5. x \in Of(a)
        BY <4>1, <4>2 DEF Of
      <4> QED
        BY <4>4, <4>5
    <3>3. \/ x \in {q.program, q.stack, q.self, q.task}
          \/ \E i \in AllocationSlot : x \in Range(q.allocations[i].ptr, q.allocations[i].size)
      BY <2>4, <2>6, UserMember
    <3> QED
      BY <3>1, <3>2, <3>3
  <2>7. ASSUME NEW a \in Held(q), NEW x \in Of(a) PROVE x \in Memories(p)
    <3>1. CASE \E y \in Parts(q) \ {NULL} : a = One(y)
      <4>1. PICK y \in Parts(q) \ {NULL} : a = One(y)
        BY <3>1
      <4>2. x = y
        BY <2>5, <2>7, <4>1
      <4>3. y \in {q.program, q.stack, q.self, q.task}
        BY DEF Parts
      <4>4. q.program \in User(q) /\ q.stack \in User(q)
        BY UserMember
      <4> QED
        BY <2>4, <4>2, <4>3, <4>4
    <3>2. CASE \E i \in AllocationSlot : a = q.allocations[i] /\ a.ptr # NULL
      <4>1. PICK i \in AllocationSlot : a = q.allocations[i]
        BY <3>2
      <4>2. x \in Range(q.allocations[i].ptr, q.allocations[i].size)
        BY <2>7, <4>1 DEF Of
      <4>3. x \in User(q)
        BY <4>1, <4>2, UserMember
      <4> QED
        BY <2>4, <4>3
    <3>3. \/ \E y \in Parts(q) \ {NULL} : a = One(y)
          \/ \E i \in AllocationSlot : a = q.allocations[i] /\ a.ptr # NULL
      BY <2>7 DEF Held
    <3> QED
      BY <3>1, <3>2, <3>3
  <2> QED
    BY <1>1, <2>2, <2>3, <2>6, <2>7
<1> QED
  BY <1>2, <1>3

LEMMA InvType == IInv => TypeOK
<1> SUFFICES ASSUME IInv PROVE TypeOK
  OBVIOUS
<1>1. /\ entries \in [0 .. TABLE_TOTAL - 1 -> Heap!Entry] /\ leaked \subseteq 1 .. TABLE_TOTAL
      /\ \A p \in Process : process[p] = NoProcess \/ WellFormed(process[p])
  BY DEF IInv, Describes
<1>2. leaked \subseteq Address
  BY <1>1, TotalAssumption DEF Address
<1>3. ASSUME NEW q \in Struct
      PROVE  /\ {q.self, q.program, q.stack, q.task} \subseteq Address
             /\ q.allocations \in [AllocationSlot -> [ptr : Address, size : Sizes \cup {0, 1}]]
  BY DEF Struct
<1>4. NoProcess \in Struct
  <2>1. NULL \in Address /\ NoAllocation \in [ptr : Address, size : Sizes \cup {0, 1}]
    BY TotalAssumption DEF NoAllocation, NULL, Address
  <2>2. PICK none : none = [i \in AllocationSlot |-> NoAllocation]
    OBVIOUS
  <2>3. none \in [AllocationSlot -> [ptr : Address, size : Sizes \cup {0, 1}]]
    BY <2>1, <2>2
  <2>4. NoProcess = [self |-> NULL, program |-> NULL, stack |-> NULL, task |-> NULL,
                     allocations |-> none, writable |-> {}]
    BY <2>2 DEF NoProcess
  <2> QED
    BY <2>1, <2>3, <2>4 DEF Struct
<1>5. \A p \in Process : process[p] \in Struct
  BY <1>1, <1>4 DEF WellFormed
<1> QED
  BY <1>1, <1>2, <1>3, <1>5 DEF TypeOK

LEMMA InvOwned == IInv => MemoryIsOwned
<1> SUFFICES ASSUME IInv PROVE MemoryIsOwned
  OBVIOUS
<1>1. \A p \in Process : Held(process[p]) \subseteq AllHeld
  BY DEF AllHeld
<1>2. \A p \in Live : p \in Process
  BY DEF Live
<1>3. \A p \in Live : process[p].writable = UserMemory(p)
  BY <1>2, MemoriesAreHeld
<1>4. ASSUME NEW p \in Live PROVE Memories(p) \cap Address \subseteq TakenAddresses
  <2> SUFFICES ASSUME NEW x \in Memories(p), x \in Address PROVE x \in TakenAddresses
    OBVIOUS
  <2>1. \E a \in Held(process[p]) : x \in Of(a)
    BY <1>2, MemoriesAreHeld
  <2> QED
    BY <1>1, <1>2, <2>1, TakenAreHeld
<1>5. ASSUME NEW p \in Live, NEW q \in Live, p # q PROVE Memories(p) \cap Memories(q) = {}
  <2> SUFFICES ASSUME NEW x \in Memories(p), x \in Memories(q) PROVE FALSE
    OBVIOUS
  <2>1. PICK a \in Held(process[p]) : x \in Of(a)
    BY <1>2, MemoriesAreHeld
  <2>2. PICK b \in Held(process[q]) : x \in Of(b)
    BY <1>2, MemoriesAreHeld
  <2>3. a # b
    <3>1. Held(process[p]) \cap Held(process[q]) = {}
      BY <1>2, <1>5 DEF IInv
    <3> QED
      BY <3>1
  <2>4. a \in AllHeld /\ b \in AllHeld
    BY <1>1, <1>2
  <2>5. Of(a) \cap Of(b) = {}
    BY <2>3, <2>4 DEF IInv, Describes
  <2> QED
    BY <2>1, <2>2, <2>5
<1> QED
  BY <1>3, <1>4, <1>5 DEF MemoryIsOwned

LEMMA InvAccounted == IInv => Accounted
<1> SUFFICES ASSUME IInv PROVE Accounted
  OBVIOUS
<1>1. \A x \in leaked : Of(One(x)) = {x}
  <2>1. \A x \in leaked : x \in Nat
    BY TotalAssumption DEF IInv
  <2> QED
    BY <2>1, OfOne
<1>2. \A x : (\E a \in Lost : x \in Of(a)) <=> x \in leaked
  BY <1>1 DEF Lost
<1>3. \A x : (\E a \in AllHeld : x \in Of(a)) <=>
               \/ \E a \in Lost : x \in Of(a)
               \/ \E p \in Process : \E a \in Held(process[p]) : x \in Of(a)
  BY DEF AllHeld
<1>4. \A x : (\E p \in Process : \E a \in Held(process[p]) : x \in Of(a)) <=>
               \E p \in Process : x \in Memories(p)
  BY MemoriesAreHeld
<1>5. \A x : x \in TakenAddresses <=>
               x \in Address /\ (x \in leaked \/ \E p \in Process : x \in Memories(p))
  BY <1>2, <1>3, <1>4, TakenAreHeld
<1>6. \A x : x \in (leaked \cup UNION {Memories(p) : p \in Process}) \cap Address <=>
               x \in Address /\ (x \in leaked \/ \E p \in Process : x \in Memories(p))
  OBVIOUS
<1> QED
  BY <1>5, <1>6 DEF Accounted

------------------------------------------------------------------------------
(* The theorems. *)

\* Every pointer that a struct process keeps, and every address that is lost,
\* is NULL or an address in the heap, and the table keeps its entries: what
\* process_load_for_slot, process_malloc, process_free and process_terminate
\* write is always of the type they read.
THEOREM ProcessMemoryTypeOK == Spec => []TypeOK
<1>1. Init => IInv
  BY InitInv
<1>2. IInv /\ [Next]_vars => IInv'
  BY StepInv
<1>3. IInv => TypeOK
  BY InvType
<1> QED
  BY <1>1, <1>2, <1>3, PTL DEF Spec

\* Nothing a program does with malloc and free, and no load that fails, gives
\* a block of one process to another, and the pages a process may write are
\* its own memory: process_free looks the pointer up in the process's own
\* allocations before it touches the heap or the page directory.
THEOREM ProcessesKeepTheirMemory == Spec => []MemoryIsOwned
<1>1. Init => IInv
  BY InitInv
<1>2. IInv /\ [Next]_vars => IInv'
  BY StepInv
<1>3. IInv => MemoryIsOwned
  BY InvOwned
<1> QED
  BY <1>1, <1>2, <1>3, PTL DEF Spec

\* The only blocks that are taken and that no process has are the struct
\* processes of ended programs, what failed loads had allocated and the ELF
\* images of files that were none: a full allocation table, any free and
\* process_terminate give the rest back.
THEOREM NothingElseIsLost == Spec => []Accounted
<1>1. Init => IInv
  BY InitInv
<1>2. IInv /\ [Next]_vars => IInv'
  BY StepInv
<1>3. IInv => Accounted
  BY InvAccounted
<1> QED
  BY <1>1, <1>2, <1>3, PTL DEF Spec
==============================================================================
