------------------------------ MODULE FileTable ------------------------------
(***************************************************************************)
(* Open files: src/fileSystem/file.c with the functions of                 *)
(* src/fileSystem/fat/fat16.c it calls (open, seek, stat, close) and       *)
(* src/fileSystem/pathParser.c.  What a read returns is in FatRead.        *)
(*                                                                         *)
(* Names are model values, a path on drive 0 is the sequence of the names  *)
(* between its slashes (EMPTY between two slashes).  Heap memory is a set  *)
(* of addresses; a parsed path, a fat_file_descriptor with its fat_item    *)
(* and the directory item that copies, a fat_item that is lost, and a      *)
(* fat_directory with its items are one allocation each.                   *)
(***************************************************************************)
EXTENDS Integers, Sequences, FiniteSets

CONSTANTS
  OS_MAX_FILE_DESCRIPTORS,
  WORD,        \* 2^32: pos and offset wrap here
  EMPTY,       \* no name
  Directory,   \* the root directory: [name, attributes, filesize]
  Paths,       \* what callers open
  Offsets,     \* what callers pass to fseek
  Volumes,     \* what fat16_resolve may find on the disk: [readable,
               \* signature, root]: the header can be read, its signature,
               \* the root directory can be loaded
  Memory       \* bound: heap addresses 1 .. Memory

\* An index and an error are numbers of 32 bits.
ASSUME MaxDescriptorsAssumption ==
  /\ WORD \in Nat /\ OS_MAX_FILE_DESCRIPTORS \in Nat \ {0}
  /\ OS_MAX_FILE_DESCRIPTORS < WORD

\* There is room for the three streams that are opened at boot.
ASSUME MemoryAssumption == Memory \in Nat /\ Memory >= 3

ASSUME DirectoryAssumption ==
  /\ Len(Directory) \in Nat /\ DOMAIN Directory = 1 .. Len(Directory)
  /\ \A e \in DOMAIN Directory :
       /\ Directory[e].attributes \in {"FILE", "SUBDIRECTORY", "DELETED"}
       /\ Directory[e].filesize \in 0 .. WORD - 1

ASSUME PathsAssumption == \A p \in Paths : p \in Seq({p[k] : k \in DOMAIN p})

ASSUME OffsetsAssumption == Offsets \subseteq Int

NULL == 0
ALL_OK == 0
IO_ERROR == 1
INVALID_ARGUMENT_ERROR == 2
NO_MEMORY_ERROR == 3
UNIMPLEMENTED_ERROR == 7

Address == 1 .. Memory
Index == 1 .. OS_MAX_FILE_DESCRIPTORS   \* descriptor->index

VARIABLES
  mounted,           \* disk.filesystem # 0
  file_descriptors,  \* [self, private] or NoDescriptor for each index
  private,           \* the fat_file_descriptor at an address: the entry of
                     \* Directory its item copies, and pos
  taken,             \* addresses in use
  leaked,            \* history: addresses in use that nobody will free
  path,              \* history: what each index was opened with
  res                \* what the last call returned

vars == <<mounted, file_descriptors, private, taken, leaked, path, res>>

NoDescriptor == [self |-> NULL, private |-> NULL]
NoPrivate == [item |-> 0, pos |-> 0]

Used == {fd \in Index : file_descriptors[fd] # NoDescriptor}

Lowest(S) == CHOOSE x \in S : \A y \in S : x <= y

Highest(S) == CHOOSE x \in S : \A y \in S : y <= x

\* The k lowest free addresses.
Free(k) ==
  LET free == Address \ taken
  IN  {a \in free : Cardinality({b \in free : b < a}) < k}

HasRoom(k) == Cardinality(Address \ taken) >= k

------------------------------------------------------------------------------
(* Paths and directories. *)

\* Parts end at the first empty one.  Each further part is linked behind the
\* first, so that only the last of them stays.
pathparser_parse(p) ==
  LET ends == {k \in DOMAIN p : p[k] = EMPTY}
      n == IF ends = {} THEN Len(p) ELSE Lowest(ends) - 1
  IN  IF n <= 1 THEN SubSeq(p, 1, n) ELSE <<p[1], p[n]>>

\* The entries that are not deleted are counted.
fat16_get_total_items_for_directory ==
  Cardinality({e \in DOMAIN Directory : Directory[e].attributes # "DELETED"})

\* Mutant: the names are not compared.
Matches_any(name) ==
  {e \in 1 .. fat16_get_total_items_for_directory :
     Directory[e].attributes # "DELETED"}

\* The scan takes so many entries from the start, deleted ones included, whose
\* first character is no character of a name.
Matches(name) ==
  {e \in 1 .. fat16_get_total_items_for_directory :
     Directory[e].name = name /\ Directory[e].attributes # "DELETED"}

\* The last match stays.
fat16_find_item_in_directory(name) ==
  Highest(Matches(name))

\* The fat_items of earlier matches, and the directory that is loaded for each
\* match that is one, are lost: the item is made a file afterwards.  A directory
\* that cannot be read is freed.
LostInSearch(name) ==
  {Cardinality(Matches(name)) - 1 + n :
     n \in 0 .. Cardinality({e \in Matches(name) : Directory[e].attributes = "SUBDIRECTORY"})}

------------------------------------------------------------------------------
(* fopen *)

Fails(error, lost) ==
  /\ taken' = taken \cup lost /\ leaked' = leaked \cup lost
  /\ res' = error
  /\ UNCHANGED <<mounted, file_descriptors, private, path>>

file_new_descriptor == Lowest(Index \ Used)

\* What fat16_open and fopen fill in; the rest of the memory got is lost.
Opens(p, got) ==
  LET fat == Lowest(got)
      self == Lowest((Address \ taken) \ got)
      fd == file_new_descriptor
  IN  /\ file_descriptors' = [file_descriptors EXCEPT
           ![fd] = [self |-> self, private |-> fat]]
      /\ private' = [private EXCEPT ![fat] =
           [item |-> fat16_find_item_in_directory(p[1]), pos |-> 0]]
      /\ path' = [path EXCEPT ![fd] = p]
      /\ taken' = taken \cup got \cup {self}
      /\ leaked' = leaked \cup (got \ {fat})
      /\ res' = fd
      /\ UNCHANGED mounted

\* drive is -1 for a malformed path, 0 for the disk there is.  The path is never
\* freed.  After "out:" an error is 0; a full table returns its error as it is.
\* Where the code does not check kernel_zalloc there is memory left.
fopen(drive, p, mode) ==
  LET parts == pathparser_parse(p)
      losses == {1 + n : n \in LostInSearch(parts[1])}  \* with the path
      got(lost) == Free(lost + 1)                       \* with the fat descriptor
      found == Matches(parts[1]) # {}
  IN  \/ drive = -1 /\ Fails(0, {})
      \/ /\ drive # -1 /\ HasRoom(1)
         /\ drive # 0 \/ parts = << >> \/ ~mounted \/ mode # "r" \/ ~HasRoom(2)
         /\ Fails(0, Free(1))
      \/ /\ drive = 0 /\ parts # << >> /\ mounted /\ mode = "r" /\ HasRoom(2)
         /\ \/ ~found /\ Fails(0, Free(2))
            \/ /\ found
               /\ \E lost \in losses :
                    \/ HasRoom(lost + 1) /\ Len(parts) = 2 /\ Fails(0, got(lost))
                    \/ /\ HasRoom(lost + 1) /\ Len(parts) = 1 /\ Used = Index
                       /\ Fails(-NO_MEMORY_ERROR, got(lost))
                    \/ /\ HasRoom(lost + 2) /\ Len(parts) = 1 /\ Used # Index
                       /\ Opens(p, got(lost))

------------------------------------------------------------------------------
(* fseek, fstat, fclose *)

\* An index that is equal to the size of the table is turned down.
file_get_descriptor(fd) ==
  IF fd <= 0 \/ fd >= OS_MAX_FILE_DESCRIPTORS THEN NoDescriptor
  ELSE file_descriptors[fd]

Entry(fd) == Directory[private[file_descriptors[fd].private].item]

\* fat16_seek: what is compared with the file's size is the offset, whatever
\* it is counted from; a negative one is huge.
SeekResult(fd, offset, whence) ==
  IF offset % WORD >= Entry(fd).filesize THEN -IO_ERROR
  ELSE IF whence = "SEEK_END" THEN -UNIMPLEMENTED_ERROR
  ELSE IF whence \in {"SEEK_SET", "SEEK_CUR"} THEN ALL_OK
  ELSE -INVALID_ARGUMENT_ERROR

\* Mutant: the sum is not cut to 32 bits.
Sought_wide(pos, offset, whence) ==
  IF whence = "SEEK_SET" THEN offset ELSE pos + offset

Sought(pos, offset, whence) ==
  IF whence = "SEEK_SET" THEN offset % WORD ELSE (pos + offset) % WORD

fseek(fd, offset, whence) ==
  LET at == file_get_descriptor(fd).private
  IN  /\ \/ /\ file_get_descriptor(fd) = NoDescriptor
            /\ res' = -INVALID_ARGUMENT_ERROR
            /\ UNCHANGED private
         \/ /\ file_get_descriptor(fd) # NoDescriptor
            /\ res' = SeekResult(fd, offset, whence)
            /\ private' = IF res' # ALL_OK THEN private
                          ELSE [private EXCEPT ![at].pos =
                                  Sought(@, offset, whence)]
      /\ UNCHANGED <<mounted, file_descriptors, taken, leaked, path>>

\* The size, or the error.
fstat(fd) ==
  /\ res' = IF file_get_descriptor(fd) = NoDescriptor
            THEN -INVALID_ARGUMENT_ERROR ELSE Entry(fd).filesize
  /\ UNCHANGED <<mounted, file_descriptors, private, taken, leaked, path>>

\* The number of items read; what they are, and that the position stays
\* where it is, is in FatRead.  A read of nothing is refused, and the chain of
\* clusters may end too early.
fread(fd, size) ==
  /\ IF size = 0 \/ fd < 1 \/ file_get_descriptor(fd) = NoDescriptor
     THEN res' = -INVALID_ARGUMENT_ERROR
     ELSE res' \in {1, -IO_ERROR}
  /\ UNCHANGED <<mounted, file_descriptors, private, taken, leaked, path>>

\* Mutant: no call of fat16_close.
Release_private(d) == {d.self}

\* fat16_close: the private data; then file_free_descriptor.
Release(d) == {d.self, d.private}

\* Mutant: the index is used as the table's position.
ClosedSlot_next(fd) == IF fd < OS_MAX_FILE_DESCRIPTORS THEN fd + 1 ELSE fd

ClosedSlot(fd) == fd

\* What freed memory holds is not kept.
fclose(fd) ==
  LET d == file_get_descriptor(fd)
  IN  /\ \/ /\ d = NoDescriptor
            /\ res' = -INVALID_ARGUMENT_ERROR
            /\ UNCHANGED <<file_descriptors, private, taken, path>>
         \/ /\ d # NoDescriptor
            /\ file_descriptors' =
                 [file_descriptors EXCEPT ![ClosedSlot(fd)] = NoDescriptor]
            /\ taken' = taken \ Release(d)
            /\ private' = [private EXCEPT ![d.private] = NoPrivate]
            /\ path' = [path EXCEPT ![fd] = << >>]
            /\ res' = ALL_OK
      /\ UNCHANGED <<mounted, leaked>>

------------------------------------------------------------------------------

fat16_resolve(v) == v.readable /\ v.signature = 41 /\ v.root

\* Over the one file system that fs_static_load inserts.
fs_resolve(v) == fat16_resolve(v)

\* fat16_init_private opens three streams; they stay behind when the disk is
\* turned down, and only then nobody has them.
Streams == 3

\* fs_init, disk_search_and_init
Init ==
  /\ \E v \in Volumes : mounted = fs_resolve(v)
  /\ file_descriptors = [fd \in Index |-> NoDescriptor]
  /\ private = [a \in Address |-> NoPrivate]
  /\ taken = IF mounted THEN {} ELSE 1 .. Streams
  /\ leaked = taken
  /\ path = [fd \in Index |-> << >>]
  /\ res = ALL_OK

FileNumber == 0 .. OS_MAX_FILE_DESCRIPTORS + 1

Whence == {"SEEK_SET", "SEEK_CUR", "SEEK_END", "OTHER"}

Next ==
  \/ \E drive \in {-1, 0, 1}, p \in Paths, mode \in {"r", "w"} :
       fopen(drive, p, mode)
  \/ \E fd \in FileNumber :
       \/ \E offset \in Offsets, whence \in Whence : fseek(fd, offset, whence)
       \/ \E size \in {0, 1} : fread(fd, size)
       \/ fstat(fd)
       \/ fclose(fd)

Spec == Init /\ [][Next]_vars

------------------------------------------------------------------------------
(* Properties. *)

\* The table and the private data name addresses, or nothing.
TypeOK ==
  /\ file_descriptors \in
       [Index -> [self : Address, private : Address] \cup {NoDescriptor}]
  /\ private \in
       [Address -> [item : {0} \cup DOMAIN Directory, pos : 0 .. WORD - 1]]
  /\ leaked \subseteq Address /\ taken \subseteq Address
  /\ res \in -9 .. WORD - 1

\* The memory behind an open descriptor.
Behind(fd) == {file_descriptors[fd].self, file_descriptors[fd].private}

\* Every open descriptor has memory of its own, still in use: no sequence of
\* opens, failed opens and closes makes two files share a position, or leaves
\* a descriptor with private data that went back to the heap.
OwnMemory ==
  \A fd \in Used :
    /\ Behind(fd) \subseteq taken /\ Cardinality(Behind(fd)) = 2
    /\ \A other \in Used \ {fd} : Behind(fd) \cap Behind(other) = {}

\* All memory in use is behind an open descriptor or one of the blocks that
\* fopen is known to lose: the path of every call, the private data of a call
\* that fails, earlier matches and loaded directories.
Accounted ==
  /\ taken = leaked \cup UNION {Behind(fd) : fd \in Used}
  /\ leaked \cap UNION {Behind(fd) : fd \in Used} = {}

\* A descriptor stands for the file that the first part of its path names, and
\* a path with a second part is never opened, whatever came before.
OpensNamedFile ==
  \A fd \in Used : /\ Entry(fd).name = path[fd][1]
                   /\ Len(path[fd]) = 1 \/ path[fd][2] = EMPTY
==============================================================================
