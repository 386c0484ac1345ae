------------------------------- MODULE FatRead -------------------------------
(***************************************************************************)
(* Reading a file: fat16_read down to disk_read_block, in                  *)
(* src/fileSystem/fat/fat16.c, src/disk/streamer.c and src/disk/disk.c.    *)
(* One call of fat16_read, one step per member, per cluster and per sector.*)
(*                                                                         *)
(* A byte is told apart by where it is on the disk, so that what the call  *)
(* writes to the caller's buffer is a sequence of positions.  Of the words *)
(* on the disk only the file allocation table is kept; "stray" is what is  *)
(* read as a table entry anywhere else.                                    *)
(***************************************************************************)
EXTENDS Integers, Sequences

CONSTANTS
  SECTOR_SIZE,
  sectors_per_cluster, reserved_sectors,      \* fat_header
  fat_sectors,                                \* fat_copies * sectors_per_fat
  root_dir_size,                              \* bytes
  Files,                                      \* chains of clusters on the disk
  Sizes, Members, Positions,                  \* size, nmemb and pos of a call
  Strays                                      \* words found outside the table

ASSUME GeometryAssumption ==
  /\ {SECTOR_SIZE, sectors_per_cluster, reserved_sectors} \subseteq Nat \ {0}
  /\ {fat_sectors, root_dir_size} \subseteq Nat
  /\ root_dir_size % SECTOR_SIZE = 0

\* A file has a cluster; cluster numbers are uint16, and so are table entries.
ASSUME DiskAssumption ==
  Files \subseteq Seq(Nat) \ {<< >>} /\ Strays \subseteq Nat

\* fread turns down a call with size or nmemb 0.
ASSUME CallAssumption ==
  /\ (Sizes \cup Members) \subseteq Nat \ {0}
  /\ Positions \subseteq Nat

IO_ERROR == 1

VARIABLES
  file,      \* the chain of the file that is read
  stray,
  call,      \* [pos, size, nmemb]
  pc,        \* member, cluster, stream, done, failed
  i,         \* members read
  offset,    \* in the file
  total,     \* bytes of the member still to read
  position,  \* of cluster_read_stream
  want,      \* bytes disk_stream_read still has to read
  out        \* the caller's buffer

vars == <<file, stray, call, pc, i, offset, total, position, want, out>>

Lesser(a, b) == IF a < b THEN a ELSE b

size_of_cluster_bytes == sectors_per_cluster * SECTOR_SIZE

------------------------------------------------------------------------------
(* The file allocation table. *)

fat_table_position == reserved_sectors * SECTOR_SIZE

\* The clusters that come after one in a file.
Followers(cluster) ==
  UNION {{f[k + 1] : k \in {k \in 1 .. Len(f) - 1 : f[k] = cluster}} : f \in Files}

\* The word the table has for a cluster: the next one of its file; FAT16 marks
\* the last with 0xFFFF and a free one with 0.
NextCluster(cluster) ==
  IF Followers(cluster) # {} THEN CHOOSE next \in Followers(cluster) : TRUE
  ELSE IF \E f \in Files : f[Len(f)] = cluster THEN 65535 ELSE 0

\* What disk_stream_read finds at a byte position.
WordAt(pos) ==
  LET entry == pos - fat_table_position
  IN  IF entry >= 0 /\ entry < fat_sectors * SECTOR_SIZE /\ entry % 2 = 0
      THEN NextCluster(entry \div 2) ELSE stray

\* The position of an entry is a product where a sum is meant.
fat16_get_fat_entry(cluster) == WordAt(fat_table_position * (cluster * 2))

\* 0xFF8, 0xFFF; 0xF77; 0xFF0, 0xFF6; unused.
NoNext == {4088, 4095, 3959, 4080, 4086, 0}

fat16_get_cluster_for_offset(starting_cluster, off) ==
  LET cluster_ahead == off \div size_of_cluster_bytes
      at[k \in 0 .. cluster_ahead] ==
        IF k = 0 THEN starting_cluster
        ELSE IF at[k - 1] < 0 THEN at[k - 1]
        ELSE LET entry == fat16_get_fat_entry(at[k - 1])
             IN  IF entry \in NoNext THEN -IO_ERROR ELSE entry
  IN  at[cluster_ahead]

\* fat16_get_root_directory: where the data of cluster 2 starts.
ending_sector_pos ==
  fat_sectors + reserved_sectors + (root_dir_size \div SECTOR_SIZE)

fat16_cluster_to_sector(cluster) ==
  ending_sector_pos + (cluster - 2) * sectors_per_cluster

------------------------------------------------------------------------------
(* The call. *)

Init ==
  /\ file \in Files /\ stray \in Strays
  /\ call \in [pos : Positions, size : Sizes, nmemb : Members]
  /\ pc = "member" /\ i = 0 /\ offset = call.pos
  /\ total = 0 /\ position = 0 /\ want = 0 /\ out = << >>

\* The loop of fat16_read.
fat16_read ==
  /\ pc = "member"
  /\ \/ i < call.nmemb /\ pc' = "cluster" /\ total' = call.size
     \/ i = call.nmemb /\ pc' = "done" /\ total' = total
  /\ UNCHANGED <<file, stray, call, i, offset, position, want, out>>

\* Mutant: the rest of the member is not clipped to a cluster.
fat16_read_internal_unclipped ==
  /\ pc = "cluster"
  /\ position' = fat16_cluster_to_sector(file[1]) * SECTOR_SIZE + offset
  /\ want' = size_of_cluster_bytes
  /\ pc' = "stream"
  /\ UNCHANGED <<file, stray, call, i, offset, total, out>>

\* Mutant: the cluster is looked up again when that fails.
fat16_read_internal_retry ==
  LET cluster_to_use == fat16_get_cluster_for_offset(file[1], offset)
      starting_sector == fat16_cluster_to_sector(cluster_to_use)
  IN  /\ pc = "cluster"
      /\ \/ cluster_to_use < 0 /\ UNCHANGED <<pc, position, want>>
         \/ /\ cluster_to_use >= 0
            /\ position' = starting_sector * SECTOR_SIZE
                             + (offset % size_of_cluster_bytes)
            /\ want' = Lesser(total, size_of_cluster_bytes)
            /\ pc' = "stream"
      /\ UNCHANGED <<file, stray, call, i, offset, total, out>>

\* One call of fat16_read_internal_from_stream up to its disk_stream_read.
\* Where the offset is in the cluster has no part in how much is read.
fat16_read_internal ==
  LET cluster_to_use == fat16_get_cluster_for_offset(file[1], offset)
      starting_sector == fat16_cluster_to_sector(cluster_to_use)
  IN  /\ pc = "cluster"
      /\ \/ /\ cluster_to_use < 0
            /\ pc' = "failed"
            /\ UNCHANGED <<position, want>>
         \/ /\ cluster_to_use >= 0
            /\ position' = starting_sector * SECTOR_SIZE
                             + (offset % size_of_cluster_bytes)
            /\ want' = Lesser(total, size_of_cluster_bytes)
            /\ pc' = "stream"
      /\ UNCHANGED <<file, stray, call, i, offset, total, out>>

\* Mutant: the stream is not advanced.
disk_stream_read_unmoved(n) ==
  /\ out' = out \o [k \in 1 .. n |-> position + k - 1]
  /\ want' = want - n
  /\ UNCHANGED position

\* One sector: n bytes go to the buffer.  disk_read_block does not fail on
\* the only disk there is.
disk_stream_read(n) ==
  /\ out' = out \o [k \in 1 .. n |-> position + k - 1]
  /\ position' = position + n
  /\ want' = want - n

\* fat16_read_internal_from_stream calls itself for the rest of the member;
\* fat16_read goes on with the next one.
Resume(total_to_read) ==
  /\ total' = total - total_to_read
  /\ offset' = offset + total_to_read
  /\ IF total' > 0 THEN pc' = "cluster" /\ UNCHANGED i
     ELSE pc' = "member" /\ i' = i + 1

\* disk_stream_read calls itself as long as the rest is in another sector.
StreamStep ==
  LET room == SECTOR_SIZE - (position % SECTOR_SIZE)
  IN  /\ pc = "stream"
      /\ \/ /\ want > room
            /\ disk_stream_read(room)
            /\ UNCHANGED <<pc, i, offset, total>>
         \/ /\ want <= room
            /\ disk_stream_read(want)
            /\ Resume(Lesser(total, size_of_cluster_bytes))
      /\ UNCHANGED <<file, stray, call>>

Returned == pc \in {"done", "failed"} /\ UNCHANGED vars

Next == fat16_read \/ fat16_read_internal \/ StreamStep \/ Returned

Spec == Init /\ [][Next]_vars /\ WF_vars(Next)

------------------------------------------------------------------------------
(* Properties. *)

Asked == call.size * call.nmemb

\* Where byte k of the file, counted from 0, is on the disk: the data area is
\* behind the reserved sectors, the tables and the root directory, and its
\* first cluster has number 2.
FileByte(k) ==
  (reserved_sectors + fat_sectors) * SECTOR_SIZE + root_dir_size
    + (file[k \div size_of_cluster_bytes + 1] - 2) * size_of_cluster_bytes
    + (k % size_of_cluster_bytes)

FileBytes == [k \in 1 .. Asked |-> FileByte(call.pos + k - 1)]

\* fread into a buffer of size * nmemb bytes never writes past its end, and
\* fills it when it reports success, however members, clusters and sectors
\* cut the transfer.
FillsBuffer ==
  /\ Len(out) + want <= Asked
  /\ pc = "done" => Len(out) = Asked

\* What lies in the first cluster of a file (64 KiB on the disk the kernel is
\* built with) is read right: bytes in order, none twice, none left out, from
\* the data area of that file, and the call does not fail.
FirstClusterIsRead ==
  call.pos + Asked <= size_of_cluster_bytes =>
    /\ pc # "failed"
    /\ pc = "done" => out = FileBytes

\* "Used to stream the file allocation table" (fat16.c:117): with it, a read
\* inside a file of several clusters follows the chain.
FileIsRead ==
  call.pos + Asked <= Len(file) * size_of_cluster_bytes =>
    /\ pc # "failed"
    /\ pc = "done" => out = FileBytes

\* Every call returns, also when it follows a chain of stray words.
ReadReturns == <>(pc \in {"done", "failed"})
==============================================================================
