---------------------------- MODULE FatReadProofs ----------------------------
(***************************************************************************)
(* Proofs about reading a file, for any geometry of the disk, any files on *)
(* it, and any size, nmemb and pos of the call.                            *)
(***************************************************************************)
EXTENDS FatRead, TLAPS, NaturalsInduction, WellFoundedInduction, SequenceTheorems

Cluster == size_of_cluster_bytes

Types ==
  /\ file \in Files /\ stray \in Nat
  /\ call.pos \in Nat /\ call.size \in Nat \ {0} /\ call.nmemb \in Nat \ {0}
  /\ pc \in {"member", "cluster", "stream", "done", "failed"}
  /\ i \in Nat /\ offset \in Nat /\ total \in Nat
  /\ position \in Int /\ want \in Nat
  /\ out \in Seq(Int)

\* What of the request to disk_stream_read is already in the buffer.
Streamed == IF pc = "stream" THEN Lesser(total, Cluster) - want ELSE 0

\* The buffer holds i members and the part of the next one that is read.
Counted ==
  /\ pc \in {"member", "done"} => total = 0 /\ i <= call.nmemb
                                  /\ Len(out) = i * call.size
  /\ pc = "done" => i = call.nmemb
  /\ pc \in {"cluster", "stream", "failed"} =>
       /\ i < call.nmemb /\ total \in 1 .. call.size
       /\ Len(out) = i * call.size + (call.size - total) + Streamed
  /\ pc = "stream" => want \in 1 .. Lesser(total, Cluster)
  /\ pc # "stream" => want = 0

\* The offset in the file and the fill of the buffer advance together.
Placed == offset + Streamed = call.pos + Len(out)

\* Where the first cluster of the file is on the disk.
FirstByte ==
  (reserved_sectors + fat_sectors) * SECTOR_SIZE + root_dir_size
    + (file[1] - 2) * Cluster

InFirst ==
  call.pos + Asked <= Cluster =>
    /\ pc # "failed"
    /\ pc = "stream" => position = FirstByte + (call.pos + Len(out))
    /\ \A k \in 1 .. Len(out) : out[k] = FirstByte + (call.pos + k - 1)

\* The inductive invariant.  FillsBuffer is not inductive: what a member still
\* needs is in total, and FirstClusterIsRead says nothing of the bytes that are
\* in the buffer before the call is done.
IInv == Types /\ Counted /\ Placed /\ InFirst

------------------------------------------------------------------------------
(* Arithmetic and sequences. *)

LEMMA DivMod ==
  ASSUME NEW a \in Nat, NEW b \in Nat \ {0}
  PROVE  /\ a \div b \in Nat /\ a % b \in 0 .. b - 1
         /\ a < b => a \div b = 0 /\ a % b = a
<1>1. PICK q, r : q = a \div b /\ r = a % b
  OBVIOUS
<1>2. q \in Int /\ r \in 0 .. b - 1 /\ a = b * q + r
  BY <1>1
<1>3. ~(q < 0)
  <2> SUFFICES ASSUME q < 0 PROVE FALSE
    OBVIOUS
  <2>1. b * q <= -b
    BY <1>2
  <2> QED
    BY <1>2, <2>1
<1>4. a < b => q = 0
  <2> SUFFICES ASSUME a < b, q >= 1 PROVE FALSE
    BY <1>2, <1>3
  <2>1. b * q >= b
    BY <1>2
  <2> QED
    BY <1>2, <2>1
<1> QED
  BY <1>1, <1>2, <1>3, <1>4

\* A member that is begun fits into what was asked for.
LEMMA MemberFits ==
  ASSUME NEW k \in Nat, NEW n \in Nat, NEW s \in Nat, k < n
  PROVE  k * s + s <= n * s
<1>1. (k + 1) * s <= n * s
  BY SMT
<1> QED
  BY <1>1

LEMMA Least ==
  ASSUME NEW a \in Nat \ {0}, NEW b \in Nat \ {0}
  PROVE  /\ Lesser(a, b) \in Nat \ {0} /\ Lesser(a, b) <= a /\ Lesser(a, b) <= b
         /\ a <= b => Lesser(a, b) = a
BY DEF Lesser

LEMMA Geometry ==
  /\ SECTOR_SIZE \in Nat \ {0} /\ sectors_per_cluster \in Nat \ {0}
  /\ Cluster \in Nat \ {0}
<1>1. SECTOR_SIZE \in Nat \ {0} /\ sectors_per_cluster \in Nat \ {0}
  BY GeometryAssumption
<1>2. sectors_per_cluster * SECTOR_SIZE \in Nat \ {0}
  BY <1>1
<1> QED
  BY <1>1, <1>2 DEF Cluster, size_of_cluster_bytes

\* What disk_stream_read does to the buffer.
LEMMA Appended ==
  ASSUME NEW s \in Seq(Int), NEW p \in Int, NEW n \in Nat,
         NEW t, t = s \o [k \in 1 .. n |-> p + k - 1]
  PROVE  /\ t \in Seq(Int) /\ Len(t) = Len(s) + n
         /\ \A k \in 1 .. Len(s) : t[k] = s[k]
         /\ \A k \in 1 .. n : t[Len(s) + k] = p + k - 1
<1>1. PICK u : u = [k \in 1 .. n |-> p + k - 1]
  OBVIOUS
<1>2. u \in Seq(Int) /\ Len(u) = n
  BY <1>1
<1>3. t \in Seq(Int) /\ Len(t) = Len(s) + Len(u)
  BY <1>1, <1>2
<1>4. \A k \in 1 .. Len(s) + Len(u) : t[k] = IF k <= Len(s) THEN s[k] ELSE u[k - Len(s)]
  BY <1>1, <1>2
<1>5. \A k \in 1 .. Len(s) : t[k] = s[k]
  BY <1>2, <1>4
<1>6. ASSUME NEW k \in 1 .. n PROVE t[Len(s) + k] = p + k - 1
  <2>1. Len(s) + k \in 1 .. Len(s) + Len(u) /\ ~(Len(s) + k <= Len(s)) /\ (Len(s) + k) - Len(s) = k
    BY <1>2
  <2>2. t[Len(s) + k] = u[k]
    BY <1>4, <2>1
  <2> QED
    BY <1>1, <2>2
<1> QED
  BY <1>2, <1>3, <1>5, <1>6

LEMMA LeastExists ==
  ASSUME NEW S \in SUBSET Nat, S # {}
  PROVE  \E x \in S : \A y \in S : x <= y
<1> DEFINE R == OpToRel(<, Nat)
<1>1. \A y, z \in Nat : y < z => <<y, z>> \in R
  BY SMT DEF OpToRel
<1> HIDE DEF R
<1>2. IsWellFoundedOn(R, Nat)
  BY NatLessThanWellFounded DEF R
<1>3. PICK x \in S : \A y \in S : ~(<<y, x>> \in R)
  BY <1>2, WFMin
<1>4. \A y \in S : x <= y
  <2> SUFFICES ASSUME NEW y \in S PROVE ~(y < x)
    OBVIOUS
  <2>1. x \in Nat /\ y \in Nat
    OBVIOUS
  <2> QED
    BY <1>1, <1>3, <2>1
<1> QED
  BY <1>4

------------------------------------------------------------------------------
(* Following the table. *)

\* Words of the table are cluster numbers.
LEMMA NextClusterType ==
  ASSUME NEW c PROVE NextCluster(c) \in Nat
<1>1. Followers(c) \subseteq Nat
  <2> SUFFICES ASSUME NEW f \in Files, NEW k \in 1 .. Len(f) - 1
               PROVE  f[k + 1] \in Nat
    BY DEF Followers
  <2>1. f \in Seq(Nat) /\ Len(f) \in Nat
    BY DiskAssumption
  <2>2. k + 1 \in 1 .. Len(f)
    BY <2>1
  <2> QED
    BY <2>1, <2>2
<1> QED
  BY <1>1 DEF NextCluster

LEMMA EntryType ==
  ASSUME NEW c, stray \in Nat PROVE fat16_get_fat_entry(c) \in Nat
BY NextClusterType DEF fat16_get_fat_entry, WordAt

\* One turn of the loop of fat16_get_cluster_for_offset.
Follow(c) ==
  IF c < 0 THEN c
  ELSE LET entry == fat16_get_fat_entry(c)
       IN  IF entry \in NoNext THEN -IO_ERROR ELSE entry

LEMMA FollowType ==
  ASSUME NEW c \in Int, stray \in Nat PROVE Follow(c) \in Int
BY EntryType DEF Follow, IO_ERROR

\* f[k] is where the loop is after k turns.
Chain(c, n, f) == f = [k \in 0 .. n |-> IF k = 0 THEN c ELSE Follow(f[k - 1])]

\* fat16_get_cluster_for_offset has a value after any number of turns.
LEMMA ChainExists ==
  ASSUME NEW c, NEW n \in Nat PROVE \E f : Chain(c, n, f)
<1> DEFINE S == {k \in Nat : ~\E f : Chain(c, k, f)}
<1> SUFFICES ASSUME S # {} PROVE FALSE
  OBVIOUS
<1>1. S \in SUBSET Nat
  OBVIOUS
<1>2. PICK k \in S : \A j \in S : k <= j
  BY <1>1, LeastExists
<1>3. CASE k = 0
  <2>1. PICK f : f = [j \in 0 .. k |-> c]
    OBVIOUS
  <2>2. \A j \in 0 .. k : j = 0
    BY <1>3
  <2>3. f = [j \in 0 .. k |-> IF j = 0 THEN c ELSE Follow(f[j - 1])]
    BY <2>1, <2>2
  <2> QED
    BY <2>3 DEF Chain
<1>4. CASE k # 0
  <2>1. k - 1 \in Nat /\ k - 1 \notin S
    BY <1>2, <1>4
  <2>2. PICK g : Chain(c, k - 1, g)
    BY <2>1
  <2>3. PICK f : f = [j \in 0 .. k |-> IF j = k THEN Follow(g[k - 1]) ELSE g[j]]
    OBVIOUS
  <2>4. \A j \in 0 .. k - 1 : g[j] = IF j = 0 THEN c ELSE Follow(g[j - 1])
    BY <2>2 DEF Chain
  <2>5. ASSUME NEW j \in 0 .. k
        PROVE  f[j] = IF j = 0 THEN c ELSE Follow(f[j - 1])
    <3>1. CASE j = k
      <4>1. k - 1 \in 0 .. k /\ k - 1 # k /\ k \in 0 .. k
        BY <2>1
      <4>2. f[k] = Follow(g[k - 1]) /\ f[k - 1] = g[k - 1]
        BY <2>3, <4>1
      <4> QED
        BY <1>4, <3>1, <4>2
    <3>2. CASE j # k
      <4>1. j \in 0 .. k - 1 /\ f[j] = g[j]
        BY <2>1, <2>3, <3>2
      <4>2. CASE j = 0
        BY <2>4, <4>1, <4>2
      <4>3. CASE j # 0
        <5>1. j - 1 \in 0 .. k /\ j - 1 # k
          BY <2>1, <4>1, <4>3
        <5>2. f[j - 1] = g[j - 1]
          BY <2>3, <5>1
        <5> QED
          BY <2>4, <4>1, <4>3, <5>2
      <4> QED
        BY <4>2, <4>3
    <3> QED
      BY <3>1, <3>2
  <2>6. f = [j \in 0 .. k |-> f[j]]
    BY <2>3
  <2>7. f = [j \in 0 .. k |-> IF j = 0 THEN c ELSE Follow(f[j - 1])]
    BY <2>5, <2>6
  <2> QED
    BY <2>7 DEF Chain
<1> QED
  BY <1>3, <1>4

\* It is a number, and in the first cluster the file's own.
LEMMA ClusterForOffset ==
  ASSUME NEW c \in Int, NEW off \in Nat, stray \in Nat
  PROVE  /\ fat16_get_cluster_for_offset(c, off) \in Int
         /\ off < Cluster => fat16_get_cluster_for_offset(c, off) = c
<1>1. PICK n : n = off \div Cluster
  OBVIOUS
<1>2. n \in Nat /\ (off < Cluster => n = 0)
  BY <1>1, Geometry, DivMod
<1>3. PICK f : f = CHOOSE x : Chain(c, n, x)
  OBVIOUS
<1>4. fat16_get_cluster_for_offset(c, off) = f[n]
  BY <1>1, <1>3 DEF fat16_get_cluster_for_offset, Chain, Follow, Cluster
<1>5. Chain(c, n, f)
  BY <1>2, <1>3, ChainExists
<1>6. \A k \in 0 .. n : f[k] = IF k = 0 THEN c ELSE Follow(f[k - 1])
  BY <1>5 DEF Chain
<1>7. f[0] = c
  BY <1>2, <1>6
<1> DEFINE S == {k \in 0 .. n : f[k] \notin Int}
<1>8. S = {}
  <2> SUFFICES ASSUME S # {} PROVE FALSE
    OBVIOUS
  <2>1. S \in SUBSET Nat
    OBVIOUS
  <2>2. PICK k \in S : \A j \in S : k <= j
    BY <2>1, LeastExists
  <2>3. k # 0 /\ k \in 0 .. n /\ f[k] \notin Int
    BY <1>7, <2>2
  <2>4. k - 1 \in 0 .. n /\ k - 1 \notin S
    BY <1>2, <2>2, <2>3
  <2>5. f[k] = Follow(f[k - 1]) /\ f[k - 1] \in Int
    BY <1>6, <2>3, <2>4
  <2> QED
    BY <2>3, <2>5, FollowType
<1>9. f[n] \in Int
  BY <1>2, <1>8
<1> QED
  BY <1>2, <1>4, <1>7, <1>9

------------------------------------------------------------------------------
(* The steps. *)

\* The directory entry names a cluster.
LEMMA FirstCluster ==
  ASSUME NEW f \in Files PROVE f[1] \in Nat
<1>1. f \in Seq(Nat) /\ f # << >>
  BY DiskAssumption
<1>2. 1 \in 1 .. Len(f)
  BY <1>1, EmptySeq, LenProperties
<1> QED
  BY <1>1, <1>2

\* The sector fat16_cluster_to_sector finds is the first of the cluster.
LEMMA ClusterPosition ==
  ASSUME NEW c \in Int
  PROVE  /\ fat16_cluster_to_sector(c) \in Int
         /\ fat16_cluster_to_sector(c) * SECTOR_SIZE
              = (reserved_sectors + fat_sectors) * SECTOR_SIZE + root_dir_size
                  + (c - 2) * Cluster
<1>1. PICK d, s, n, a, b : /\ d = root_dir_size \div SECTOR_SIZE /\ s = SECTOR_SIZE
                           /\ n = sectors_per_cluster
                           /\ a = reserved_sectors /\ b = fat_sectors
  OBVIOUS
<1>2. /\ s \in Nat /\ n \in Nat /\ a \in Nat /\ b \in Nat /\ d \in Int
      /\ root_dir_size = s * d
  BY <1>1, GeometryAssumption
<1>3. fat16_cluster_to_sector(c) = (b + a + d) + (c - 2) * n
  BY <1>1 DEF fat16_cluster_to_sector, ending_sector_pos
<1>4. Cluster = n * s
  BY <1>1 DEF Cluster, size_of_cluster_bytes
<1>5. PICK e : e = c - 2
  OBVIOUS
<1>6. e \in Int
  BY <1>5
<1>7. ((b + a + d) + e * n) * s = (a + b) * s + (s * d) + e * (n * s)
  BY <1>2, <1>6
<1>8. e * n \in Int /\ (b + a + d) + e * n \in Int
  BY <1>2, <1>6
<1>9. fat16_cluster_to_sector(c) = (b + a + d) + e * n
  BY <1>3, <1>5
<1>10. fat16_cluster_to_sector(c) * SECTOR_SIZE = (a + b) * s + root_dir_size + e * (n * s)
  BY <1>1, <1>2, <1>7, <1>9
<1> QED
  BY <1>1, <1>4, <1>5, <1>8, <1>9, <1>10

\* The loop of fat16_read begins a member or ends.
LEMMA MemberStep ==
  ASSUME IInv, fat16_read PROVE IInv'
<1>1. CASE i < call.nmemb /\ pc' = "cluster" /\ total' = call.size
  <2>1. Types'
    BY <1>1 DEF IInv, Types, fat16_read
  <2>2. Streamed = 0 /\ Streamed' = 0
    BY <1>1 DEF Streamed, fat16_read
  <2>3. Counted'
    BY <1>1, <2>2 DEF IInv, Types, Counted, fat16_read
  <2>4. Placed'
    BY <2>2 DEF IInv, Placed, fat16_read
  <2>5. InFirst'
    BY <1>1 DEF IInv, InFirst, FirstByte, Asked, fat16_read
  <2> QED
    BY <2>1, <2>3, <2>4, <2>5 DEF IInv
<1>2. CASE i = call.nmemb /\ pc' = "done" /\ total' = total
  <2>1. Types'
    BY <1>2 DEF IInv, Types, fat16_read
  <2>2. Streamed = 0 /\ Streamed' = 0
    BY <1>2 DEF Streamed, fat16_read
  <2>3. Counted'
    BY <1>2 DEF IInv, Types, Counted, fat16_read
  <2>4. Placed'
    BY <2>2 DEF IInv, Placed, fat16_read
  <2>5. InFirst'
    BY <1>2 DEF IInv, InFirst, FirstByte, Asked, fat16_read
  <2> QED
    BY <2>1, <2>3, <2>4, <2>5 DEF IInv
<1> QED
  BY <1>1, <1>2 DEF fat16_read

\* A member that is not complete is inside what was asked for.
LEMMA Inside ==
  ASSUME Types, Counted, pc \in {"cluster", "stream"}
  PROVE  /\ Len(out) \in Nat /\ Asked \in Nat
         /\ Len(out) + (total - Streamed) <= Asked
         /\ total - Streamed > 0
<1>1. /\ i \in Nat /\ call.size \in Nat \ {0} /\ call.nmemb \in Nat /\ i < call.nmemb
      /\ total \in 1 .. call.size /\ Len(out) \in Nat
      /\ Len(out) = i * call.size + (call.size - total) + Streamed
  BY LenProperties DEF Types, Counted
<1>2. PICK j, n, s, m, a : j = i /\ n = call.nmemb /\ s = call.size /\ m = j * s /\ a = n * s
  OBVIOUS
<1>3. m \in Nat /\ a \in Nat /\ m + call.size <= a
  <2>1. j \in Nat /\ n \in Nat /\ s \in Nat /\ j < n
    BY <1>1, <1>2
  <2>2. j * s + s <= n * s /\ j * s \in Nat /\ n * s \in Nat
    BY <2>1, MemberFits
  <2> QED
    BY <1>2, <2>2
<1>4. Asked = a
  <2>1. s \in Nat /\ n \in Nat /\ Asked = s * n
    BY <1>1, <1>2 DEF Asked
  <2> QED
    BY <1>2, <2>1
<1>5. Lesser(total, Cluster) <= total /\ Lesser(total, Cluster) \in Nat
  BY <1>1, Geometry, Least
<1>6. Streamed \in Int /\ Streamed < total
  BY <1>1, <1>5 DEF Streamed, Types, Counted
<1>7. PICK l, t, d : l = Len(out) /\ t = total /\ d = Streamed
  OBVIOUS
<1>8. /\ l \in Nat /\ t \in Int /\ d \in Int /\ s \in Int /\ m \in Nat /\ a \in Nat
      /\ l = m + (s - t) + d /\ m + s <= a /\ d < t
  BY <1>1, <1>2, <1>3, <1>6, <1>7
<1>9. l + (t - d) <= a /\ t - d > 0
  BY <1>8
<1> QED
  BY <1>4, <1>7, <1>8, <1>9

\* fat16_read_internal_from_stream finds a cluster and seeks, or fails.
LEMMA ClusterStep ==
  ASSUME IInv, fat16_read_internal PROVE IInv'
<1> DEFINE c == fat16_get_cluster_for_offset(file[1], offset)
<1>1. /\ pc = "cluster" /\ Streamed = 0
      /\ file' = file /\ stray' = stray /\ call' = call /\ i' = i
      /\ offset' = offset /\ total' = total /\ out' = out
  BY DEF fat16_read_internal, Streamed
<1>2. /\ file[1] \in Int /\ offset \in Nat /\ stray \in Nat
      /\ offset = call.pos + Len(out) /\ Len(out) \in Nat /\ call.pos \in Nat
  BY <1>1, FirstCluster, LenProperties DEF IInv, Types, Placed
<1>3. c \in Int /\ (offset < Cluster => c = file[1])
  BY <1>2, ClusterForOffset DEF c
<1> HIDE DEF c
<1>4. offset % Cluster \in Nat /\ (offset < Cluster => offset % Cluster = offset)
  <2>1. PICK o, b, r : o = offset /\ b = Cluster /\ r = o % b
    OBVIOUS
  <2>2. o \in Nat /\ b \in Nat \ {0}
    BY <1>2, <2>1, Geometry
  <2>3. o % b \in 0 .. b - 1 /\ (o < b => o % b = o)
    BY <2>2, DivMod
  <2> QED
    BY <2>1, <2>2, <2>3
<1>5. call.pos + Asked <= Cluster => offset < Cluster
  <2>1. /\ Asked \in Nat /\ Len(out) + (total - Streamed) <= Asked
        /\ total - Streamed > 0 /\ total \in Nat
    BY <1>1, Inside DEF IInv, Types
  <2> QED
    BY <1>1, <1>2, <2>1, Geometry
<1>6. total \in Nat \ {0} /\ Lesser(total, Cluster) \in Nat \ {0}
  <2>1. total \in Nat \ {0}
    BY <1>1 DEF IInv, Types, Counted
  <2> QED
    BY <2>1, Geometry, Least
<1>7. Asked' = Asked /\ FirstByte' = FirstByte
  BY <1>1 DEF Asked, FirstByte
<1>8. CASE c < 0 /\ pc' = "failed" /\ UNCHANGED <<position, want>>
  <2>1. Streamed' = 0
    BY <1>8 DEF Streamed
  <2>2. ~(call.pos + Asked <= Cluster)
    BY <1>2, <1>3, <1>5, <1>8, FirstCluster DEF IInv, Types
  <2>3. Types' /\ Counted' /\ Placed'
    BY <1>1, <1>8, <2>1 DEF IInv, Types, Counted, Placed
  <2>4. InFirst'
    BY <1>1, <1>7, <2>2 DEF InFirst
  <2> QED
    BY <2>3, <2>4 DEF IInv
<1>9. CASE /\ c >= 0
           /\ position' = fat16_cluster_to_sector(c) * SECTOR_SIZE + (offset % Cluster)
           /\ want' = Lesser(total, Cluster)
           /\ pc' = "stream"
  <2>1. Streamed' = 0
    BY <1>1, <1>6, <1>9 DEF Streamed
  <2>2. position' \in Int
    <3>1. fat16_cluster_to_sector(c) \in Int /\ SECTOR_SIZE \in Int
      BY <1>3, ClusterPosition, Geometry
    <3> QED
      BY <1>4, <1>9, <3>1
  <2>3. Types'
    BY <1>1, <1>6, <1>9, <2>2 DEF IInv, Types
  <2>4. Counted'
    <3>1. want' \in 1 .. Lesser(total, Cluster)
      BY <1>6, <1>9
    <3> QED
      BY <1>1, <1>9, <2>1, <3>1 DEF IInv, Types, Counted
  <2>5. Placed'
    BY <1>1, <2>1 DEF IInv, Placed
  <2>6. ASSUME call.pos + Asked <= Cluster
        PROVE  position' = FirstByte + (call.pos + Len(out))
    <3>1. c = file[1] /\ offset % Cluster = offset
      BY <1>3, <1>4, <1>5, <2>6
    <3>2. fat16_cluster_to_sector(c) * SECTOR_SIZE = FirstByte
      BY <1>2, <3>1, ClusterPosition DEF FirstByte
    <3> QED
      BY <1>2, <1>9, <3>1, <3>2
  <2>7. InFirst'
    BY <1>1, <1>7, <1>9, <2>6 DEF IInv, InFirst
  <2> QED
    BY <2>3, <2>4, <2>5, <2>7 DEF IInv
<1> QED
  BY <1>8, <1>9 DEF fat16_read_internal, Cluster, c

\* n more bytes are in the buffer.
LEMMA ReadBytes ==
  ASSUME IInv, pc = "stream", NEW n \in 0 .. want, disk_stream_read(n),
         file' = file, call' = call
  PROVE  /\ position' \in Int /\ position' = position + n
         /\ want' \in Nat /\ want' = want - n
         /\ out' \in Seq(Int) /\ Len(out') = Len(out) + n
         /\ Asked' = Asked /\ FirstByte' = FirstByte
         /\ call.pos + Asked <= Cluster =>
              /\ position' = FirstByte + (call.pos + Len(out'))
              /\ \A k \in 1 .. Len(out') : out'[k] = FirstByte + (call.pos + k - 1)
<1>1. /\ want \in Nat /\ position \in Int /\ out \in Seq(Int) /\ n \in Nat
      /\ Len(out) \in Nat /\ call.pos \in Nat
  BY LenProperties DEF IInv, Types
<1>2. /\ out' = out \o [k \in 1 .. n |-> position + k - 1]
      /\ position' = position + n /\ want' = want - n
  BY DEF disk_stream_read
<1>3. /\ out' \in Seq(Int) /\ Len(out') = Len(out) + n
      /\ \A k \in 1 .. Len(out) : out'[k] = out[k]
      /\ \A k \in 1 .. n : out'[Len(out) + k] = position + k - 1
  BY <1>1, <1>2, Appended
<1>4. FirstByte \in Int
  <2>1. file[1] \in Int /\ Cluster \in Int /\ SECTOR_SIZE \in Int
    BY FirstCluster, Geometry DEF IInv, Types
  <2>2. reserved_sectors \in Int /\ fat_sectors \in Int /\ root_dir_size \in Int
    BY GeometryAssumption
  <2> QED
    BY <2>1, <2>2 DEF FirstByte
<1>5. Asked' = Asked /\ FirstByte' = FirstByte
  BY DEF Asked, FirstByte
<1>6. ASSUME call.pos + Asked <= Cluster
      PROVE  /\ position' = FirstByte + (call.pos + Len(out'))
             /\ \A k \in 1 .. Len(out') : out'[k] = FirstByte + (call.pos + k - 1)
  <2>1. /\ position = FirstByte + (call.pos + Len(out))
        /\ \A k \in 1 .. Len(out) : out[k] = FirstByte + (call.pos + k - 1)
    BY <1>6 DEF IInv, InFirst
  <2>2. position' = FirstByte + (call.pos + Len(out'))
    BY <1>1, <1>2, <1>3, <1>4, <2>1
  <2>3. ASSUME NEW k \in 1 .. Len(out')
        PROVE  out'[k] = FirstByte + (call.pos + k - 1)
    <3>1. CASE k <= Len(out)
      <4>1. k \in 1 .. Len(out)
        BY <1>1, <1>3, <3>1
      <4> QED
        BY <1>3, <2>1, <4>1
    <3>2. CASE k > Len(out)
      <4>1. k - Len(out) \in 1 .. n /\ Len(out) + (k - Len(out)) = k /\ k \in Int
        BY <1>1, <1>3, <3>2
      <4>2. out'[k] = position + (k - Len(out)) - 1
        BY <1>3, <4>1
      <4>3. PICK b, q, l : b = FirstByte /\ q = call.pos /\ l = Len(out)
        OBVIOUS
      <4>4. b \in Int /\ q \in Int /\ l \in Int /\ k \in Int /\ position = b + (q + l)
        BY <1>1, <1>4, <2>1, <4>1, <4>3
      <4>5. (b + (q + l)) + (k - l) - 1 = b + (q + k - 1)
        BY <4>4
      <4> QED
        BY <4>2, <4>3, <4>4, <4>5
    <3> QED
      BY <1>1, <1>3, <3>1, <3>2
  <2> QED
    BY <2>2, <2>3
<1> QED
  BY <1>1, <1>2, <1>3, <1>5, <1>6

\* disk_stream_read reads one sector's bytes; after the last of them the
\* callers move on.
LEMMA SectorStep ==
  ASSUME IInv, StreamStep PROVE IInv'
<1> DEFINE room == SECTOR_SIZE - (position % SECTOR_SIZE)
           chunk == Lesser(total, Cluster)
<1>1. pc = "stream" /\ file' = file /\ stray' = stray /\ call' = call
  BY DEF StreamStep
<1>2. room \in 1 .. SECTOR_SIZE
  <2>1. PICK p, b, r : p = position /\ b = SECTOR_SIZE /\ r = p % b
    OBVIOUS
  <2>2. p \in Int /\ b \in Nat \ {0}
    BY <2>1, Geometry DEF IInv, Types
  <2>3. p % b \in 0 .. b - 1
    BY <2>2
  <2> QED
    BY <2>1, <2>2, <2>3
<1> HIDE DEF room
<1>3. /\ total \in Nat \ {0} /\ total \in 1 .. call.size /\ call.size \in Nat
      /\ i \in Nat /\ call.nmemb \in Nat /\ i < call.nmemb /\ offset \in Nat
      /\ Len(out) \in Nat /\ want \in Nat /\ call.pos \in Nat
  BY <1>1, LenProperties DEF IInv, Types, Counted
<1>4. chunk \in Nat \ {0} /\ chunk <= total
  BY <1>3, Geometry, Least DEF chunk
<1> HIDE DEF chunk
<1>5. want \in 1 .. chunk /\ Streamed = chunk - want
  BY <1>1 DEF IInv, Counted, Streamed, chunk
<1>6. Len(out) = i * call.size + (call.size - total) + (chunk - want)
  BY <1>1, <1>5 DEF IInv, Counted
<1>7. offset + (chunk - want) = call.pos + Len(out)
  BY <1>5 DEF IInv, Placed
<1>8. CASE want > room /\ disk_stream_read(room) /\ UNCHANGED <<pc, i, offset, total>>
  <2>1. room \in 0 .. want /\ room \in Nat /\ SECTOR_SIZE \in Nat
    BY <1>2, <1>3, <1>8, Geometry
  <2>2. /\ position' \in Int /\ want' \in Nat /\ want' = want - room
        /\ out' \in Seq(Int) /\ Len(out') = Len(out) + room
        /\ Asked' = Asked /\ FirstByte' = FirstByte
        /\ call.pos + Asked <= Cluster =>
             /\ position' = FirstByte + (call.pos + Len(out'))
             /\ \A k \in 1 .. Len(out') : out'[k] = FirstByte + (call.pos + k - 1)
    BY <1>1, <1>8, <2>1, ReadBytes
  <2>3. want' \in 1 .. chunk
    BY <1>2, <1>3, <1>4, <1>5, <1>8, <2>1, <2>2
  <2>4. Streamed' = chunk - want'
    BY <1>1, <1>8 DEF Streamed, chunk
  <2>5. Types'
    BY <1>1, <1>8, <2>2 DEF IInv, Types
  <2>6. Len(out') = i * call.size + (call.size - total) + (chunk - want')
    <3>1. PICK m : m = i * call.size
      OBVIOUS
    <3>2. m \in Int
      BY <1>3, <3>1
    <3>3. Len(out') = Len(out) + room /\ want' = want - room
      BY <2>2
    <3>4. PICK l, s, t, w : l = Len(out) /\ s = call.size /\ t = total /\ w = want
      OBVIOUS
    <3>5. /\ l \in Int /\ s \in Int /\ t \in Int /\ w \in Int /\ room \in Int /\ chunk \in Int
          /\ l = m + (s - t) + (chunk - w)
      BY <1>3, <1>4, <1>6, <2>1, <3>1, <3>4
    <3>6. l + room = m + (s - t) + (chunk - (w - room))
      BY <3>2, <3>5
    <3> QED
      BY <3>1, <3>3, <3>4, <3>6
  <2>7. Counted'
    BY <1>1, <1>3, <1>8, <2>3, <2>4, <2>6 DEF Counted, chunk
  <2>8. Placed'
    <3>1. Len(out') = Len(out) + room /\ want' = want - room
      BY <2>2
    <3>2. offset + (chunk - want') = call.pos + Len(out')
      BY <1>3, <1>4, <1>7, <2>1, <3>1
    <3> QED
      BY <1>1, <1>8, <2>4, <3>2 DEF Placed
  <2>9. InFirst'
    BY <1>1, <1>8, <2>2 DEF InFirst
  <2> QED
    BY <2>5, <2>7, <2>8, <2>9 DEF IInv
<1>9. CASE want <= room /\ disk_stream_read(want) /\ Resume(chunk)
  <2>1. /\ position' \in Int /\ want' \in Nat /\ want' = want - want
        /\ out' \in Seq(Int) /\ Len(out') = Len(out) + want
        /\ Asked' = Asked /\ FirstByte' = FirstByte
        /\ call.pos + Asked <= Cluster =>
             /\ position' = FirstByte + (call.pos + Len(out'))
             /\ \A k \in 1 .. Len(out') : out'[k] = FirstByte + (call.pos + k - 1)
    <3>1. want \in 0 .. want
      BY <1>3
    <3> QED
      BY <1>1, <1>9, <3>1, ReadBytes
  <2>2. want' = 0
    BY <1>3, <2>1
  <2>3. total' = total - chunk /\ offset' = offset + chunk /\ total' \in Nat /\ offset' \in Nat
    BY <1>3, <1>4, <1>9 DEF Resume
  <2>4. PICK m : m = i * call.size
    OBVIOUS
  <2>5. m \in Int
    BY <1>3, <2>4
  <2>6. Len(out') = Len(out) + want
    BY <2>1
  <2>7. Len(out') = m + (call.size - total')
    <3>1. PICK l, s, t, w : l = Len(out) /\ s = call.size /\ t = total /\ w = want
      OBVIOUS
    <3>2. /\ l \in Int /\ s \in Int /\ t \in Int /\ w \in Int /\ chunk \in Int
          /\ l = m + (s - t) + (chunk - w)
      BY <1>3, <1>4, <1>6, <2>4, <3>1
    <3>3. l + w = m + (s - (t - chunk))
      BY <2>5, <3>2
    <3> QED
      BY <2>3, <2>6, <3>1, <3>3
  <2>8. offset' = call.pos + Len(out')
    <3>1. PICK l, o, q, w : l = Len(out) /\ o = offset /\ q = call.pos /\ w = want
      OBVIOUS
    <3>2. /\ l \in Int /\ o \in Int /\ q \in Int /\ w \in Int /\ chunk \in Int
          /\ o + (chunk - w) = q + l
      BY <1>3, <1>4, <1>7, <3>1
    <3>3. o + chunk = q + (l + w)
      BY <3>2
    <3> QED
      BY <2>3, <2>6, <3>1, <3>3
  <2>9. CASE total' > 0 /\ pc' = "cluster" /\ i' = i
    <3>1. Streamed' = 0
      BY <2>9 DEF Streamed
    <3>2. Types'
      BY <1>1, <2>1, <2>3, <2>9 DEF IInv, Types
    <3>3. total' \in 1 .. call.size
      BY <1>3, <1>4, <2>3, <2>9
    <3>4. Len(out') = i * call.size + (call.size - total') + 0
      BY <1>3, <2>3, <2>4, <2>5, <2>7
    <3>5. Counted'
      BY <1>1, <1>3, <2>2, <2>9, <3>1, <3>3, <3>4 DEF Counted
    <3>6. Placed'
      BY <1>1, <2>3, <2>8, <3>1 DEF Placed
    <3>7. InFirst'
      BY <1>1, <2>1, <2>9 DEF InFirst
    <3> QED
      BY <3>2, <3>5, <3>6, <3>7 DEF IInv
  <2>10. CASE ~(total' > 0) /\ pc' = "member" /\ i' = i + 1
    <3>1. Streamed' = 0
      BY <2>10 DEF Streamed
    <3>2. total' = 0
      BY <2>3, <2>10
    <3>3. i' \in Nat /\ i' <= call.nmemb
      BY <1>3, <2>10
    <3>4. Types'
      BY <1>1, <2>1, <2>3, <2>10, <3>3 DEF IInv, Types
    <3>5. Len(out') = i' * call.size
      <4>1. PICK j, s : j = i /\ s = call.size
        OBVIOUS
      <4>2. (j + 1) * s = j * s + s
        BY <1>3, <4>1
      <4>3. Len(out') = m + call.size
        BY <1>3, <2>5, <2>7, <3>2
      <4> QED
        BY <2>4, <2>10, <4>1, <4>2, <4>3
    <3>6. Counted'
      BY <1>1, <2>2, <2>10, <3>2, <3>3, <3>5 DEF Counted
    <3>7. Placed'
      BY <1>1, <2>3, <2>8, <3>1 DEF Placed
    <3>8. InFirst'
      BY <1>1, <2>1, <2>10 DEF InFirst
    <3> QED
      BY <3>4, <3>6, <3>7, <3>8 DEF IInv
  <2> QED
    BY <1>9, <2>9, <2>10 DEF Resume
<1> QED
  BY <1>8, <1>9 DEF StreamStep, room, chunk, Cluster

------------------------------------------------------------------------------
(* The theorems. *)

LEMMA IInvInit == Init => IInv
<1> SUFFICES ASSUME Init PROVE IInv
  OBVIOUS
<1>1. /\ call.pos \in Nat /\ call.size \in Nat \ {0} /\ call.nmemb \in Nat \ {0}
      /\ file \in Files /\ stray \in Nat
  BY CallAssumption, DiskAssumption DEF Init
<1>2. /\ pc = "member" /\ i = 0 /\ total = 0 /\ want = 0 /\ out = << >>
      /\ offset = call.pos /\ position = 0 /\ Len(out) = 0 /\ Streamed = 0
  BY DEF Init, Streamed
<1>3. Types
  BY <1>1, <1>2 DEF Types
<1>4. Counted
  BY <1>1, <1>2 DEF Counted
<1>5. Placed
  BY <1>1, <1>2 DEF Placed
<1>6. InFirst
  BY <1>2 DEF InFirst
<1> QED
  BY <1>3, <1>4, <1>5, <1>6 DEF IInv

\* Every step of fat16_read and of what it calls keeps the account of the
\* buffer, the offset and, within the first cluster, of the bytes.
THEOREM ReadInvariant == Spec => []IInv
<1>1. IInv /\ [Next]_vars => IInv'
  <2> SUFFICES ASSUME IInv, [Next]_vars PROVE IInv'
    OBVIOUS
  <2>1. CASE fat16_read
    BY <2>1, MemberStep
  <2>2. CASE fat16_read_internal
    BY <2>2, ClusterStep
  <2>3. CASE StreamStep
    BY <2>3, SectorStep
  <2>4. CASE UNCHANGED vars
    BY <2>4 DEF vars, IInv, Types, Counted, Placed, InFirst, Streamed, FirstByte, Asked
  <2> QED
    BY <2>1, <2>2, <2>3, <2>4 DEF Next, Returned
<1> QED
  BY <1>1, IInvInit, PTL DEF Spec

\* What is counted is what was asked for.
LEMMA InvFills == IInv => FillsBuffer
<1> SUFFICES ASSUME IInv PROVE FillsBuffer
  OBVIOUS
<1>1. /\ i \in Nat /\ call.size \in Nat /\ call.nmemb \in Nat /\ want \in Nat
      /\ Len(out) \in Nat /\ total \in Nat
  BY LenProperties DEF IInv, Types
<1>2. PICK j, n, s : j = i /\ n = call.nmemb /\ s = call.size
  OBVIOUS
<1>3. Asked = n * s
  BY <1>1, <1>2 DEF Asked
<1>4. CASE pc \in {"cluster", "stream"}
  <2>1. Len(out) + (total - Streamed) <= Asked /\ Asked \in Nat
    BY <1>4, Inside DEF IInv
  <2>2. want <= total - Streamed
    <3>1. CASE pc = "stream"
      <4>1. total \in Nat \ {0} /\ want \in 1 .. Lesser(total, Cluster)
        BY <3>1 DEF IInv, Types, Counted
      <4>2. Lesser(total, Cluster) \in Nat /\ Lesser(total, Cluster) <= total
        BY <4>1, Geometry, Least
      <4> QED
        BY <1>1, <3>1, <4>1, <4>2 DEF Streamed
    <3>2. CASE pc = "cluster"
      BY <1>1, <3>2 DEF Streamed, IInv, Counted
    <3> QED
      BY <1>4, <3>1, <3>2
  <2>3. Streamed \in Int
    BY <1>1, Geometry DEF Streamed, Lesser
  <2> QED
    BY <1>1, <1>4, <2>1, <2>2, <2>3 DEF FillsBuffer
<1>5. CASE pc = "failed"
  <2>1. /\ i < call.nmemb /\ total \in 1 .. call.size /\ want = 0
        /\ Len(out) = i * call.size + (call.size - total)
    BY <1>1, <1>5 DEF IInv, Counted, Streamed
  <2>2. j * s + s <= n * s
    BY <1>1, <1>2, <2>1, MemberFits
  <2>3. j * s \in Int /\ n * s \in Int
    BY <1>1, <1>2
  <2>4. Len(out) + want <= Asked
    BY <1>1, <1>2, <1>3, <2>1, <2>2, <2>3
  <2> QED
    BY <1>5, <2>4 DEF FillsBuffer
<1>6. CASE pc \in {"member", "done"}
  <2>1. /\ i <= call.nmemb /\ want = 0 /\ Len(out) = j * s
        /\ pc = "done" => i = call.nmemb
    BY <1>2, <1>6 DEF IInv, Counted
  <2>2. j * s <= n * s /\ n * s \in Int
    <3>1. j \in Nat /\ n \in Nat /\ s \in Nat /\ (j = n \/ j < n)
      BY <1>1, <1>2, <2>1
    <3>2. CASE j = n
      BY <3>1, <3>2
    <3>3. CASE j < n
      <4>1. j * s + s <= n * s /\ j * s \in Nat /\ n * s \in Nat
        BY <3>1, <3>3, MemberFits
      <4> QED
        BY <3>1, <4>1
    <3> QED
      BY <3>1, <3>2, <3>3
  <2>3. Len(out) + want <= Asked
    BY <1>1, <1>3, <2>1, <2>2
  <2>4. pc = "done" => Len(out) = Asked
    BY <1>2, <1>3, <2>1
  <2> QED
    BY <2>3, <2>4 DEF FillsBuffer
<1> QED
  BY <1>4, <1>5, <1>6 DEF IInv, Types

\* fread never writes past the size * nmemb bytes of the caller, and has
\* filled them when it reports success.
THEOREM BufferFilled == Spec => []FillsBuffer
BY ReadInvariant, InvFills, PTL

\* The right bytes, all of them, are the file's bytes.
LEMMA InvFirst == IInv => FirstClusterIsRead
<1> SUFFICES ASSUME IInv, call.pos + Asked <= Cluster
             PROVE  pc # "failed" /\ (pc = "done" => out = FileBytes)
  BY DEF FirstClusterIsRead, Cluster
<1>1. pc # "failed" /\ \A k \in 1 .. Len(out) : out[k] = FirstByte + (call.pos + k - 1)
  BY DEF IInv, InFirst
<1>2. ASSUME pc = "done" PROVE out = FileBytes
  <2>1. out \in Seq(Int) /\ Len(out) = Asked /\ Asked \in Nat /\ call.pos \in Nat
    BY <1>2, InvFills, LenProperties DEF IInv, Types, FillsBuffer
  <2>2. ASSUME NEW k \in 1 .. Asked
        PROVE  out[k] = FileByte(call.pos + k - 1)
    <3>1. PICK b, c : b = call.pos + k - 1 /\ c = Cluster
      OBVIOUS
    <3>2. b \in Nat /\ c \in Nat \ {0} /\ b < c
      BY <2>1, <3>1, Geometry
    <3>3. b \div c = 0 /\ b % c = b
      BY <3>2, DivMod
    <3>4. FileByte(b) = FirstByte + b
      BY <3>1, <3>3 DEF FileByte, FirstByte, Cluster
    <3> QED
      BY <1>1, <2>1, <3>1, <3>4
  <2>3. out = [k \in 1 .. Asked |-> out[k]]
    BY <2>1, LenProperties
  <2>4. FileBytes = [k \in 1 .. Asked |-> FileByte(call.pos + k - 1)]
    BY DEF FileBytes
  <2> QED
    BY <2>2, <2>3, <2>4
<1> QED
  BY <1>1, <1>2

\* A read within the first cluster of a file succeeds, and the buffer has the
\* bytes of that file, in order.
THEOREM FirstClusterRead == Spec => []FirstClusterIsRead
BY ReadInvariant, InvFirst, PTL
==============================================================================
