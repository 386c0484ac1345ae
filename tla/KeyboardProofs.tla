---------------------------- MODULE KeyboardProofs ----------------------------
(***************************************************************************)
(* Proofs about the keyboard's ring buffers, for any size of the buffer,   *)
(* any range of the int indices that is a multiple of it, and any set of   *)
(* processes.                                                              *)
(***************************************************************************)
EXTENDS Keyboard, TLAPS, FiniteSetTheorems, SequenceTheorems

N == OS_KEYBOARD_BUFFER_SIZE
R == INT_RANGE

\* How many characters wait, as the two indices have it.
Count(p) == (tail[p] - head[p]) % R

\* The slot of the character i places behind the oldest.
At(p, i) == (head[p] + i) % N

\* The slots that hold c.
Holding(p, c) == {i \in Index : buffer[p][i] = c}

\* A character is owed at least as often as it is in the buffer.
OwedInBuffer ==
  /\ owed \in [Process -> [Char -> Int]]
  /\ \A p \in Process, c \in Char : owed[p][c] >= Cardinality(Holding(p, c))

\* Until it overflows a buffer holds characters in the slots between head and
\* tail, and in no others.
RingOK ==
  \A p \in Process \ overrun :
    /\ Count(p) <= N
    /\ \A i \in 0 .. N - 1 : i < Count(p) <=> buffer[p][At(p, i)] # NUL

\* The inductive invariant.
IInv == TypeOK /\ OwedInBuffer /\ RingOK

------------------------------------------------------------------------------
(* Remainders. *)

LEMMA Constants == N \in Nat \ {0} /\ R \in Nat \ {0} /\ R % N = 0 /\ R > N
BY BufferAssumption, RangeAssumption DEF N, R

LEMMA Divide ==
  ASSUME NEW n \in Nat \ {0}, NEW a \in Int
  PROVE  a \div n \in Int /\ a % n \in 0 .. n - 1 /\ a = (n * (a \div n)) + (a % n)
OBVIOUS

LEMMA Remainder ==
  ASSUME NEW n \in Nat \ {0}, NEW q \in Int, NEW r \in 0 .. n - 1
  PROVE  ((n * q) + r) % n = r
OBVIOUS

\* Up to n more than a.
LEMMA AddMod ==
  ASSUME NEW n \in Nat \ {0}, NEW a \in Int, NEW i \in 0 .. n
  PROVE  (a + i) % n = IF (a % n) + i < n THEN (a % n) + i ELSE (a % n) + i - n
<1>1. PICK q \in Int, r \in 0 .. n - 1 : a = (n * q) + r /\ a % n = r
  BY Divide
<1>2. CASE r + i < n
  <2>1. a + i = (n * q) + (r + i) /\ r + i \in 0 .. n - 1
    BY <1>1, <1>2
  <2> QED
    BY <1>1, <1>2, <2>1, Remainder
<1>3. CASE ~(r + i < n)
  <2>1. n * (q + 1) = (n * q) + n
    OBVIOUS
  <2>2. a + i = (n * (q + 1)) + (r + i - n) /\ r + i - n \in 0 .. n - 1 /\ q + 1 \in Int
    BY <1>1, <1>3, <2>1
  <2>3. (a + i) % n = r + i - n
    BY <2>2, Remainder
  <2> QED
    BY <1>1, <1>3, <2>3
<1> QED
  BY <1>2, <1>3

\* A multiple of n more than a.
LEMMA AddMultiple ==
  ASSUME NEW n \in Nat \ {0}, NEW a \in Int, NEW m \in Int, m % n = 0
  PROVE  (a + m) % n = a % n
<1>1. PICK q \in Int, r \in 0 .. n - 1 : a = (n * q) + r /\ a % n = r
  BY Divide
<1>2. PICK k \in Int : m = n * k
  BY Divide
<1>3. n * (q + k) = (n * q) + (n * k)
  OBVIOUS
<1>4. a + m = (n * (q + k)) + r /\ q + k \in Int
  BY <1>1, <1>2, <1>3
<1> QED
  BY <1>1, <1>4, Remainder

\* Once around the int.
LEMMA AddRange == ASSUME NEW a \in Int PROVE (a + R) % N = a % N
<1>1. N \in Nat \ {0} /\ R \in Int /\ R % N = 0
  BY Constants
<1> QED
  BY <1>1, AddMultiple, Zenon

\* The int indices: the next one, and their distance.
LEMMA IndexStep ==
  ASSUME NEW a \in 0 .. R - 1
  PROVE  /\ (a + 1) % R = IF a + 1 = R THEN 0 ELSE a + 1
         /\ (a + 1) % R \in 0 .. R - 1
<1>1. a % R = a
  BY Constants, Remainder
<1>2. (a + 1) % R = IF (a % R) + 1 < R THEN (a % R) + 1 ELSE (a % R) + 1 - R
  BY Constants, AddMod
<1> QED
  BY <1>1, <1>2, Constants

LEMMA Distance ==
  ASSUME NEW a \in 0 .. R - 1, NEW b \in 0 .. R - 1
  PROVE  (b - a) % R = IF b >= a THEN b - a ELSE b - a + R
<1>1. CASE b >= a
  <2>1. b - a = (R * 0) + (b - a) /\ b - a \in 0 .. R - 1
    BY <1>1, Constants
  <2> QED
    BY <1>1, <2>1, Constants, Remainder
<1>2. CASE ~(b >= a)
  <2>1. b - a = (R * (-1)) + (b - a + R) /\ b - a + R \in 0 .. R - 1
    BY <1>2, Constants
  <2> QED
    BY <1>2, <2>1, Constants, Remainder
<1> QED
  BY <1>1, <1>2

------------------------------------------------------------------------------
(* The ring. *)

LEMMA BufferTyped ==
  ASSUME TypeOK, NEW p \in Process
  PROVE  /\ buffer[p] \in [Index -> Char \cup {NUL}]
         /\ tail[p] \in 0 .. R - 1 /\ head[p] \in 0 .. R - 1
         /\ tail[p] \in Int /\ head[p] \in Int
         /\ tail[p] % N \in Index /\ head[p] % N \in Index
<1>1. tail[p] \in 0 .. R - 1 /\ head[p] \in 0 .. R - 1 /\ buffer[p] \in [Index -> Char \cup {NUL}]
  BY DEF TypeOK, R
<1>2. tail[p] \in Int /\ head[p] \in Int
  BY <1>1, Constants
<1> QED
  BY <1>1, <1>2, Constants, Divide DEF Index, N

\* The slots from the oldest character on are all the slots, once, and the
\* tail is as far behind the head as Count says.
LEMMA Slots ==
  ASSUME TypeOK, NEW p \in Process
  PROVE  /\ Count(p) \in 0 .. R - 1
         /\ At(p, 0) = head[p] % N /\ At(p, N) = At(p, 0)
         /\ \A i \in 0 .. N : At(p, i) \in Index
         /\ \A i, j \in 0 .. N - 1 : At(p, i) = At(p, j) => i = j
         /\ Count(p) <= N => tail[p] % N = At(p, Count(p))
<1> DEFINE h == head[p] % N
<1>1. h \in 0 .. N - 1 /\ head[p] \in Int /\ tail[p] \in Int
  BY BufferTyped DEF Index, N
<1>2. \A i \in 0 .. N : At(p, i) = IF h + i < N THEN h + i ELSE h + i - N
  BY <1>1, Constants, AddMod DEF At
<1>3. Count(p) \in 0 .. R - 1
  <2>1. tail[p] - head[p] \in Int
    BY <1>1
  <2> QED
    BY <2>1, Constants, Divide, Zenon DEF Count
<1>4. Count(p) <= N => tail[p] % N = At(p, Count(p))
  <2>1. Count(p) = IF tail[p] >= head[p] THEN tail[p] - head[p] ELSE tail[p] - head[p] + R
    BY BufferTyped, Distance DEF Count
  <2>2. CASE tail[p] >= head[p]
    BY <1>1, <2>1, <2>2 DEF At
  <2>3. CASE ~(tail[p] >= head[p])
    <3>1. head[p] + Count(p) = tail[p] + R
      BY <1>1, <1>3, <2>1, <2>3, Constants
    <3>2. (tail[p] + R) % N = tail[p] % N
      BY <1>1, AddRange
    <3> QED
      BY <3>1, <3>2 DEF At
  <2> QED
    BY <2>2, <2>3
<1> HIDE DEF h
<1>5. At(p, 0) = h /\ At(p, N) = h
  BY <1>1, <1>2, Constants
<1>6. \A i \in 0 .. N : At(p, i) \in Index
  BY <1>1, <1>2, Constants DEF Index, N
<1>7. \A i, j \in 0 .. N - 1 : At(p, i) = At(p, j) => i = j
  BY <1>1, <1>2, Constants
<1> QED
  BY <1>3, <1>4, <1>5, <1>6, <1>7 DEF h

\* A push moves the tail.
LEMMA TailMoves ==
  ASSUME TypeOK, NEW p \in Process, Count(p) < N,
         tail'[p] = (tail[p] + 1) % INT_RANGE, head'[p] = head[p]
  PROVE  Count(p)' = Count(p) + 1
<1>1. /\ tail[p] \in 0 .. R - 1 /\ head[p] \in 0 .. R - 1
      /\ tail'[p] = (IF tail[p] + 1 = R THEN 0 ELSE tail[p] + 1) /\ tail'[p] \in 0 .. R - 1
  BY BufferTyped, IndexStep DEF R
<1>2. Count(p) = IF tail[p] >= head[p] THEN tail[p] - head[p] ELSE tail[p] - head[p] + R
  BY <1>1, Distance DEF Count
<1>3. Count(p)' = IF tail'[p] >= head[p] THEN tail'[p] - head[p] ELSE tail'[p] - head[p] + R
  BY <1>1, Distance DEF Count, R
<1> QED
  BY <1>1, <1>2, <1>3, Constants

\* A pop moves the head, and every slot is one place nearer.
LEMMA HeadMoves ==
  ASSUME TypeOK, NEW p \in Process,
         head'[p] = (head[p] + 1) % INT_RANGE, tail'[p] = tail[p]
  PROVE  /\ Count(p) > 0 => Count(p)' = Count(p) - 1
         /\ \A i \in 0 .. N - 1 : At(p, i)' = At(p, i + 1)
<1>1. /\ tail[p] \in 0 .. R - 1 /\ head[p] \in 0 .. R - 1
      /\ head'[p] = (IF head[p] + 1 = R THEN 0 ELSE head[p] + 1) /\ head'[p] \in 0 .. R - 1
  BY BufferTyped, IndexStep DEF R
<1>2. Count(p) = IF tail[p] >= head[p] THEN tail[p] - head[p] ELSE tail[p] - head[p] + R
  BY <1>1, Distance DEF Count
<1>3. Count(p)' = IF tail[p] >= head'[p] THEN tail[p] - head'[p] ELSE tail[p] - head'[p] + R
  BY <1>1, Distance DEF Count, R
<1>4. Count(p) > 0 => Count(p)' = Count(p) - 1
  BY <1>1, <1>2, <1>3, Constants
<1>5. ASSUME NEW i \in 0 .. N - 1 PROVE At(p, i)' = At(p, i + 1)
  <2>1. At(p, i)' = (head'[p] + i) % N
    BY DEF At, N
  <2>2. CASE head[p] + 1 = R
    <3>1. head[p] + (i + 1) = i + R /\ i \in Int /\ head'[p] + i = i
      BY <1>1, <2>2, Constants
    <3>2. (i + R) % N = i % N
      BY <3>1, AddRange
    <3> QED
      BY <2>1, <3>1, <3>2 DEF At
  <2>3. CASE head[p] + 1 # R
    <3>1. head'[p] + i = head[p] + (i + 1)
      BY <1>1, <2>3, Constants
    <3> QED
      BY <2>1, <3>1 DEF At
  <2> QED
    BY <2>2, <2>3
<1> QED
  BY <1>4, <1>5

\* What a process whose buffer is left alone has.
LEMMA RingAlone ==
  ASSUME NEW p, buffer'[p] = buffer[p], tail'[p] = tail[p], head'[p] = head[p]
  PROVE  /\ Count(p)' = Count(p) /\ Waiting(p)' = Waiting(p)
         /\ \A i : At(p, i)' = At(p, i)
         /\ \A c : Holding(p, c)' = Holding(p, c)
BY DEF Count, Waiting, At, Holding, Index, N, R

\* What waits is a sequence of characters.
LEMMA WaitingIs ==
  ASSUME TypeOK, RingOK, NEW p \in Process \ overrun
  PROVE  /\ Waiting(p) \in Seq(Char) /\ Len(Waiting(p)) = Count(p)
         /\ Count(p) \in 0 .. N
         /\ \A i \in 1 .. Count(p) : Waiting(p)[i] = buffer[p][At(p, i - 1)]
<1> DEFINE n == Count(p)
<1>1. n \in 0 .. N /\ n \in Nat
  BY Slots, Constants DEF RingOK
<1>2. Waiting(p) = [i \in 1 .. n |-> buffer[p][(head[p] + i - 1) % N]]
  BY DEF Waiting, Count, N, R
<1>3. ASSUME NEW i \in 1 .. n
      PROVE  /\ buffer[p][(head[p] + i - 1) % N] = buffer[p][At(p, i - 1)]
             /\ buffer[p][At(p, i - 1)] \in Char
  <2>1. i - 1 \in 0 .. N - 1 /\ i - 1 < n /\ i - 1 \in 0 .. N
    BY <1>1, Constants
  <2>2. head[p] + i - 1 = head[p] + (i - 1)
    BY <1>1, BufferTyped
  <2>3. buffer[p][At(p, i - 1)] # NUL
    BY <2>1 DEF RingOK
  <2>4. buffer[p][At(p, i - 1)] \in Char \cup {NUL}
    BY <2>1, Slots, BufferTyped
  <2> QED
    BY <2>2, <2>3, <2>4 DEF At
<1> HIDE DEF n
<1>4. Waiting(p) = [i \in 1 .. n |-> buffer[p][At(p, i - 1)]]
  BY <1>2, <1>3
<1>5. Waiting(p) \in Seq(Char) /\ Len(Waiting(p)) = n
  BY <1>1, <1>3, <1>4
<1> QED
  BY <1>1, <1>4, <1>5 DEF n

\* The same, in the state a step leads to.
Shape ==
  TypeOK /\ RingOK =>
    \A q \in Process \ overrun :
      /\ Waiting(q) \in Seq(Char) /\ Len(Waiting(q)) = Count(q)
      /\ Count(q) \in 0 .. N
      /\ \A i \in 1 .. Count(q) : Waiting(q)[i] = buffer[q][At(q, i - 1)]

LEMMA ShapeHolds == Shape'
<1>1. Shape
  BY WaitingIs DEF Shape
<1> QED
  BY <1>1, PTL

LEMMA WaitingWas ==
  ASSUME TypeOK', RingOK', NEW p \in Process \ overrun'
  PROVE  /\ Waiting(p)' \in Seq(Char) /\ Len(Waiting(p)') = Count(p)'
         /\ Count(p)' \in 0 .. N
         /\ \A i \in 1 .. Count(p)' : Waiting(p)'[i] = buffer'[p][At(p, i - 1)']
BY ShapeHolds DEF Shape, N

\* A new buffer has nothing in it.
LEMMA FreshRing ==
  ASSUME NEW p, tail[p] = 0, head[p] = 0, buffer[p] = EmptyBuffer
  PROVE  /\ Count(p) = 0 /\ Waiting(p) = << >>
         /\ \A i \in 0 .. N - 1 : buffer[p][At(p, i)] = NUL
         /\ \A c \in Char : Cardinality(Holding(p, c)) = 0
<1>1. Count(p) = 0
  BY Constants, Distance DEF Count
<1>2. Waiting(p) = << >>
  BY <1>1 DEF Waiting, Count, R
<1>3. ASSUME NEW i \in 0 .. N - 1 PROVE buffer[p][At(p, i)] = NUL
  <2>1. (0 + i) % N \in 0 .. N - 1
    BY Constants, Divide
  <2> QED
    BY <2>1 DEF At, EmptyBuffer, Index, N
<1>4. ASSUME NEW c \in Char PROVE Cardinality(Holding(p, c)) = 0
  <2>1. Holding(p, c) = {}
    BY DEF Holding, EmptyBuffer, Char, NUL
  <2> QED
    BY <2>1, FS_EmptySet
<1> QED
  BY <1>1, <1>2, <1>3, <1>4

\* The slots that hold a character are counted.
LEMMA HoldingFinite ==
  ASSUME NEW p, NEW c
  PROVE  /\ IsFiniteSet(Holding(p, c)) /\ Cardinality(Holding(p, c)) \in Nat
         /\ IsFiniteSet(Holding(p, c)') /\ Cardinality(Holding(p, c)') \in Nat
<1>1. IsFiniteSet(Index)
  BY BufferAssumption, FS_Interval DEF Index
<1>2. Holding(p, c) \subseteq Index /\ Holding(p, c)' \subseteq Index
  BY DEF Holding, Index
<1> QED
  BY <1>1, <1>2, FS_Subset, FS_CardinalityType

\* One more element makes a set larger by one at most.
LEMMA AddOne ==
  ASSUME NEW S, NEW x, IsFiniteSet(S)
  PROVE  /\ IsFiniteSet(S \cup {x})
         /\ Cardinality(S \cup {x}) \in Nat /\ Cardinality(S) \in Nat
         /\ Cardinality(S \cup {x}) <= Cardinality(S) + 1
<1>1. /\ IsFiniteSet(S \cup {x})
      /\ Cardinality(S \cup {x}) = IF x \in S THEN Cardinality(S) ELSE Cardinality(S) + 1
  BY FS_AddElement
<1>2. Cardinality(S \cup {x}) \in Nat /\ Cardinality(S) \in Nat
  BY <1>1, FS_CardinalityType
<1> QED
  BY <1>1, <1>2

------------------------------------------------------------------------------
(* The actions. *)

\* The number of slots that hold a character follows the number owed.
LEMMA HoldingPushed ==
  ASSUME TypeOK, OwedInBuffer, NEW p \in Process, NEW s \in Index, NEW c \in Char,
         buffer' = [buffer EXCEPT ![p][s] = c],
         owed' = [owed EXCEPT ![p][c] = @ + 1]
  PROVE  OwedInBuffer'
<1>1. owed' \in [Process -> [Char -> Int]]
  BY DEF OwedInBuffer
<1>2. ASSUME NEW q \in Process, NEW d \in Char
      PROVE  owed'[q][d] >= Cardinality(Holding(q, d)')
  <2>1. /\ Cardinality(Holding(q, d)) \in Nat /\ Cardinality(Holding(q, d)') \in Nat
        /\ IsFiniteSet(Holding(q, d)) /\ IsFiniteSet(Holding(q, d)')
        /\ owed[q][d] >= Cardinality(Holding(q, d)) /\ owed[q][d] \in Int
    BY HoldingFinite DEF OwedInBuffer
  <2>2. CASE q = p /\ d = c
    <3>1. Holding(q, d)' \subseteq Holding(q, d) \cup {s}
      BY <2>2 DEF Holding, TypeOK
    <3>2. IsFiniteSet(Holding(q, d) \cup {s}) /\ Cardinality(Holding(q, d) \cup {s}) <= Cardinality(Holding(q, d)) + 1
          /\ Cardinality(Holding(q, d) \cup {s}) \in Nat
      BY <2>1, AddOne
    <3>3. Cardinality(Holding(q, d)') <= Cardinality(Holding(q, d) \cup {s})
      BY <3>1, <3>2, FS_Subset
    <3>4. owed'[q][d] = owed[q][d] + 1
      BY <2>2 DEF OwedInBuffer
    <3> QED
      BY <2>1, <3>2, <3>3, <3>4
  <2>3. CASE ~(q = p /\ d = c)
    <3>1. Holding(q, d)' \subseteq Holding(q, d)
      BY <2>3 DEF Holding, TypeOK
    <3>2. Cardinality(Holding(q, d)') <= Cardinality(Holding(q, d))
      BY <2>1, <3>1, FS_Subset
    <3>3. owed'[q][d] = owed[q][d]
      BY <2>3 DEF OwedInBuffer
    <3> QED
      BY <2>1, <3>2, <3>3
  <2> QED
    BY <2>2, <2>3
<1> QED
  BY <1>1, <1>2 DEF OwedInBuffer

LEMMA HoldingPopped ==
  ASSUME TypeOK, OwedInBuffer, NEW p \in Process, NEW s \in Index, NEW c \in Char,
         buffer[p][s] = c,
         buffer' = [buffer EXCEPT ![p][s] = NUL],
         owed' = [owed EXCEPT ![p][c] = @ - 1]
  PROVE  OwedInBuffer'
<1>1. owed' \in [Process -> [Char -> Int]]
  BY DEF OwedInBuffer
<1>2. ASSUME NEW q \in Process, NEW d \in Char
      PROVE  owed'[q][d] >= Cardinality(Holding(q, d)')
  <2>0. d # NUL
    BY DEF Char, NUL
  <2>1. /\ Cardinality(Holding(q, d)) \in Nat /\ Cardinality(Holding(q, d)') \in Nat
        /\ IsFiniteSet(Holding(q, d)) /\ IsFiniteSet(Holding(q, d)')
        /\ owed[q][d] >= Cardinality(Holding(q, d)) /\ owed[q][d] \in Int
    BY HoldingFinite DEF OwedInBuffer
  <2>2. CASE q = p /\ d = c
    <3>1. Holding(q, d)' = Holding(q, d) \ {s} /\ s \in Holding(q, d)
      BY <2>0, <2>2 DEF Holding, TypeOK
    <3>2. Cardinality(Holding(q, d) \ {s}) = Cardinality(Holding(q, d)) - 1
      BY <2>1, <3>1, FS_RemoveElement
    <3>3. owed'[q][d] = owed[q][d] - 1
      BY <2>2 DEF OwedInBuffer
    <3> QED
      BY <2>1, <3>1, <3>2, <3>3
  <2>3. CASE ~(q = p /\ d = c)
    <3>1. Holding(q, d)' \subseteq Holding(q, d)
      BY <2>0, <2>3 DEF Holding, TypeOK
    <3>2. Cardinality(Holding(q, d)') <= Cardinality(Holding(q, d))
      BY <2>1, <3>1, FS_Subset
    <3>3. owed'[q][d] = owed[q][d]
      BY <2>3 DEF OwedInBuffer
    <3> QED
      BY <2>1, <3>2, <3>3
  <2> QED
    BY <2>2, <2>3
<1> QED
  BY <1>1, <1>2 DEF OwedInBuffer

\* A push appends to what waits, or finds the buffer full.
LEMMA RingPushed ==
  ASSUME TypeOK, RingOK, NEW p \in Process, NEW c \in Char,
         buffer' = [buffer EXCEPT ![p][tail[p] % N] = c],
         tail' = [tail EXCEPT ![p] = (@ + 1) % INT_RANGE],
         head' = head,
         overrun' = overrun \cup (IF buffer[p][tail[p] % N] # NUL THEN {p} ELSE {}),
         TypeOK'
  PROVE  /\ RingOK'
         /\ \A q \in Process \ {p} : Waiting(q)' = Waiting(q)
         /\ p \in overrun => overrun' = overrun
         /\ p \notin overrun /\ Count(p) < N =>
              overrun' = overrun /\ Waiting(p)' = Append(Waiting(p), c)
         /\ p \notin overrun /\ ~(Count(p) < N) =>
              overrun' = overrun \cup {p} /\ Count(p) = N
<1>1. ASSUME NEW q \in Process \ {p}
      PROVE  /\ Count(q)' = Count(q) /\ Waiting(q)' = Waiting(q) /\ buffer'[q] = buffer[q]
             /\ \A i : At(q, i)' = At(q, i)
  <2>1. buffer'[q] = buffer[q] /\ tail'[q] = tail[q] /\ head'[q] = head[q]
    BY DEF TypeOK
  <2> QED
    BY <2>1, RingAlone
<1>2. CASE p \in overrun
  <2>1. overrun' = overrun
    BY <1>2
  <2>2. RingOK'
    BY <1>1, <1>2, <2>1 DEF RingOK
  <2> QED
    BY <1>1, <1>2, <2>1, <2>2
<1>3. CASE p \notin overrun
  <2> DEFINE n == Count(p)
  <2>1. n \in 0 .. N /\ tail[p] % N = At(p, n) /\ n \in Nat
    BY <1>3, Slots, WaitingIs, Constants
  <2>2. \A i \in 0 .. N - 1 : i < n <=> buffer[p][At(p, i)] # NUL
    BY <1>3 DEF RingOK
  <2>3. CASE n < N
    <3>1. n \in 0 .. N - 1 /\ buffer[p][At(p, n)] = NUL
      BY <2>1, <2>2, <2>3, Constants
    <3>2. overrun' = overrun
      BY <2>1, <3>1
    <3>3. tail'[p] = (tail[p] + 1) % INT_RANGE /\ head'[p] = head[p]
      BY DEF TypeOK
    <3>4. Count(p)' = n + 1
      BY <2>3, <3>3, TailMoves
    <3>5. \A i : At(p, i)' = At(p, i)
      BY DEF At, N
    <3>6. ASSUME NEW i \in 0 .. N - 1
          PROVE  buffer'[p][At(p, i)] = IF i = n THEN c ELSE buffer[p][At(p, i)]
      <4>1. At(p, i) \in Index /\ At(p, n) \in Index /\ (At(p, i) = At(p, n) => i = n)
        BY <3>1, Slots, Constants
      <4> QED
        BY <2>1, <4>1 DEF TypeOK
    <3>7. c # NUL
      BY DEF Char, NUL
    <3> HIDE DEF n
    <3>8. \A i \in 0 .. N - 1 : i < n + 1 <=> buffer'[p][At(p, i)'] # NUL
      BY <2>1, <2>2, <3>5, <3>6, <3>7
    <3>9. RingOK'
      <4> SUFFICES ASSUME NEW q \in Process \ overrun
                   PROVE  /\ Count(q)' <= N
                          /\ \A i \in 0 .. N - 1 : i < Count(q)' <=> buffer'[q][At(q, i)'] # NUL
        BY <3>2 DEF RingOK, N
      <4>1. CASE q = p
        BY <2>1, <2>3, <3>4, <3>8, <4>1, Constants
      <4>2. CASE q # p
        BY <1>1, <4>2 DEF RingOK
      <4> QED
        BY <4>1, <4>2
    <3>10. Waiting(p)' = Append(Waiting(p), c)
      <4>1. /\ Waiting(p) \in Seq(Char) /\ Len(Waiting(p)) = n
            /\ \A i \in 1 .. n : Waiting(p)[i] = buffer[p][At(p, i - 1)]
        BY <1>3, WaitingIs DEF n
      <4>2. /\ Waiting(p)' \in Seq(Char) /\ Len(Waiting(p)') = n + 1
            /\ \A i \in 1 .. n + 1 : Waiting(p)'[i] = buffer'[p][At(p, i - 1)']
        BY <1>3, <3>2, <3>4, <3>9, WaitingWas
      <4>3. /\ Append(Waiting(p), c) \in Seq(Char) /\ Len(Append(Waiting(p), c)) = n + 1
            /\ \A i \in 1 .. n : Append(Waiting(p), c)[i] = Waiting(p)[i]
            /\ Append(Waiting(p), c)[n + 1] = c
        BY <4>1, AppendProperties
      <4>4. ASSUME NEW i \in 1 .. n + 1
            PROVE  Waiting(p)'[i] = Append(Waiting(p), c)[i]
        <5>1. i - 1 \in 0 .. N - 1
          BY <2>1, <2>3, Constants
        <5>2. Waiting(p)'[i] = IF i - 1 = n THEN c ELSE buffer[p][At(p, i - 1)]
          BY <3>5, <3>6, <4>2, <5>1
        <5>3. CASE i - 1 = n
          <6>1. i = n + 1
            BY <2>1, <5>3
          <6> QED
            BY <4>3, <5>2, <5>3, <6>1
        <5>4. CASE i - 1 # n
          <6>1. i \in 1 .. n
            BY <2>1, <5>4
          <6> QED
            BY <4>1, <4>3, <5>2, <5>4, <6>1
        <5> QED
          BY <5>3, <5>4
      <4>5. Len(Waiting(p)') = Len(Append(Waiting(p), c))
        BY <4>2, <4>3
      <4>6. \A i \in 1 .. Len(Waiting(p)') : Waiting(p)'[i] = Append(Waiting(p), c)[i]
        BY <4>2, <4>4
      <4> QED
        BY <4>2, <4>3, <4>5, <4>6, SeqEqual
    <3> QED
      BY <1>1, <1>3, <2>3, <3>2, <3>9, <3>10 DEF n
  <2>4. CASE ~(n < N)
    <3>1. n = N /\ 0 \in 0 .. N - 1 /\ 0 < n
      BY <2>1, <2>4, Constants
    <3>2. buffer[p][tail[p] % N] # NUL
      BY <2>1, <2>2, <3>1, Slots
    <3>3. overrun' = overrun \cup {p}
      BY <3>2
    <3>4. RingOK'
      BY <1>1, <3>3 DEF RingOK, N
    <3> QED
      BY <1>1, <1>3, <2>4, <3>1, <3>3, <3>4
  <2> QED
    BY <2>3, <2>4
<1> QED
  BY <1>2, <1>3

\* A pop takes the first of what waits.
LEMMA RingPopped ==
  ASSUME TypeOK, RingOK, NEW p \in Process,
         buffer[p][head[p] % N] # NUL,
         buffer' = [buffer EXCEPT ![p][head[p] % N] = NUL],
         head' = [head EXCEPT ![p] = (@ + 1) % INT_RANGE],
         tail' = tail, overrun' = overrun, TypeOK'
  PROVE  /\ RingOK'
         /\ \A q \in Process \ {p} : Waiting(q)' = Waiting(q)
         /\ p \notin overrun =>
              /\ Waiting(p) # << >>
              /\ Head(Waiting(p)) = buffer[p][head[p] % N]
              /\ Waiting(p)' = Tail(Waiting(p))
<1>1. ASSUME NEW q \in Process \ {p}
      PROVE  /\ Count(q)' = Count(q) /\ Waiting(q)' = Waiting(q) /\ buffer'[q] = buffer[q]
             /\ \A i : At(q, i)' = At(q, i)
  <2>1. buffer'[q] = buffer[q] /\ tail'[q] = tail[q] /\ head'[q] = head[q]
    BY DEF TypeOK
  <2> QED
    BY <2>1, RingAlone
<1>2. CASE p \in overrun
  BY <1>1, <1>2 DEF RingOK, N
<1>3. CASE p \notin overrun
  <2> DEFINE n == Count(p)
  <2>1. n \in 0 .. N /\ n \in Nat /\ At(p, 0) = head[p] % N /\ At(p, N) = At(p, 0)
    BY <1>3, Slots, WaitingIs, Constants
  <2>2. \A i \in 0 .. N - 1 : i < n <=> buffer[p][At(p, i)] # NUL
    BY <1>3 DEF RingOK
  <2>3. n > 0
    BY <2>1, <2>2, Constants
  <2>4. head'[p] = (head[p] + 1) % INT_RANGE /\ tail'[p] = tail[p]
    BY DEF TypeOK
  <2>5. Count(p)' = n - 1 /\ \A i \in 0 .. N - 1 : At(p, i)' = At(p, i + 1)
    BY <2>3, <2>4, HeadMoves
  <2>6. ASSUME NEW i \in 1 .. N
        PROVE  buffer'[p][At(p, i)] = IF i = N THEN NUL ELSE buffer[p][At(p, i)]
    <3>1. At(p, i) \in Index /\ At(p, 0) \in Index
      BY Slots, Constants
    <3>2. i # N => At(p, i) # At(p, 0)
      <4> SUFFICES ASSUME i # N PROVE At(p, i) # At(p, 0)
        OBVIOUS
      <4>1. i \in 0 .. N - 1 /\ 0 \in 0 .. N - 1 /\ i # 0
        BY Constants
      <4> QED
        BY <4>1, Slots
    <3> QED
      BY <2>1, <3>1, <3>2 DEF TypeOK
  <2> HIDE DEF n
  <2>7. ASSUME NEW i \in 0 .. N - 1
        PROVE  i < n - 1 <=> buffer'[p][At(p, i)'] # NUL
    <3>1. i + 1 \in 1 .. N /\ At(p, i)' = At(p, i + 1)
      BY <2>5, Constants
    <3>2. CASE i + 1 = N
      BY <2>1, <2>6, <3>1, <3>2
    <3>3. CASE i + 1 # N
      <4>1. i + 1 \in 0 .. N - 1
        BY <3>3, Constants
      <4>2. i + 1 < n <=> buffer[p][At(p, i + 1)] # NUL
        BY <2>2, <4>1
      <4>3. buffer'[p][At(p, i + 1)] = buffer[p][At(p, i + 1)]
        BY <2>6, <3>1, <3>3
      <4>4. i < n - 1 <=> i + 1 < n
        BY <2>1, Constants
      <4> QED
        BY <3>1, <4>2, <4>3, <4>4
    <3> QED
      BY <3>2, <3>3
  <2>8. RingOK'
    <3> SUFFICES ASSUME NEW q \in Process \ overrun
                 PROVE  /\ Count(q)' <= N
                        /\ \A i \in 0 .. N - 1 : i < Count(q)' <=> buffer'[q][At(q, i)'] # NUL
      BY DEF RingOK, N
    <3>1. CASE q = p
      <4>1. n - 1 <= N
        BY <2>1, Constants
      <4> QED
        BY <2>5, <2>7, <3>1, <4>1
    <3>2. CASE q # p
      BY <1>1, <3>2 DEF RingOK
    <3> QED
      BY <3>1, <3>2
  <2>9. /\ Waiting(p) \in Seq(Char) /\ Len(Waiting(p)) = n
        /\ \A i \in 1 .. n : Waiting(p)[i] = buffer[p][At(p, i - 1)]
    BY <1>3, WaitingIs DEF n
  <2>10. /\ Waiting(p)' \in Seq(Char) /\ Len(Waiting(p)') = n - 1
         /\ \A i \in 1 .. n - 1 : Waiting(p)'[i] = buffer'[p][At(p, i - 1)']
    BY <1>3, <2>5, <2>8, WaitingWas
  <2>11. Waiting(p) # << >> /\ Head(Waiting(p)) = buffer[p][head[p] % N]
    <3>1. 1 \in 1 .. n /\ Waiting(p)[1] = buffer[p][At(p, 0)]
      BY <2>1, <2>3, <2>9
    <3> QED
      BY <2>1, <2>3, <2>9, <3>1
  <2>12. /\ Tail(Waiting(p)) \in Seq(Char) /\ Len(Tail(Waiting(p))) = n - 1
         /\ \A i \in 1 .. n - 1 : Tail(Waiting(p))[i] = Waiting(p)[i + 1]
    BY <2>9, <2>11, HeadTailProperties
  <2>13. ASSUME NEW i \in 1 .. n - 1
         PROVE  Waiting(p)'[i] = Tail(Waiting(p))[i]
    <3>1. /\ i - 1 \in 0 .. N - 1 /\ i \in 1 .. N /\ i + 1 \in 1 .. n
          /\ (i + 1) - 1 = i /\ (i - 1) + 1 = i /\ i # N
      BY <2>1, Constants
    <3>2. Waiting(p)'[i] = buffer'[p][At(p, i - 1)'] /\ At(p, i - 1)' = At(p, i)
      BY <2>5, <2>10, <3>1
    <3>3. buffer'[p][At(p, i)] = buffer[p][At(p, i)]
      BY <2>6, <3>1
    <3>4. Tail(Waiting(p))[i] = buffer[p][At(p, i)]
      BY <2>9, <2>12, <3>1
    <3> QED
      BY <3>2, <3>3, <3>4
  <2>14. Len(Waiting(p)') = Len(Tail(Waiting(p)))
         /\ \A i \in 1 .. Len(Waiting(p)') : Waiting(p)'[i] = Tail(Waiting(p))[i]
    BY <2>10, <2>12, <2>13
  <2>15. Waiting(p)' = Tail(Waiting(p))
    BY <2>10, <2>12, <2>14, SeqEqual
  <2> QED
    BY <1>1, <1>3, <2>8, <2>11, <2>15
<1> QED
  BY <1>2, <1>3

\* What the programs see of the buffers.
AbsQueue == [p \in Process |-> IF p \in overrun THEN << >> ELSE Waiting(p)]

\* A step of what is promised, or none.
QueueStep == Queues!Next \/ UNCHANGED <<AbsQueue, overrun, answer>>

\* Steps that leave the buffers alone.
LEMMA BuffersAlone ==
  ASSUME IInv, TypeOK', UNCHANGED <<buffer, tail, head, overrun, owed>>
  PROVE  IInv' /\ UNCHANGED <<AbsQueue, overrun>>
<1>1. ASSUME NEW p
      PROVE  /\ Count(p)' = Count(p) /\ Waiting(p)' = Waiting(p)
             /\ \A i : At(p, i)' = At(p, i)
             /\ \A c : Holding(p, c)' = Holding(p, c)
  BY RingAlone
<1>2. OwedInBuffer' /\ RingOK'
  BY <1>1 DEF IInv, OwedInBuffer, RingOK, N
<1>3. AbsQueue' = AbsQueue
  BY <1>1 DEF AbsQueue
<1> QED
  BY <1>2, <1>3 DEF IInv

LEMMA PushKeeps ==
  ASSUME IInv, NEW c \in Char, keyboard_push(c), capslock_state' \in {"ON", "OFF"},
         UNCHANGED <<processVars, answer>>
  PROVE  IInv' /\ QueueStep
<1>1. PICK p \in Process : p = foreground
  BY DEF IInv, TypeOK
<1>2. /\ buffer' = [buffer EXCEPT ![p][tail[p] % N] = c]
      /\ tail' = [tail EXCEPT ![p] = (@ + 1) % INT_RANGE]
      /\ head' = head
      /\ overrun' = overrun \cup (IF buffer[p][tail[p] % N] # NUL THEN {p} ELSE {})
      /\ owed' = [owed EXCEPT ![p][c] = @ + 1]
  BY <1>1 DEF keyboard_push, keyboard_get_tail_index, N
<1>3. TypeOK /\ RingOK /\ OwedInBuffer
  BY DEF IInv
<1>4. tail[p] % N \in Index /\ tail[p] \in 0 .. R - 1
  BY <1>3, BufferTyped
<1>5. TypeOK'
  <2>1. buffer' \in [Process -> [Index -> Char \cup {NUL}]]
    BY <1>2, <1>3, <1>4 DEF TypeOK
  <2>2. tail' \in [Process -> 0 .. INT_RANGE - 1] /\ head' \in [Process -> 0 .. INT_RANGE - 1]
    <3>1. (tail[p] + 1) % INT_RANGE \in 0 .. INT_RANGE - 1
      BY <1>4, IndexStep DEF R
    <3> QED
      BY <1>2, <1>3, <3>1 DEF TypeOK
  <2> QED
    BY <1>2, <1>3, <2>1, <2>2 DEF TypeOK, processVars
<1>6. OwedInBuffer'
  BY <1>2, <1>3, <1>4, HoldingPushed
<1>7. /\ RingOK'
      /\ \A q \in Process \ {p} : Waiting(q)' = Waiting(q)
      /\ p \in overrun => overrun' = overrun
      /\ p \notin overrun /\ Count(p) < N =>
           overrun' = overrun /\ Waiting(p)' = Append(Waiting(p), c)
      /\ p \notin overrun /\ ~(Count(p) < N) =>
           overrun' = overrun \cup {p} /\ Count(p) = N
  BY <1>2, <1>3, <1>5, RingPushed
<1>8. QueueStep
  <2>1. AbsQueue \in [Process -> {AbsQueue[q] : q \in Process}]
    BY DEF AbsQueue
  <2>2. CASE p \in overrun
    BY <1>7, <2>2 DEF QueueStep, AbsQueue
  <2>3. CASE p \notin overrun /\ Count(p) < N
    <3>1. AbsQueue[p] = Waiting(p) /\ Len(AbsQueue[p]) < OS_KEYBOARD_BUFFER_SIZE
      BY <1>3, <2>3, WaitingIs DEF AbsQueue, N
    <3>2. AbsQueue' = [AbsQueue EXCEPT ![p] = Append(@, c)]
      BY <1>7, <2>3 DEF AbsQueue
    <3>3. Queues!Type(p, c)
      BY <1>7, <2>3, <3>1, <3>2 DEF Queues!Type, AbsQueue
    <3> QED
      BY <3>3 DEF QueueStep, Queues!Next
  <2>4. CASE p \notin overrun /\ ~(Count(p) < N)
    <3>1. Len(AbsQueue[p]) = OS_KEYBOARD_BUFFER_SIZE
      BY <1>3, <1>7, <2>4, WaitingIs DEF AbsQueue, N
    <3>2. AbsQueue' = [AbsQueue EXCEPT ![p] = << >>]
      BY <1>7, <2>4 DEF AbsQueue
    <3>3. Queues!Type(p, c)
      BY <1>7, <2>4, <3>1, <3>2 DEF Queues!Type, AbsQueue
    <3> QED
      BY <3>3 DEF QueueStep, Queues!Next
  <2> QED
    BY <2>2, <2>3, <2>4
<1> QED
  BY <1>5, <1>6, <1>7, <1>8 DEF IInv

LEMMA PopKeeps ==
  ASSUME IInv, keyboard_pop
  PROVE  IInv' /\ QueueStep
<1>1. PICK p \in Process : p = running
  BY DEF IInv, TypeOK
<1>2. TypeOK /\ RingOK /\ OwedInBuffer
  BY DEF IInv
<1>3. PICK s \in Index : s = head[p] % N
  BY <1>2, BufferTyped
<1>4. /\ answer' = [to |-> p, char |-> buffer[p][s]]
      /\ tail' = tail /\ overrun' = overrun /\ capslock_state' = capslock_state
      /\ UNCHANGED processVars
  BY <1>1, <1>3 DEF keyboard_pop, N
<1>5. buffer[p][s] \in Char \cup {NUL}
  BY <1>2 DEF TypeOK
<1>6. CASE buffer[p][s] = NUL
  <2>1. UNCHANGED <<buffer, head, owed>>
    BY <1>1, <1>3, <1>6 DEF keyboard_pop, N
  <2>2. TypeOK'
    BY <1>2, <1>4, <1>5, <2>1 DEF TypeOK, processVars
  <2>3. IInv' /\ UNCHANGED <<AbsQueue, overrun>>
    BY <1>4, <2>1, <2>2, BuffersAlone
  <2>4. Queues!Fetch(p)
    <3>1. CASE p \in overrun
      BY <1>4, <1>5, <2>3, <3>1 DEF Queues!Fetch, AbsQueue
    <3>2. CASE p \notin overrun
      <4>1. /\ Waiting(p) \in Seq(Char) /\ Len(Waiting(p)) = Count(p) /\ Count(p) \in 0 .. N
            /\ At(p, 0) = s
        BY <1>2, <1>3, <3>2, WaitingIs, Slots
      <4>2. ~(0 < Count(p))
        BY <1>2, <1>6, <3>2, <4>1, Constants DEF RingOK
      <4>3. Waiting(p) = << >>
        <5>1. Count(p) = 0
          BY <4>1, <4>2, Constants
        <5> QED
          BY <4>1, <5>1, EmptySeq
      <4> QED
        BY <1>4, <1>6, <2>3, <3>2, <4>3 DEF Queues!Fetch, Queues!Silence, AbsQueue
    <3> QED
      BY <3>1, <3>2
  <2> QED
    BY <2>3, <2>4 DEF QueueStep, Queues!Next
<1>7. CASE buffer[p][s] # NUL
  <2>1. /\ buffer' = [buffer EXCEPT ![p][head[p] % N] = NUL]
        /\ head' = [head EXCEPT ![p] = (@ + 1) % INT_RANGE]
        /\ owed' = [owed EXCEPT ![p][buffer[p][s]] = @ - 1]
    BY <1>1, <1>3, <1>7 DEF keyboard_pop, N
  <2>2. TypeOK'
    <3>1. buffer' \in [Process -> [Index -> Char \cup {NUL}]]
      BY <1>2, <1>3, <2>1 DEF TypeOK
    <3>2. tail' \in [Process -> 0 .. INT_RANGE - 1] /\ head' \in [Process -> 0 .. INT_RANGE - 1]
      <4>1. (head[p] + 1) % INT_RANGE \in 0 .. INT_RANGE - 1
        BY <1>2, BufferTyped, IndexStep DEF R
      <4> QED
        BY <1>2, <1>4, <2>1, <4>1 DEF TypeOK
    <3> QED
      BY <1>2, <1>4, <1>5, <3>1, <3>2 DEF TypeOK, processVars
  <2>3. OwedInBuffer'
    <3>1. PICK c \in Char : c = buffer[p][s]
      BY <1>5, <1>7
    <3>2. buffer' = [buffer EXCEPT ![p][s] = NUL] /\ owed' = [owed EXCEPT ![p][c] = @ - 1]
      BY <1>3, <2>1, <3>1
    <3> QED
      BY <1>2, <3>1, <3>2, HoldingPopped
  <2>4. /\ RingOK'
        /\ \A q \in Process \ {p} : Waiting(q)' = Waiting(q)
        /\ p \notin overrun =>
             /\ Waiting(p) # << >>
             /\ Head(Waiting(p)) = buffer[p][s]
             /\ Waiting(p)' = Tail(Waiting(p))
    BY <1>2, <1>3, <1>4, <1>7, <2>1, <2>2, RingPopped
  <2>5. Queues!Fetch(p)
    <3>1. CASE p \in overrun
      <4>1. AbsQueue' = AbsQueue
        BY <1>4, <2>4, <3>1 DEF AbsQueue
      <4> QED
        BY <1>4, <1>5, <3>1, <4>1 DEF Queues!Fetch, AbsQueue
    <3>2. CASE p \notin overrun
      <4>1. AbsQueue' = [AbsQueue EXCEPT ![p] = Tail(@)]
        BY <1>4, <2>4, <3>2 DEF AbsQueue
      <4>2. AbsQueue[p] = Waiting(p)
        BY <3>2 DEF AbsQueue
      <4> QED
        BY <1>4, <2>4, <3>2, <4>1, <4>2 DEF Queues!Fetch, AbsQueue
    <3> QED
      BY <3>1, <3>2
  <2> QED
    BY <2>2, <2>3, <2>4, <2>5 DEF IInv, QueueStep, Queues!Next
<1> QED
  BY <1>6, <1>7

\* The interrupt: a key that is released, or one that may give a character.
LEMMA InterruptKeeps ==
  ASSUME IInv, NEW scancode, classic_keyboard_handle_interrupt(scancode)
  PROVE  IInv' /\ QueueStep
<1>1. CASE UNCHANGED vars
  <2>1. TypeOK' /\ UNCHANGED <<buffer, tail, head, overrun, owed, answer>>
    BY <1>1 DEF IInv, TypeOK, vars, keyboardVars, processVars
  <2> QED
    BY <2>1, BuffersAlone DEF QueueStep
<1>2. CASE ~UNCHANGED vars
  <2>1. /\ capslock_state' = IF scancode # "CAPSLOCK" THEN capslock_state
                             ELSE IF capslock_state = "ON" THEN "OFF" ELSE "ON"
        /\ \E c \in classic_keyboard_scancode_to_char(scancode, capslock_state') :
             \/ c # NUL /\ keyboard_push(c)
             \/ c = NUL /\ UNCHANGED <<buffer, tail, head, overrun, owed, typed>>
        /\ UNCHANGED <<processVars, answer>>
    BY <1>2 DEF classic_keyboard_handle_interrupt
  <2>2. capslock_state' \in {"ON", "OFF"}
    BY <2>1 DEF IInv, TypeOK
  <2>3. classic_keyboard_scancode_to_char(scancode, capslock_state') \subseteq Char \cup {NUL}
    <3>1. keyboard_scan_set_one(scancode) \subseteq Char \cup {NUL}
      BY DEF keyboard_scan_set_one, Char
    <3> QED
      BY <3>1 DEF classic_keyboard_scancode_to_char, Char
  <2>4. CASE \E c \in Char : keyboard_push(c)
    BY <2>1, <2>2, <2>4, PushKeeps
  <2>5. CASE UNCHANGED <<buffer, tail, head, overrun, owed, typed>>
    <3>1. TypeOK' /\ UNCHANGED <<buffer, tail, head, overrun, owed, answer>>
      BY <2>1, <2>2, <2>5 DEF IInv, TypeOK, processVars
    <3> QED
      BY <3>1, BuffersAlone DEF QueueStep
  <2> QED
    BY <2>1, <2>3, <2>4, <2>5
<1> QED
  BY <1>1, <1>2

\* The state of a buffer that is new, after the step that makes it.
Fresh ==
  \A p : tail[p] = 0 /\ head[p] = 0 /\ buffer[p] = EmptyBuffer =>
    /\ Count(p) = 0 /\ Waiting(p) = << >>
    /\ \A i \in 0 .. N - 1 : buffer[p][At(p, i)] = NUL
    /\ \A c \in Char : Cardinality(Holding(p, c)) = 0

LEMMA FreshHolds == Fresh'
<1>1. Fresh
  BY FreshRing DEF Fresh
<1> QED
  BY <1>1, PTL

\* A process is loaded, into a table entry that may have been used before.
LEMMA LoadKeeps ==
  ASSUME IInv, NEW p \in Process, process_load_switch(p)
  PROVE  IInv' /\ QueueStep
<1>1. /\ alive' = alive \cup {p} /\ foreground' = p /\ running' \in {p, running}
      /\ buffer' = [buffer EXCEPT ![p] = EmptyBuffer]
      /\ tail' = [tail EXCEPT ![p] = 0] /\ head' = [head EXCEPT ![p] = 0]
      /\ overrun' = overrun \ {p}
      /\ owed' = [owed EXCEPT ![p] = [c \in Char |-> 0]]
      /\ UNCHANGED <<capslock_state, answer>>
  BY DEF process_load_switch
<1>2. TypeOK /\ RingOK /\ OwedInBuffer
  BY DEF IInv
<1>3. TypeOK'
  <2>1. EmptyBuffer \in [Index -> Char \cup {NUL}] /\ 0 \in 0 .. INT_RANGE - 1
    BY RangeAssumption, BufferAssumption DEF EmptyBuffer
  <2> QED
    BY <1>1, <1>2, <2>1 DEF TypeOK
<1>4. tail'[p] = 0 /\ head'[p] = 0 /\ buffer'[p] = EmptyBuffer
  BY <1>1, <1>2 DEF TypeOK
<1>5. /\ Count(p)' = 0 /\ Waiting(p)' = << >>
      /\ \A i \in 0 .. N - 1 : buffer'[p][At(p, i)'] = NUL
      /\ \A c \in Char : Cardinality(Holding(p, c)') = 0
  BY <1>4, FreshHolds DEF Fresh, EmptyBuffer, Index, N, Char
<1>6. ASSUME NEW q \in Process \ {p}
      PROVE  /\ Count(q)' = Count(q) /\ Waiting(q)' = Waiting(q) /\ buffer'[q] = buffer[q]
             /\ \A i : At(q, i)' = At(q, i)
             /\ \A c : Holding(q, c)' = Holding(q, c)
             /\ owed'[q] = owed[q]
  <2>1. buffer'[q] = buffer[q] /\ tail'[q] = tail[q] /\ head'[q] = head[q]
    BY <1>1, <1>2 DEF TypeOK
  <2> QED
    BY <1>1, <1>2, <2>1, RingAlone DEF OwedInBuffer
<1>7. RingOK'
  <2> SUFFICES ASSUME NEW q \in Process \ overrun'
               PROVE  /\ Count(q)' <= N
                      /\ \A i \in 0 .. N - 1 : i < Count(q)' <=> buffer'[q][At(q, i)'] # NUL
    BY DEF RingOK, N
  <2>1. CASE q = p
    BY <1>5, <2>1, Constants
  <2>2. CASE q # p
    BY <1>1, <1>2, <1>6, <2>2 DEF RingOK
  <2> QED
    BY <2>1, <2>2
<1>8. OwedInBuffer'
  <2>1. owed' \in [Process -> [Char -> Int]]
    BY <1>1, <1>2 DEF OwedInBuffer
  <2>2. ASSUME NEW q \in Process, NEW c \in Char
        PROVE  owed'[q][c] >= Cardinality(Holding(q, c)')
    <3>1. CASE q = p
      BY <1>1, <1>2, <1>5, <3>1 DEF OwedInBuffer
    <3>2. CASE q # p
      BY <1>2, <1>6, <3>2 DEF OwedInBuffer
    <3> QED
      BY <3>1, <3>2
  <2> QED
    BY <2>1, <2>2 DEF OwedInBuffer
<1>9. Queues!Restart(p)
  <2>1. AbsQueue' = [AbsQueue EXCEPT ![p] = << >>]
    BY <1>1, <1>5, <1>6 DEF AbsQueue
  <2> QED
    BY <1>1, <2>1 DEF Queues!Restart, AbsQueue
<1> QED
  BY <1>3, <1>7, <1>8, <1>9 DEF IInv, QueueStep, Queues!Next

\* The clock and exits leave the buffers alone, and somebody to run.
LEMMA SwitchKeeps ==
  ASSUME IInv, idt_clock \/ process_terminate
  PROVE  IInv' /\ QueueStep
<1>1. UNCHANGED <<buffer, tail, head, capslock_state, overrun, owed, answer>>
  BY DEF idt_clock, process_terminate, keyboardVars
<1>2. alive' \subseteq Process /\ {foreground', running'} \subseteq alive'
  BY DEF idt_clock, process_terminate, IInv, TypeOK
<1>3. TypeOK'
  BY <1>1, <1>2 DEF IInv, TypeOK
<1> QED
  BY <1>1, <1>3, BuffersAlone DEF QueueStep

LEMMA Start == Init => IInv /\ Queues!Init
<1> SUFFICES ASSUME Init PROVE IInv /\ Queues!Init
  OBVIOUS
<1>1. TypeOK
  BY RangeAssumption, BufferAssumption DEF Init, TypeOK, EmptyBuffer
<1>2. ASSUME NEW p \in Process
      PROVE  /\ Count(p) = 0 /\ Waiting(p) = << >>
             /\ \A i \in 0 .. N - 1 : buffer[p][At(p, i)] = NUL
             /\ \A c \in Char : Cardinality(Holding(p, c)) = 0
  BY FreshRing DEF Init
<1>3. RingOK
  BY <1>2, Constants DEF RingOK
<1>4. OwedInBuffer
  BY <1>2 DEF OwedInBuffer, Init
<1>5. Queues!Init
  BY <1>2 DEF Queues!Init, Queues!Silence, Init
<1> QED
  BY <1>1, <1>3, <1>4, <1>5 DEF IInv

LEMMA Step == IInv /\ [Next]_vars => IInv' /\ QueueStep
<1> SUFFICES ASSUME IInv, [Next]_vars PROVE IInv' /\ QueueStep
  OBVIOUS
<1>1. CASE UNCHANGED vars
  <2>1. TypeOK' /\ UNCHANGED <<buffer, tail, head, overrun, owed, answer>>
    BY <1>1 DEF IInv, TypeOK, vars, keyboardVars, processVars
  <2> QED
    BY <2>1, BuffersAlone DEF QueueStep
<1> QED
  BY <1>1, InterruptKeeps, PopKeeps, SwitchKeeps, LoadKeeps DEF Next

------------------------------------------------------------------------------
(* Theorems. *)

\* For any size of the buffer, any range of the indices and any processes: the
\* buffers hold characters, and the processes that run and that get the keys
\* exist.
THEOREM KeyboardTypeOK == Spec => []TypeOK
<1>1. IInv => TypeOK
  BY DEF IInv
<1> QED
  BY <1>1, Start, Step, PTL DEF Spec

\* getkey returns no character that was not pushed for the process that asks,
\* and none twice, overflowing buffers included.
THEOREM KeysAreTyped == Spec => []NeverForgedOrTwice
<1>1. IInv => NeverForgedOrTwice
  <2> SUFFICES ASSUME IInv, NEW p \in Process, NEW c \in Char PROVE owed[p][c] >= 0
    BY DEF NeverForgedOrTwice
  <2>1. Cardinality(Holding(p, c)) \in Nat
    BY HoldingFinite
  <2> QED
    BY <2>1 DEF IInv, OwedInBuffer
<1> QED
  BY <1>1, Start, Step, PTL DEF Spec

\* The ring buffers, their int indices wrapping, implement the queues a program
\* may expect of getkey.
THEOREM BuffersImplementQueues == Spec => ImplementsKeyQueue
<1>1. QueueStep => [Queues!Next]_(Queues!vars)
  BY DEF QueueStep, Queues!vars, AbsQueue
<1> QED
  BY <1>1, Start, Step, PTL DEF Spec, ImplementsKeyQueue, Queues!Spec
==============================================================================
