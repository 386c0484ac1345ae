--------------------------- MODULE SchedulerProofs ----------------------------
(***************************************************************************)
(* Proofs about the process table and the task list, for any number of     *)
(* slots and any memory for tasks and processes.                           *)
(***************************************************************************)
EXTENDS Scheduler, TLAPS, FiniteSetTheorems, NaturalsInduction,
        WellFoundedInduction

\* What task.c keeps.
ListType ==
  [task : [Task -> [process : Proc \cup {NULL},
                    next : Task \cup {NULL}, prev : Task \cup {NULL}]],
   live : SUBSET Task,
   head : Task \cup {NULL}, tail : Task \cup {NULL},
   current : Task \cup {NULL}]

\* The list is the n tasks of s, in this order.  Nothing is said of prev, which
\* task_list_remove does not keep up to date.
Chain(l, n, s) ==
  /\ n \in Nat /\ s \in [1 .. n -> Task]
  /\ \A i, j \in 1 .. n : s[i] = s[j] => i = j
  /\ l.live = {s[i] : i \in 1 .. n}
  /\ l.head = IF n = 0 THEN NULL ELSE s[1]
  /\ l.tail = IF n = 0 THEN NULL ELSE s[n]
  /\ \A i \in 1 .. n : l.task[s[i]].next = IF i = n THEN NULL ELSE s[i + 1]

------------------------------------------------------------------------------
(* task.c *)

LEMMA NullIsNoTask == \A t \in Task : t # NULL
BY NullAssumption

\* A pointer of one struct is written.
SetPrev(l, t, u) == [l EXCEPT !.task[t].prev = u]
SetNext(l, t, u) == [l EXCEPT !.task[t].next = u]

\* n is l but for prev of t, or next of t, which is u.
PrevSet(n, l, t, u) ==
  /\ n \in ListType
  /\ n.live = l.live /\ n.head = l.head /\ n.tail = l.tail /\ n.current = l.current
  /\ \A v \in Task : /\ n.task[v].prev = IF v = t THEN u ELSE l.task[v].prev
                     /\ n.task[v].next = l.task[v].next
                     /\ n.task[v].process = l.task[v].process

NextSet(n, l, t, u) ==
  /\ n \in ListType
  /\ n.live = l.live /\ n.head = l.head /\ n.tail = l.tail /\ n.current = l.current
  /\ \A v \in Task : /\ n.task[v].next = IF v = t THEN u ELSE l.task[v].next
                     /\ n.task[v].prev = l.task[v].prev
                     /\ n.task[v].process = l.task[v].process

LEMMA WritePrev ==
  ASSUME NEW l \in ListType, NEW t \in Task, NEW u \in Task \cup {NULL}
  PROVE  PrevSet(SetPrev(l, t, u), l, t, u)
BY DEF ListType, SetPrev, PrevSet

LEMMA WriteNext ==
  ASSUME NEW l \in ListType, NEW t \in Task, NEW u \in Task \cup {NULL}
  PROVE  NextSet(SetNext(l, t, u), l, t, u)
BY DEF ListType, SetNext, NextSet

\* task_new puts a task at the end.
LEMMA NewFields ==
  ASSUME NEW l \in ListType, NEW t \in Task, NEW p \in Proc, l.head # NULL => l.tail \in Task \ {t},
         NEW n, n = task_new(l, t, p)
  PROVE  /\ n \in ListType
         /\ n.live = l.live \cup {t} /\ n.tail = t
         /\ n.head = IF l.head = NULL THEN t ELSE l.head
         /\ n.current = IF l.head = NULL THEN t ELSE l.current
         /\ n.task[t].process = p /\ n.task[t].next = NULL
         /\ n.task[t].prev = IF l.head = NULL THEN NULL ELSE l.tail
         /\ \A u \in Task \ {t} :
              /\ n.task[u].process = l.task[u].process /\ n.task[u].prev = l.task[u].prev
              /\ n.task[u].next = IF l.head # NULL /\ u = l.tail THEN t ELSE l.task[u].next
<1> DEFINE rec == [process |-> p, next |-> NULL, prev |-> NULL]
           new == [l EXCEPT !.live = @ \cup {t}, !.tail = t, !.task[t] = rec]
<1>1. rec = [NoTask EXCEPT !.process = p]
  BY DEF NoTask
<1>2. /\ new \in ListType /\ new.live = l.live \cup {t} /\ new.tail = t /\ new.head = l.head
      /\ new.current = l.current /\ new.task = [l.task EXCEPT ![t] = rec]
  BY DEF ListType
<1>3. /\ new.task[t] = rec /\ \A u \in Task \ {t} : new.task[u] = l.task[u]
      /\ DOMAIN new.task = Task
  BY <1>2 DEF ListType
<1>4. CASE l.head = NULL
  <2>1. n = [new EXCEPT !.head = t, !.current = t]
    BY <1>1, <1>4 DEF task_new
  <2> HIDE DEF new
  <2>2. /\ n \in ListType /\ n.live = new.live /\ n.tail = new.tail /\ n.head = t
        /\ n.current = t /\ n.task = new.task
    BY <1>2, <2>1 DEF ListType
  <2> QED
    BY <1>2, <1>3, <1>4, <2>2
<1>5. CASE l.head # NULL
  <2>1. n = [new EXCEPT !.task[l.tail].next = t, !.task[t].prev = l.tail]
    BY <1>1, <1>5 DEF task_new
  <2> HIDE DEF new
  <2>2. n = SetPrev(SetNext(new, l.tail, t), t, l.tail)
    BY <2>1 DEF SetPrev, SetNext
  <2>3. l.tail \in Task /\ l.tail # t /\ l.tail \in Task \cup {NULL} /\ t \in Task \cup {NULL}
    BY <1>5
  <2>4. PICK mid : mid = SetNext(new, l.tail, t)
    OBVIOUS
  <2>5. NextSet(mid, new, l.tail, t)
    <3>1. new \in ListType
      BY <1>2
    <3> QED
      BY <2>3, <2>4, <3>1, WriteNext
  <2>6. PrevSet(n, mid, t, l.tail)
    <3>1. mid \in ListType /\ n = SetPrev(mid, t, l.tail)
      BY <2>2, <2>4, <2>5 DEF NextSet
    <3> QED
      BY <2>3, <3>1, WritePrev
  <2> QED
    BY <1>2, <1>3, <1>5, <2>3, <2>5, <2>6 DEF NextSet, PrevSet
<1> QED
  BY <1>4, <1>5

\* task_list_remove before it looks at the current task.
Unlinked(l, t) ==
  LET next == l.task[t].next
      prev == l.task[t].prev
  IN  [l EXCEPT
         !.task = IF prev = NULL THEN @ ELSE [@ EXCEPT ![prev].next = next],
         !.head = IF t = @ THEN next ELSE @,
         !.tail = IF t = @ THEN prev ELSE @]

LEMMA UnlinkedFields ==
  ASSUME NEW l \in ListType, NEW t \in Task, NEW next, NEW prev, NEW out,
         next = l.task[t].next, prev = l.task[t].prev, out = Unlinked(l, t)
  PROVE  /\ out \in ListType /\ out.live = l.live /\ out.current = l.current
         /\ out.head = IF t = l.head THEN next ELSE l.head
         /\ out.tail = IF t = l.tail THEN prev ELSE l.tail
         /\ \A u \in Task : /\ out.task[u].process = l.task[u].process
                            /\ out.task[u].next = IF u = prev THEN next ELSE l.task[u].next
<1>1. next \in Task \cup {NULL} /\ prev \in Task \cup {NULL}
  BY DEF ListType
<1>2. /\ l.task \in [Task -> [process : Proc \cup {NULL},
                              next : Task \cup {NULL}, prev : Task \cup {NULL}]]
      /\ l.live \in SUBSET Task
      /\ l.head \in Task \cup {NULL} /\ l.tail \in Task \cup {NULL} /\ l.current \in Task \cup {NULL}
  BY DEF ListType
<1>3. CASE prev = NULL
  <2>1. out = [l EXCEPT !.head = IF t = @ THEN next ELSE @, !.tail = IF t = @ THEN prev ELSE @]
    BY <1>2, <1>3 DEF Unlinked, ListType
  <2>2. /\ out \in ListType /\ out.live = l.live /\ out.current = l.current /\ out.task = l.task
        /\ out.head = IF t = l.head THEN next ELSE l.head
        /\ out.tail = IF t = l.tail THEN prev ELSE l.tail
    BY <1>1, <2>1 DEF ListType
  <2> QED
    BY <1>3, <2>2, NullAssumption
<1>4. CASE prev # NULL
  <2>1. prev \in Task
    BY <1>1, <1>4
  <2>2. out = [SetNext(l, prev, next) EXCEPT !.head = IF t = @ THEN next ELSE @, !.tail = IF t = @ THEN prev ELSE @]
    BY <1>2, <1>4 DEF Unlinked, ListType, SetNext
  <2>3. PICK mid : mid = SetNext(l, prev, next)
    OBVIOUS
  <2>4. NextSet(mid, l, prev, next)
    BY <1>1, <2>1, <2>3, WriteNext
  <2>5. mid \in ListType
    BY <2>4 DEF NextSet
  <2>6. out = [mid EXCEPT !.head = IF t = @ THEN next ELSE @, !.tail = IF t = @ THEN prev ELSE @]
    BY <2>2, <2>3
  <2>7. /\ out \in ListType /\ out.live = mid.live /\ out.current = mid.current /\ out.task = mid.task
        /\ out.head = IF t = mid.head THEN next ELSE mid.head
        /\ out.tail = IF t = mid.tail THEN prev ELSE mid.tail
    BY <1>1, <2>5, <2>6 DEF ListType
  <2> QED
    BY <2>4, <2>7 DEF NextSet
<1> QED
  BY <1>3, <1>4

\* What task_free leaves of the list.
LEMMA FreeFields ==
  ASSUME NEW l \in ListType, NEW t \in Task, NEW next, NEW prev, NEW n,
         next = l.task[t].next, prev = l.task[t].prev, n = task_free(l, t)
  PROVE  /\ n \in ListType /\ n.live = l.live \ {t}
         /\ n.head = IF t = l.head THEN next ELSE l.head
         /\ n.tail = IF t = l.tail THEN prev ELSE l.tail
         /\ n.current = IF t # l.current THEN l.current
                        ELSE IF next # NULL THEN next
                        ELSE IF t = l.head THEN next ELSE l.head
         /\ \A u \in Task \ {t} :
              /\ n.task[u].process = l.task[u].process
              /\ n.task[u].next = IF u = prev THEN next ELSE l.task[u].next
         /\ n.task[t] = NoTask
<1>1. PICK out : out = Unlinked(l, t)
  OBVIOUS
<1>2. /\ out \in ListType /\ out.live = l.live /\ out.current = l.current
      /\ out.head = IF t = l.head THEN next ELSE l.head
      /\ out.tail = IF t = l.tail THEN prev ELSE l.tail
      /\ \A u \in Task : /\ out.task[u].process = l.task[u].process
                         /\ out.task[u].next = IF u = prev THEN next ELSE l.task[u].next
  BY <1>1, UnlinkedFields
<1>3. PICK m : m = task_list_remove(l, t)
  OBVIOUS
<1>4. m = IF t = l.current THEN [out EXCEPT !.current = task_get_next(out)] ELSE out
  BY <1>1, <1>3 DEF task_list_remove, Unlinked
<1>5. t = l.current => task_get_next(out) = IF next # NULL THEN next ELSE out.head
  BY <1>2 DEF task_get_next
<1>6. next \in Task \cup {NULL} /\ out.head \in Task \cup {NULL}
  BY <1>2 DEF ListType
<1>7. /\ m \in ListType /\ m.live = out.live /\ m.head = out.head /\ m.tail = out.tail /\ m.task = out.task
      /\ m.current = IF t # l.current THEN l.current ELSE IF next # NULL THEN next ELSE out.head
  <2>1. CASE t = l.current
    <3>1. m = [out EXCEPT !.current = IF next # NULL THEN next ELSE out.head]
      BY <1>4, <1>5, <2>1
    <3>2. out \in ListType
      BY <1>2
    <3> QED
      BY <1>6, <2>1, <3>1, <3>2 DEF ListType
  <2>2. CASE t # l.current
    BY <1>2, <1>4, <2>2
  <2> QED
    BY <2>1, <2>2
<1>8. m \in ListType
  BY <1>7
<1>9. n = [m EXCEPT !.live = @ \ {t}, !.task[t] = NoTask]
  BY <1>3 DEF task_free
<1>10. NoTask \in [process : Proc \cup {NULL}, next : Task \cup {NULL}, prev : Task \cup {NULL}]
  BY DEF NoTask
<1>11. /\ n \in ListType /\ n.live = m.live \ {t} /\ n.head = m.head /\ n.tail = m.tail
       /\ n.current = m.current /\ n.task[t] = NoTask
       /\ \A u \in Task \ {t} : n.task[u] = m.task[u]
  <2> DEFINE Struct == [process : Proc \cup {NULL}, next : Task \cup {NULL}, prev : Task \cup {NULL}]
  <2>1. PICK tasks : tasks = [m.task EXCEPT ![t] = NoTask]
    OBVIOUS
  <2>2. m.task \in [Task -> Struct]
    BY <1>8 DEF ListType
  <2>3. /\ tasks \in [Task -> Struct] /\ tasks[t] = NoTask
        /\ \A u \in Task \ {t} : tasks[u] = m.task[u]
    BY <1>10, <2>1, <2>2
  <2>4. n = [m EXCEPT !.live = @ \ {t}, !.task = tasks]
    BY <1>9, <2>1
  <2>5. /\ n \in ListType /\ n.live = m.live \ {t} /\ n.head = m.head /\ n.tail = m.tail
        /\ n.current = m.current /\ n.task = tasks
    BY <1>8, <2>3, <2>4 DEF ListType
  <2> QED
    BY <2>3, <2>5
<1> QED
  BY <1>2, <1>7, <1>11

------------------------------------------------------------------------------
(* The list as a chain. *)

LEMMA NewChain ==
  ASSUME NEW l \in ListType, NEW n, NEW s, Chain(l, n, s),
         NEW t \in Task, t \notin l.live, NEW p \in Proc, NEW m, m = task_new(l, t, p)
  PROVE  /\ l.head # NULL => l.tail \in Task \ {t}
         /\ l.head = NULL <=> l.live = {}
         /\ Chain(m, n + 1, [i \in 1 .. n + 1 |-> IF i = n + 1 THEN t ELSE s[i]])
         /\ m.task[t].prev = IF n = 0 THEN NULL ELSE s[n]
<1> DEFINE s2 == [i \in 1 .. n + 1 |-> IF i = n + 1 THEN t ELSE s[i]]
<1>1. /\ n \in Nat /\ s \in [1 .. n -> Task]
      /\ \A i, j \in 1 .. n : s[i] = s[j] => i = j
      /\ l.live = {s[i] : i \in 1 .. n}
      /\ l.head = IF n = 0 THEN NULL ELSE s[1]
      /\ l.tail = IF n = 0 THEN NULL ELSE s[n]
      /\ \A i \in 1 .. n : l.task[s[i]].next = IF i = n THEN NULL ELSE s[i + 1]
  BY DEF Chain
<1>2. n # 0 => s[1] \in l.live /\ s[n] \in l.live /\ s[1] \in Task /\ s[n] \in Task
  BY <1>1
<1>3. l.head = NULL <=> n = 0
  BY <1>1, <1>2, NullIsNoTask
<1>4. l.head # NULL => l.tail \in Task \ {t}
  BY <1>1, <1>2, <1>3
<1>5. l.head = NULL <=> l.live = {}
  BY <1>1, <1>2, <1>3
<1>6. /\ m \in ListType
      /\ m.live = l.live \cup {t} /\ m.tail = t
      /\ m.head = IF l.head = NULL THEN t ELSE l.head
      /\ m.task[t].next = NULL
      /\ m.task[t].prev = IF l.head = NULL THEN NULL ELSE l.tail
      /\ \A u \in Task \ {t} :
           m.task[u].next = IF l.head # NULL /\ u = l.tail THEN t ELSE l.task[u].next
  BY <1>4, NewFields
<1>7. /\ n + 1 \in Nat /\ s2 \in [1 .. n + 1 -> Task]
      /\ \A i \in 1 .. n : i \in 1 .. n + 1 /\ s2[i] = s[i] /\ s[i] \in Task \ {t}
      /\ s2[n + 1] = t
  BY <1>1
<1>8. \A i \in 1 .. n + 1 : i = n + 1 \/ i \in 1 .. n
  BY <1>1
<1> HIDE DEF s2
<1>9. \A i, j \in 1 .. n + 1 : s2[i] = s2[j] => i = j
  BY <1>1, <1>7, <1>8
<1>10. m.live = {s2[i] : i \in 1 .. n + 1}
  <2>1. n + 1 \in 1 .. n + 1
    BY <1>1
  <2> QED
    BY <1>1, <1>6, <1>7, <1>8, <2>1
<1>11. m.head = s2[1] /\ m.tail = s2[n + 1]
  BY <1>1, <1>3, <1>6, <1>7
<1>12. \A i \in 1 .. n + 1 : m.task[s2[i]].next = IF i = n + 1 THEN NULL ELSE s2[i + 1]
  <2> SUFFICES ASSUME NEW i \in 1 .. n + 1
               PROVE  m.task[s2[i]].next = IF i = n + 1 THEN NULL ELSE s2[i + 1]
    OBVIOUS
  <2>1. CASE i = n + 1
    BY <1>6, <1>7, <2>1
  <2>2. CASE i = n /\ i # n + 1
    <3>1. i \in 1 .. n /\ l.head # NULL /\ s[i] = l.tail
      BY <1>1, <1>3, <1>8, <2>2
    <3> QED
      BY <1>6, <1>7, <2>2, <3>1
  <2>3. CASE i # n /\ i # n + 1
    <3>1. i \in 1 .. n /\ n \in 1 .. n /\ i + 1 \in 1 .. n
      BY <1>1, <1>8, <2>3
    <3>2. s[i] # l.tail
      BY <1>1, <2>3, <3>1
    <3>3. m.task[s[i]].next = l.task[s[i]].next
      BY <1>6, <1>7, <3>1, <3>2
    <3> QED
      BY <1>1, <1>7, <2>3, <3>1, <3>3
  <2> QED
    BY <2>1, <2>2, <2>3
<1>13. Chain(m, n + 1, s2)
  <2>1. n + 1 # 0
    BY <1>1
  <2> QED
    BY <1>7, <1>9, <1>10, <1>11, <1>12, <2>1 DEF Chain
<1> QED
  BY <1>1, <1>3, <1>4, <1>5, <1>6, <1>13 DEF s2

\* The node that task_list_remove should find behind prev.
LEMMA Predecessor ==
  ASSUME NEW l \in ListType, NEW n, NEW s, Chain(l, n, s), NEW k \in 1 .. n
  PROVE  Pred(l, s[k]) = IF k = 1 THEN NULL ELSE s[k - 1]
<1>1. /\ n \in Nat /\ s \in [1 .. n -> Task]
      /\ \A i, j \in 1 .. n : s[i] = s[j] => i = j
      /\ l.live = {s[i] : i \in 1 .. n}
      /\ \A i \in 1 .. n : l.task[s[i]].next = IF i = n THEN NULL ELSE s[i + 1]
  BY DEF Chain
<1>2. \A u \in l.live : l.task[u].next = s[k] => k # 1 /\ u = s[k - 1]
  <2> SUFFICES ASSUME NEW u \in l.live, l.task[u].next = s[k] PROVE k # 1 /\ u = s[k - 1]
    OBVIOUS
  <2>1. PICK i \in 1 .. n : u = s[i]
    BY <1>1
  <2>2. i # n
    BY <1>1, <2>1, NullIsNoTask
  <2>3. i + 1 \in 1 .. n /\ s[i + 1] = s[k]
    BY <1>1, <2>1, <2>2
  <2>4. i + 1 = k
    BY <1>1, <2>3
  <2> QED
    BY <1>1, <2>1, <2>4
<1>3. k # 1 => s[k - 1] \in l.live /\ l.task[s[k - 1]].next = s[k]
  <2> SUFFICES ASSUME k # 1 PROVE s[k - 1] \in l.live /\ l.task[s[k - 1]].next = s[k]
    OBVIOUS
  <2>1. k - 1 \in 1 .. n /\ k - 1 # n /\ (k - 1) + 1 = k
    BY <1>1
  <2> QED
    BY <1>1, <2>1
<1> QED
  BY <1>2, <1>3 DEF Pred

\* s without its element k.
Without(n, s, k) == [i \in 1 .. n - 1 |-> IF i < k THEN s[i] ELSE s[i + 1]]

\* task_free takes its task out of the list, when prev is right.
LEMMA RemoveChain ==
  ASSUME NEW l \in ListType, NEW n, NEW s, Chain(l, n, s), NEW k \in 1 .. n,
         l.task[s[k]].prev = IF k = 1 THEN NULL ELSE s[k - 1],
         NEW m, m = task_free(l, s[k])
  PROVE  Chain(m, n - 1, Without(n, s, k))
<1>1. /\ n \in Nat /\ s \in [1 .. n -> Task]
      /\ \A i, j \in 1 .. n : s[i] = s[j] => i = j
      /\ l.live = {s[i] : i \in 1 .. n}
      /\ l.head = IF n = 0 THEN NULL ELSE s[1]
      /\ l.tail = IF n = 0 THEN NULL ELSE s[n]
      /\ \A i \in 1 .. n : l.task[s[i]].next = IF i = n THEN NULL ELSE s[i + 1]
  BY DEF Chain
<1>2. PICK t, next, prev : t = s[k] /\ next = l.task[t].next /\ prev = l.task[t].prev
  OBVIOUS
<1>3. /\ t \in Task /\ next = (IF k = n THEN NULL ELSE s[k + 1])
      /\ prev = (IF k = 1 THEN NULL ELSE s[k - 1])
  BY <1>1, <1>2
<1>4. /\ m.live = l.live \ {t}
      /\ m.head = IF t = l.head THEN next ELSE l.head
      /\ m.tail = IF t = l.tail THEN prev ELSE l.tail
      /\ \A u \in Task \ {t} : m.task[u].next = IF u = prev THEN next ELSE l.task[u].next
  <2>1. t \in Task /\ next = l.task[t].next /\ prev = l.task[t].prev /\ m = task_free(l, t)
    BY <1>2, <1>3
  <2> QED
    BY <2>1, FreeFields
<1> DEFINE s2 == Without(n, s, k)
<1>5. /\ n - 1 \in Nat
      /\ \A i \in 1 .. n - 1 : s2[i] = IF i < k THEN s[i] ELSE s[i + 1]
      /\ \A i \in 1 .. n - 1 : i \in 1 .. n /\ i + 1 \in 1 .. n
      /\ s2 \in [1 .. n - 1 -> Task]
  BY <1>1 DEF Without
<1> HIDE DEF s2
<1>6. \A i, j \in 1 .. n - 1 : s2[i] = s2[j] => i = j
  BY <1>1, <1>5
<1>7. \A i \in 1 .. n - 1 : s2[i] \in m.live /\ s2[i] # t
  <2> SUFFICES ASSUME NEW i \in 1 .. n - 1 PROVE s2[i] \in m.live /\ s2[i] # t
    OBVIOUS
  <2>1. PICK j \in 1 .. n : s2[i] = s[j] /\ j # k
    BY <1>1, <1>5
  <2> QED
    BY <1>1, <1>2, <1>4, <2>1
<1>8. \A u \in m.live : \E i \in 1 .. n - 1 : u = s2[i]
  <2> SUFFICES ASSUME NEW u \in m.live PROVE \E i \in 1 .. n - 1 : u = s2[i]
    OBVIOUS
  <2>1. PICK j \in 1 .. n : u = s[j] /\ j # k
    BY <1>1, <1>2, <1>4
  <2>2. CASE j < k
    <3>1. j \in 1 .. n - 1
      BY <1>1, <2>2
    <3> QED
      BY <1>5, <2>1, <2>2, <3>1
  <2>3. CASE j > k
    <3>1. j - 1 \in 1 .. n - 1 /\ ~(j - 1 < k) /\ (j - 1) + 1 = j
      BY <1>1, <2>3
    <3> QED
      BY <1>5, <2>1, <3>1
  <2> QED
    BY <2>1, <2>2, <2>3
<1>9. m.live = {s2[i] : i \in 1 .. n - 1}
  BY <1>7, <1>8
<1>10. m.head = IF n - 1 = 0 THEN NULL ELSE s2[1]
  <2>1. 1 \in 1 .. n /\ n # 0 /\ (t = l.head <=> k = 1)
    BY <1>1, <1>2
  <2>2. n - 1 # 0 => 1 \in 1 .. n - 1 /\ s2[1] = IF 1 < k THEN s[1] ELSE s[2]
    BY <1>1, <1>5
  <2> QED
    BY <1>1, <1>3, <1>4, <2>1, <2>2
<1>11. m.tail = IF n - 1 = 0 THEN NULL ELSE s2[n - 1]
  <2>1. n \in 1 .. n /\ n # 0 /\ (t = l.tail <=> k = n)
    BY <1>1, <1>2
  <2>2. n - 1 # 0 => n - 1 \in 1 .. n - 1 /\ s2[n - 1] = IF n - 1 < k THEN s[n - 1] ELSE s[n]
    BY <1>1, <1>5
  <2> QED
    BY <1>1, <1>3, <1>4, <2>1, <2>2
<1>12. \A i \in 1 .. n - 1 : m.task[s2[i]].next = IF i = n - 1 THEN NULL ELSE s2[i + 1]
  <2> SUFFICES ASSUME NEW i \in 1 .. n - 1
               PROVE  m.task[s2[i]].next = IF i = n - 1 THEN NULL ELSE s2[i + 1]
    OBVIOUS
  <2>1. s2[i] \in Task \ {t} /\ i \in 1 .. n /\ i + 1 \in 1 .. n
    BY <1>5, <1>7
  <2>2. m.task[s2[i]].next = IF s2[i] = prev THEN next ELSE l.task[s2[i]].next
    BY <1>4, <2>1
  <2>3. i # n - 1 => i + 1 \in 1 .. n - 1 /\ s2[i + 1] = IF i + 1 < k THEN s[i + 1] ELSE s[(i + 1) + 1]
    BY <1>1, <1>5
  <2>4. CASE i + 1 = k
    <3>1. s2[i] = s[i] /\ s2[i] = prev /\ i = k - 1
      BY <1>1, <1>3, <1>5, <2>4
    <3>2. i = n - 1 <=> k = n
      BY <1>1, <2>4
    <3>3. (i + 1) + 1 = k + 1 /\ ~(i + 1 < k)
      BY <1>1, <2>4
    <3> QED
      BY <1>3, <2>2, <2>3, <3>1, <3>2, <3>3
  <2>5. CASE i + 1 # k
    <3>1. PICK j \in 1 .. n : j = (IF i < k THEN i ELSE i + 1) /\ s2[i] = s[j]
      BY <1>5, <2>1
    <3>2. s2[i] # prev
      <4>1. CASE k = 1
        BY <1>3, <2>1, <4>1, NullIsNoTask
      <4>2. CASE k # 1
        <5>1. k - 1 \in 1 .. n /\ prev = s[k - 1] /\ j # k - 1
          BY <1>1, <1>3, <2>5, <3>1, <4>2
        <5> QED
          BY <1>1, <3>1, <5>1
      <4> QED
        BY <4>1, <4>2
    <3>3. m.task[s2[i]].next = IF j = n THEN NULL ELSE s[j + 1]
      BY <1>1, <2>2, <3>1, <3>2
    <3>4. j = n <=> i = n - 1
      BY <1>1, <2>5, <3>1
    <3>5. i # n - 1 => s2[i + 1] = s[j + 1]
      BY <1>1, <2>3, <2>5, <3>1
    <3> QED
      BY <3>3, <3>4, <3>5
  <2> QED
    BY <2>4, <2>5
<1> QED
  BY <1>5, <1>6, <1>9, <1>10, <1>11, <1>12 DEF Chain, s2

\* Freeing the running task hands the processor to one that is left, if there
\* is one, whether or not prev is right.
LEMMA FreeCurrent ==
  ASSUME NEW l \in ListType, NEW n, NEW s, Chain(l, n, s), l.current \in l.live,
         l.live # {l.current}, NEW m, m = task_free(l, l.current)
  PROVE  m.current \in m.live
<1>1. /\ n \in Nat /\ s \in [1 .. n -> Task]
      /\ \A i, j \in 1 .. n : s[i] = s[j] => i = j
      /\ l.live = {s[i] : i \in 1 .. n}
      /\ l.head = IF n = 0 THEN NULL ELSE s[1]
      /\ \A i \in 1 .. n : l.task[s[i]].next = IF i = n THEN NULL ELSE s[i + 1]
  BY DEF Chain
<1>2. PICK k \in 1 .. n : l.current = s[k]
  BY <1>1
<1>3. PICK j \in 1 .. n : j # k
  <2>1. PICK u \in l.live : u # l.current
    BY <1>1
  <2> QED
    BY <1>1, <1>2, <2>1
<1>4. PICK t, next, prev : t = l.current /\ next = l.task[t].next /\ prev = l.task[t].prev
  OBVIOUS
<1>5. t \in Task /\ t = s[k] /\ next = (IF k = n THEN NULL ELSE s[k + 1])
  BY <1>1, <1>2, <1>4
<1>6. /\ m.live = l.live \ {t}
      /\ m.current = IF t # l.current THEN l.current
                     ELSE IF next # NULL THEN next
                     ELSE IF t = l.head THEN next ELSE l.head
  <2>1. t \in Task /\ next = l.task[t].next /\ prev = l.task[t].prev /\ m = task_free(l, t)
    BY <1>4, <1>5
  <2> QED
    BY <2>1, FreeFields
<1>7. CASE k # n
  <2>1. k + 1 \in 1 .. n /\ k + 1 # k
    BY <1>1, <1>7
  <2>2. s[k + 1] \in Task /\ s[k + 1] \in l.live /\ s[k + 1] # t
    BY <1>1, <1>5, <2>1
  <2> QED
    BY <1>4, <1>5, <1>6, <1>7, <2>2, NullIsNoTask
<1>8. CASE k = n
  <2>1. 1 \in 1 .. n /\ k # 1
    BY <1>1, <1>3, <1>8
  <2>2. s[1] \in l.live /\ s[1] # t /\ l.head = s[1]
    BY <1>1, <1>5, <2>1
  <2> QED
    BY <1>4, <1>5, <1>6, <1>8, <2>2
<1> QED
  BY <1>7, <1>8

\* task_get_next stays in the list.
LEMMA NextInList ==
  ASSUME NEW l \in ListType, NEW n, NEW s, Chain(l, n, s), l.current \in l.live
  PROVE  task_get_next(l) \in l.live
<1>1. /\ n \in Nat /\ s \in [1 .. n -> Task]
      /\ l.live = {s[i] : i \in 1 .. n}
      /\ l.head = IF n = 0 THEN NULL ELSE s[1]
      /\ \A i \in 1 .. n : l.task[s[i]].next = IF i = n THEN NULL ELSE s[i + 1]
  BY DEF Chain
<1>2. PICK k \in 1 .. n : l.current = s[k]
  BY <1>1
<1>3. 1 \in 1 .. n /\ (k # n => k + 1 \in 1 .. n)
  BY <1>1
<1>4. l.head \in l.live /\ (k # n => s[k + 1] \in l.live)
  BY <1>1, <1>3
<1>5. l.task[l.current].next = IF k = n THEN NULL ELSE s[k + 1]
  BY <1>1, <1>2
<1> QED
  BY <1>4, <1>5 DEF task_get_next

------------------------------------------------------------------------------
(* The inductive invariant. *)

\* Each registered process knows its slot and its task, which is not freed and
\* knows the process.
KnowsTask(p, i) ==
  /\ process[p].id = i
  /\ process[p].task \in list.live
  /\ list.task[process[p].task].process = p

\* A task that is not freed belongs to a registered process that knows it.
KnowsProcess(t) ==
  /\ list.task[t].process \in Registered
  /\ process[list.task[t].process].task = t

\* The table and the list match, one to one, and the processor and the keyboard
\* are with tasks and processes that are there.
Linked ==
  /\ \E n \in Nat : \E s \in [1 .. n -> Task] : Chain(list, n, s)
  /\ \A i \in Slot : processes[i] # NULL => KnowsTask(processes[i], i)
  /\ \A t \in list.live : KnowsProcess(t)
  /\ list.live # {} => list.current \in list.live /\ current_process \in Registered

\* Before a panic and before a wild write.
IInv ==
  /\ TypeOK
  /\ Sound => Linked
  /\ Sound => (mode = "boot1" <=> list.live = {})

\* TypeOK but for the mode.
Types ==
  /\ processes \in [Slot -> Proc \cup {NULL}]
  /\ current_process \in Proc \cup {NULL}
  /\ process \in [Proc -> [id : Slot, task : Task \cup {NULL}]]
  /\ list \in ListType

LEMMA TypesAndMode == TypeOK <=> Types /\ mode \in Mode
BY DEF TypeOK, Types, ListType

LEMMA LowestExists ==
  ASSUME NEW S \in SUBSET Nat, S # {}
  PROVE  Lowest(S) \in S /\ \A y \in S : Lowest(S) <= y
<1> DEFINE R == OpToRel(<, Nat)
<1>1. \A y, z \in Nat : y < z => <<y, z>> \in R
  BY SMT DEF OpToRel
<1> HIDE DEF R
<1>2. IsWellFoundedOn(R, Nat)
  BY NatLessThanWellFounded DEF R
<1>3. PICK x \in S : \A y \in S : ~(<<y, x>> \in R)
  BY <1>2, WFMin
<1>4. \A y \in S : x <= y
  <2> SUFFICES ASSUME NEW y \in S PROVE ~(y < x)
    OBVIOUS
  <2>1. x \in Nat /\ y \in Nat
    OBVIOUS
  <2> QED
    BY <1>1, <1>3, <2>1
<1> QED
  BY <1>3, <1>4, Zenon DEF Lowest

LEMMA SwitchFields ==
  ASSUME NEW l \in ListType, NEW t \in Task \cup {NULL}, NEW m, m = task_switch(l, t)
  PROVE  /\ m \in ListType /\ m.live = l.live /\ m.head = l.head /\ m.tail = l.tail
         /\ m.task = l.task /\ m.current = t
         /\ \A n, s : Chain(l, n, s) => Chain(m, n, s)
<1>1. /\ m \in ListType /\ m.live = l.live /\ m.head = l.head /\ m.tail = l.tail
      /\ m.task = l.task /\ m.current = t
  BY DEF task_switch, ListType
<1> QED
  BY <1>1 DEF Chain

\* Another task gets the processor.
LEMMA SwitchStep ==
  ASSUME Types, Linked, NEW t \in list.live, list' = task_switch(list, t),
         UNCHANGED <<processes, current_process, process>>
  PROVE  Types' /\ Linked' /\ list'.live = list.live
<1>1. list \in ListType /\ t \in Task /\ t \in Task \cup {NULL}
  BY DEF Types, ListType
<1>2. /\ list' \in ListType /\ list'.live = list.live /\ list'.task = list.task /\ list'.current = t
      /\ \A n, s : Chain(list, n, s) => Chain(list', n, s)
  BY <1>1, SwitchFields
<1>3. PICK n \in Nat : \E s \in [1 .. n -> Task] : Chain(list, n, s)
  BY DEF Linked
<1>4. PICK s \in [1 .. n -> Task] : Chain(list, n, s)
  BY <1>3
<1>5. Chain(list', n, s)
  BY <1>2, <1>4
<1>6. Types'
  BY <1>2 DEF Types
<1>7. \A i \in Slot : processes'[i] # NULL => KnowsTask(processes[i], i)'
  BY <1>2 DEF Linked, KnowsTask
<1>8. \A u \in list'.live : KnowsProcess(u)'
  BY <1>2 DEF Linked, KnowsProcess, Registered
<1>9. list'.current \in list'.live /\ current_process' \in Registered'
  BY <1>2 DEF Linked, Registered
<1> QED
  BY <1>2, <1>5, <1>6, <1>7, <1>8, <1>9 DEF Linked

\* A load that succeeds.
LEMMA LoadStep ==
  ASSUME Types, Linked, NEW t \in Task, NEW loaded,
         \/ loaded = task_new(list, t, NewProcess)
         \/ loaded = task_switch(task_new(list, t, NewProcess), t),
         process_load_switch(t, loaded)
  PROVE  /\ Types' /\ Linked' /\ list'.live # {}
         /\ \A i \in Slot : processes[i] # NULL => processes'[i] = processes[i]
<1>1. PICK p, k, fresh : p = NewProcess /\ k = process_get_free_slot /\ fresh = task_new(list, t, NewProcess)
  OBVIOUS
<1>2. /\ p \in Proc /\ p # NULL /\ p # current_process
      /\ \A i \in Slot : processes[i] # p
      /\ \A u \in Task : list.task[u].process # p
  <2>1. Unreached # {}
    BY DEF process_load_switch, CanLoad
  <2>2. p \in Unreached
    BY <1>1, <2>1 DEF NewProcess
  <2> QED
    BY <2>2, NullAssumption DEF Unreached
<1>3. k \in Slot /\ processes[k] = NULL
  <2>1. Slot \ Used(processes) # {} /\ Slot \ Used(processes) \in SUBSET Nat
    BY MaxProcessesAssumption DEF process_load_switch, CanLoad, Used, Slot
  <2>2. k \in Slot \ Used(processes)
    BY <1>1, <2>1, LowestExists DEF process_get_free_slot
  <2> QED
    BY <2>2 DEF Used
<1>4. t \notin list.live /\ list' = loaded /\ current_process' = p
  BY <1>1 DEF process_load_switch, CanLoad
<1>5. /\ process' = [process EXCEPT ![p] = [id |-> k, task |-> t]]
      /\ processes' = [processes EXCEPT ![k] = p]
  BY <1>1 DEF process_load_switch
<1>6. list \in ListType
  BY DEF Types
<1>7. PICK n \in Nat : \E s \in [1 .. n -> Task] : Chain(list, n, s)
  BY DEF Linked
<1>8. PICK s \in [1 .. n -> Task] : Chain(list, n, s)
  BY <1>7
<1>9. fresh = task_new(list, t, p)
  BY <1>1
<1>10. /\ list.head # NULL => list.tail \in Task \ {t}
       /\ list.head = NULL <=> list.live = {}
       /\ Chain(fresh, n + 1, [i \in 1 .. n + 1 |-> IF i = n + 1 THEN t ELSE s[i]])
  BY <1>2, <1>4, <1>6, <1>8, <1>9, NewChain
<1>11. /\ fresh \in ListType /\ fresh.live = list.live \cup {t}
       /\ fresh.current = (IF list.head = NULL THEN t ELSE list.current)
       /\ fresh.task[t].process = p
       /\ \A u \in Task \ {t} : fresh.task[u].process = list.task[u].process
  BY <1>2, <1>6, <1>9, <1>10, NewFields
<1>12. /\ list' \in ListType /\ list'.live = fresh.live /\ list'.task = fresh.task
       /\ list'.current \in {fresh.current, t}
       /\ \A m, r : Chain(fresh, m, r) => Chain(list', m, r)
  <2>1. CASE loaded = fresh
    BY <1>4, <1>11, <2>1
  <2>2. CASE loaded = task_switch(fresh, t)
    <3>1. t \in Task \cup {NULL} /\ fresh \in ListType /\ list' = task_switch(fresh, t)
      BY <1>4, <1>11, <2>2
    <3> QED
      BY <3>1, SwitchFields
  <2> QED
    BY <1>1, <2>1, <2>2
<1>13. \E m \in Nat : \E r \in [1 .. m -> Task] : Chain(list', m, r)
  <2>1. PICK m, r : m = n + 1 /\ r = [i \in 1 .. n + 1 |-> IF i = n + 1 THEN t ELSE s[i]]
    OBVIOUS
  <2>2. Chain(list', m, r)
    BY <1>10, <1>12, <2>1
  <2>3. m \in Nat /\ r \in [1 .. m -> Task]
    BY <2>2 DEF Chain
  <2> QED
    BY <2>2, <2>3
<1>14. /\ processes' \in [Slot -> Proc \cup {NULL}]
       /\ process' \in [Proc -> [id : Slot, task : Task \cup {NULL}]]
       /\ processes'[k] = p /\ process'[p].id = k /\ process'[p].task = t
       /\ \A i \in Slot : i # k => processes'[i] = processes[i]
       /\ \A q \in Proc : q # p => process'[q] = process[q]
  BY <1>2, <1>3, <1>5 DEF Types
<1>15. Types'
  BY <1>2, <1>4, <1>12, <1>14 DEF Types
<1>16. p \in Registered' /\ \A q \in Registered : q \in Registered' /\ q # p /\ q \in Proc
  <2>1. p \in Registered'
    BY <1>2, <1>3, <1>14 DEF Registered
  <2> SUFFICES ASSUME NEW q \in Registered PROVE q \in Registered' /\ q # p /\ q \in Proc
    BY <2>1
  <2>2. PICK i \in Slot : processes[i] = q /\ q # NULL
    BY DEF Registered
  <2>3. i # k /\ processes'[i] = q
    BY <1>3, <1>14, <2>2
  <2>4. q \in Registered'
    BY <2>2, <2>3 DEF Registered
  <2> QED
    BY <1>2, <2>2, <2>4 DEF Types
<1>17. \A i \in Slot : processes'[i] # NULL => KnowsTask(processes[i], i)'
  <2> SUFFICES ASSUME NEW i \in Slot, processes'[i] # NULL
               PROVE  /\ process'[processes'[i]].id = i
                      /\ process'[processes'[i]].task \in list'.live
                      /\ list'.task[process'[processes'[i]].task].process = processes'[i]
    BY DEF KnowsTask
  <2>1. CASE i = k
    BY <1>11, <1>12, <1>14, <2>1
  <2>2. CASE i # k
    <3>1. PICK q : q = processes[i]
      OBVIOUS
    <3>2. processes'[i] = q /\ q \in Registered /\ process'[q] = process[q]
      BY <1>14, <1>16, <2>2, <3>1 DEF Registered
    <3>3. process[q].id = i /\ process[q].task \in list.live /\ list.task[process[q].task].process = q
      BY <2>2, <3>1, <3>2 DEF Linked, KnowsTask
    <3>4. process[q].task \in Task \ {t}
      BY <1>4, <1>6, <3>3 DEF ListType
    <3> QED
      BY <1>11, <1>12, <3>2, <3>3, <3>4
  <2> QED
    BY <2>1, <2>2
<1>18. \A u \in list'.live : KnowsProcess(u)'
  <2> SUFFICES ASSUME NEW u \in list'.live
               PROVE  /\ list'.task[u].process \in Registered'
                      /\ process'[list'.task[u].process].task = u
    BY DEF KnowsProcess
  <2>1. CASE u = t
    BY <1>11, <1>12, <1>14, <1>16, <2>1
  <2>2. CASE u # t
    <3>1. u \in list.live /\ u \in Task \ {t} /\ list'.task[u].process = list.task[u].process
      BY <1>6, <1>11, <1>12, <2>2 DEF ListType
    <3>2. list.task[u].process \in Registered /\ process[list.task[u].process].task = u
      BY <3>1 DEF Linked, KnowsProcess
    <3> QED
      BY <1>14, <1>16, <3>1, <3>2
  <2> QED
    BY <2>1, <2>2
<1>19. list'.current \in list'.live /\ current_process' \in Registered'
  <2>1. fresh.current \in list'.live
    BY <1>10, <1>11, <1>12 DEF Linked
  <2> QED
    BY <1>4, <1>11, <1>12, <1>16, <2>1
<1>20. \A i \in Slot : processes[i] # NULL => processes'[i] = processes[i]
  BY <1>3, <1>14
<1>21. Linked'
  BY <1>13, <1>17, <1>18, <1>19 DEF Linked
<1> QED
  BY <1>11, <1>12, <1>15, <1>20, <1>21

\* A load that fails after task_new leaves the list as it was, but for prev.
LEMMA LateStep ==
  ASSUME Types, Linked, NEW t \in Task, LoadFailsLate(t)
  PROVE  Types' /\ (list.live # {} => Linked' /\ list'.live # {})
<1>1. PICK p, fresh : p = NewProcess /\ fresh = task_new(list, t, NewProcess)
  OBVIOUS
<1>2. p \in Proc
  <2>1. Unreached # {}
    BY DEF LoadFailsLate, CanLoad
  <2>2. p \in Unreached
    BY <1>1, <2>1 DEF NewProcess
  <2> QED
    BY <2>2 DEF Unreached
<1>3. /\ t \notin list.live /\ list' = task_free(fresh, t)
      /\ UNCHANGED <<processes, current_process, process>>
  BY <1>1 DEF LoadFailsLate, CanLoad
<1>4. list \in ListType /\ fresh = task_new(list, t, p)
  BY <1>1 DEF Types
<1>5. PICK n \in Nat : \E s \in [1 .. n -> Task] : Chain(list, n, s)
  BY DEF Linked
<1>6. PICK s \in [1 .. n -> Task] : Chain(list, n, s)
  BY <1>5
<1>7. PICK s2 : s2 = [i \in 1 .. n + 1 |-> IF i = n + 1 THEN t ELSE s[i]]
  OBVIOUS
<1>8. /\ list.head # NULL => list.tail \in Task \ {t}
      /\ list.head = NULL <=> list.live = {}
      /\ Chain(fresh, n + 1, s2)
      /\ fresh.task[t].prev = IF n = 0 THEN NULL ELSE s[n]
  BY <1>2, <1>3, <1>4, <1>6, <1>7, NewChain
<1>9. /\ fresh \in ListType /\ fresh.live = list.live \cup {t}
      /\ fresh.current = (IF list.head = NULL THEN t ELSE list.current)
      /\ \A u \in Task \ {t} : fresh.task[u].process = list.task[u].process
  BY <1>2, <1>4, <1>8, NewFields
<1>10. PICK next, prev : next = fresh.task[t].next /\ prev = fresh.task[t].prev
  OBVIOUS
<1>11. /\ list' \in ListType /\ list'.live = fresh.live \ {t}
       /\ list'.current = (IF t # fresh.current THEN fresh.current
                           ELSE IF next # NULL THEN next
                           ELSE IF t = fresh.head THEN next ELSE fresh.head)
       /\ \A u \in Task \ {t} : list'.task[u].process = fresh.task[u].process
  BY <1>3, <1>9, <1>10, FreeFields
<1>12. Types'
  BY <1>3, <1>11 DEF Types
<1> SUFFICES ASSUME list.live # {} PROVE Linked' /\ list'.live # {}
  BY <1>12
<1>13. list'.live = list.live
  BY <1>3, <1>9, <1>11
<1>14. \A u \in list.live : u \in Task \ {t} /\ list'.task[u].process = list.task[u].process
  BY <1>3, <1>4, <1>9, <1>11 DEF ListType
<1>15. list'.current = list.current /\ list.current \in list.live
  <2>1. list.current \in list.live /\ list.head # NULL
    BY <1>8 DEF Linked
  <2> QED
    BY <1>3, <1>9, <1>11, <2>1
<1>16. \E m \in Nat : \E r \in [1 .. m -> Task] : Chain(list', m, r)
  <2>1. PICK k : k = n + 1
    OBVIOUS
  <2>2. k \in 1 .. k /\ s2[k] = t /\ Chain(fresh, k, s2)
    BY <1>7, <1>8, <2>1
  <2>3. fresh.task[s2[k]].prev = IF k = 1 THEN NULL ELSE s2[k - 1]
    BY <1>7, <1>8, <2>1, <2>2
  <2>4. list' = task_free(fresh, s2[k])
    BY <1>3, <2>2
  <2>5. Chain(list', k - 1, Without(k, s2, k))
    BY <1>9, <2>2, <2>3, <2>4, RemoveChain
  <2>6. PICK m, r : m = k - 1 /\ r = Without(k, s2, k)
    OBVIOUS
  <2>7. Chain(list', m, r)
    BY <2>5, <2>6
  <2>8. m \in Nat /\ r \in [1 .. m -> Task]
    BY <2>7 DEF Chain
  <2> QED
    BY <2>7, <2>8
<1>17. \A i \in Slot : processes'[i] # NULL => KnowsTask(processes[i], i)'
  BY <1>3, <1>13, <1>14 DEF Linked, KnowsTask
<1>18. \A u \in list'.live : KnowsProcess(u)'
  BY <1>3, <1>13, <1>14 DEF Linked, KnowsProcess, Registered
<1>19. list'.current \in list'.live /\ current_process' \in Registered'
  BY <1>3, <1>13, <1>15 DEF Linked, Registered
<1> QED
  BY <1>13, <1>16, <1>17, <1>18, <1>19 DEF Linked

\* An exit or an exception of the program that runs.
LEMMA TerminateStep ==
  ASSUME Types, Linked, list.live # {}, mode = "user",
         process_terminate(task_current_process)
  PROVE  /\ Types' /\ mode' \in {"user", "panic", "wild"}
         /\ mode' = "user" => Linked' /\ list'.live # {}
         /\ \A i \in Slot : processes[i] # NULL /\ processes'[i] = NULL
                              => process[processes[i]].task = list.current
<1>1. PICK p, t, freed, k : /\ p = task_current_process /\ t = process[p].task
                            /\ freed = task_free(list, t) /\ k = process[p].id
  OBVIOUS
<1>2. list \in ListType /\ list.current \in list.live /\ current_process \in Registered
  BY DEF Types, Linked
<1>3. p \in Registered /\ t = list.current /\ list.task[t].process = p /\ t \in Task
  BY <1>1, <1>2 DEF Linked, KnowsProcess, task_current_process, ListType
<1>4. p \in Proc /\ p # NULL
  BY <1>3 DEF Registered, Types
<1>5. /\ k \in Slot /\ processes[k] = p
      /\ \A i \in Slot : processes[i] = p => i = k
  <2>1. \A i \in Slot : processes[i] = p => process[p].id = i
    BY <1>4 DEF Linked, KnowsTask
  <2>2. PICK i \in Slot : processes[i] = p
    BY <1>3 DEF Registered
  <2> QED
    BY <1>1, <2>1, <2>2
<1>6. /\ processes' = [processes EXCEPT ![k] = NULL]
      /\ process' = [process EXCEPT ![p] = NoProcess]
      /\ current_process' = IF current_process = p /\ Used(processes') # {}
                            THEN processes'[Lowest(Used(processes'))]
                            ELSE current_process
      /\ \/ /\ current_process = p /\ Used(processes') = {}
            /\ list' = freed
            /\ mode' = "panic"
         \/ /\ current_process # p \/ Used(processes') # {}
            /\ list' = task_next(freed)
            /\ mode' = IF Stale(list, t) THEN "wild" ELSE mode
  <2>1. process_terminate(p)
    BY <1>1
  <2>2. process_unlink(p)
    BY <2>1 DEF process_terminate
  <2>3. \/ /\ current_process = p /\ Used(processes') = {}
           /\ list' = freed
           /\ mode' = "panic"
        \/ /\ current_process # p \/ Used(processes') # {}
           /\ list' = task_next(freed)
           /\ mode' = IF Stale(list, t) THEN "wild" ELSE mode
    BY <1>1, <2>1 DEF process_terminate
  <2> QED
    BY <1>1, <2>2, <2>3 DEF process_unlink
<1>7. 0 \in Slot /\ NoProcess \in [id : Slot, task : Task \cup {NULL}]
  BY MaxProcessesAssumption DEF Slot, NoProcess
<1>8. /\ processes' \in [Slot -> Proc \cup {NULL}]
      /\ process' \in [Proc -> [id : Slot, task : Task \cup {NULL}]]
      /\ processes'[k] = NULL
      /\ \A i \in Slot : i # k => processes'[i] = processes[i]
      /\ \A q \in Proc : q # p => process'[q] = process[q]
  BY <1>4, <1>5, <1>6, <1>7 DEF Types
<1>9. \A i \in Slot : processes[i] # NULL /\ processes'[i] = NULL
                        => process[processes[i]].task = list.current
  BY <1>1, <1>3, <1>5, <1>8
<1>10. \A q \in Registered : q # p => q \in Registered'
  BY <1>5, <1>8 DEF Registered
<1>11. Used(processes') # {} => processes'[Lowest(Used(processes'))] \in Registered'
  <2>1. Used(processes') \in SUBSET Nat /\ Used(processes') \subseteq Slot
    BY MaxProcessesAssumption DEF Used, Slot
  <2>2. Used(processes') # {} => Lowest(Used(processes')) \in Used(processes')
    BY <2>1, LowestExists
  <2> QED
    BY <2>1, <2>2 DEF Used, Registered
<1>12. PICK next, prev : next = list.task[t].next /\ prev = list.task[t].prev
  OBVIOUS
<1>13. /\ freed \in ListType /\ freed.live = list.live \ {t}
       /\ \A u \in Task \ {t} : freed.task[u].process = list.task[u].process
  BY <1>1, <1>2, <1>3, <1>12, FreeFields
<1>14. CASE current_process = p /\ Used(processes') = {} /\ list' = freed /\ mode' = "panic"
  <2>1. Types'
    BY <1>6, <1>8, <1>13, <1>14 DEF Types
  <2> QED
    BY <1>9, <1>14, <2>1
<1>15. CASE /\ current_process # p \/ Used(processes') # {}
            /\ list' = task_next(freed)
            /\ mode' = IF Stale(list, t) THEN "wild" ELSE mode
  <2>1. Used(processes') # {} /\ current_process' \in Registered'
    <3>1. CASE current_process # p
      <4>1. current_process' \in Registered'
        BY <1>2, <1>6, <1>10, <3>1
      <4> QED
        BY <4>1 DEF Registered, Used
    <3>2. CASE current_process = p
      BY <1>6, <1>11, <1>15, <3>2
    <3> QED
      BY <3>1, <3>2
  <2>2. freed.live # {}
    <3>1. PICK i \in Slot : processes'[i] # NULL
      BY <2>1 DEF Used
    <3>2. i # k /\ processes[i] # NULL /\ processes[i] # p
      BY <1>5, <1>8, <3>1
    <3>3. /\ process[processes[i]].task \in list.live
          /\ list.task[process[processes[i]].task].process = processes[i]
      BY <3>2 DEF Linked, KnowsTask
    <3>4. process[processes[i]].task # t
      BY <1>3, <3>2, <3>3
    <3> QED
      BY <1>13, <3>3, <3>4
  <2>3. PICK n \in Nat : \E s \in [1 .. n -> Task] : Chain(list, n, s)
    BY DEF Linked
  <2>4. PICK s \in [1 .. n -> Task] : Chain(list, n, s)
    BY <2>3
  <2>5. freed = task_free(list, list.current) /\ list.live # {list.current}
    BY <1>1, <1>3, <1>13, <2>2
  <2>6. freed.current \in freed.live
    BY <1>2, <2>4, <2>5, FreeCurrent
  <2>7. PICK to : to = task_get_next(freed)
    OBVIOUS
  <2>8. to \in Task \cup {NULL}
    BY <1>13, <2>6, <2>7 DEF task_get_next, ListType
  <2>9. list' = task_switch(freed, to)
    BY <1>15, <2>7 DEF task_next
  <2>10. /\ list' \in ListType /\ list'.live = freed.live /\ list'.task = freed.task
         /\ list'.current = to
         /\ \A m, r : Chain(freed, m, r) => Chain(list', m, r)
    BY <1>13, <2>8, <2>9, SwitchFields
  <2>11. Registered' \subseteq Proc \cup {NULL}
    BY <1>8 DEF Registered
  <2>12. Types'
    BY <1>8, <2>1, <2>10, <2>11 DEF Types
  <2>13. ASSUME mode' = "user" PROVE Linked' /\ list'.live # {}
    <3>1. ~Stale(list, t)
      BY <1>15, <2>13
    <3>2. PICK j \in 1 .. n : t = s[j]
      BY <1>2, <1>3, <2>4 DEF Chain
    <3>3. list.task[s[j]].prev = IF j = 1 THEN NULL ELSE s[j - 1]
      BY <1>2, <2>4, <3>1, <3>2, Predecessor DEF Stale
    <3>4. freed = task_free(list, s[j])
      BY <1>1, <3>2
    <3>5. Chain(freed, n - 1, Without(n, s, j))
      BY <1>2, <2>4, <3>3, <3>4, RemoveChain
    <3>6. PICK m, r : m = n - 1 /\ r = Without(n, s, j)
      OBVIOUS
    <3>7. Chain(freed, m, r) /\ Chain(list', m, r)
      BY <2>10, <3>5, <3>6
    <3>8. m \in Nat /\ r \in [1 .. m -> Task]
      BY <3>7 DEF Chain
    <3>9. to \in freed.live
      BY <1>13, <2>6, <2>7, <3>7, NextInList
    <3>10. \A i \in Slot : processes'[i] # NULL => KnowsTask(processes[i], i)'
      <4> SUFFICES ASSUME NEW i \in Slot, processes'[i] # NULL
                   PROVE  /\ process'[processes'[i]].id = i
                          /\ process'[processes'[i]].task \in list'.live
                          /\ list'.task[process'[processes'[i]].task].process = processes'[i]
        BY DEF KnowsTask
      <4>1. PICK q : q = processes[i]
        OBVIOUS
      <4>2. i # k /\ processes'[i] = q /\ q # NULL /\ q # p /\ q \in Proc /\ process'[q] = process[q]
        BY <1>5, <1>8, <4>1 DEF Types
      <4>3. process[q].id = i /\ process[q].task \in list.live /\ list.task[process[q].task].process = q
        BY <4>1, <4>2 DEF Linked, KnowsTask
      <4>4. process[q].task \in Task \ {t}
        BY <1>2, <1>3, <4>2, <4>3 DEF ListType
      <4> QED
        BY <1>13, <2>10, <4>2, <4>3, <4>4
    <3>11. \A u \in list'.live : KnowsProcess(u)'
      <4> SUFFICES ASSUME NEW u \in list'.live
                   PROVE  /\ list'.task[u].process \in Registered'
                          /\ process'[list'.task[u].process].task = u
        BY DEF KnowsProcess
      <4>1. u \in list.live /\ u \in Task \ {t} /\ list'.task[u].process = list.task[u].process
        BY <1>2, <1>13, <2>10 DEF ListType
      <4>2. PICK q : q = list.task[u].process
        OBVIOUS
      <4>3. q \in Registered /\ process[q].task = u
        BY <4>1, <4>2 DEF Linked, KnowsProcess
      <4>4. q # p /\ q \in Proc
        BY <1>1, <4>1, <4>3 DEF Registered, Types
      <4> QED
        BY <1>8, <1>10, <4>1, <4>2, <4>3, <4>4
    <3> QED
      BY <2>1, <2>2, <2>10, <3>7, <3>8, <3>9, <3>10, <3>11 DEF Linked
  <2> QED
    BY <1>9, <1>15, <2>12, <2>13
<1> QED
  BY <1>6, <1>14, <1>15

LEMMA InitInv == Init => IInv
<1> SUFFICES ASSUME Init PROVE IInv
  OBVIOUS
<1>1. 0 \in Slot
  BY MaxProcessesAssumption DEF Slot
<1>2. /\ EmptyList \in ListType /\ EmptyList.live = {}
      /\ EmptyList.head = NULL /\ EmptyList.tail = NULL
  BY DEF EmptyList, ListType, NoTask
<1>3. Types /\ mode \in Mode
  BY <1>1, <1>2 DEF Init, Types, NoProcess, Mode
<1>4. PICK s : s = [i \in 1 .. 0 |-> NULL]
  OBVIOUS
<1>5. s \in [1 .. 0 -> Task]
  BY <1>4
<1>6. Chain(list, 0, s)
  BY <1>2, <1>5 DEF Init, Chain
<1>7. Linked
  BY <1>2, <1>5, <1>6 DEF Init, Linked
<1> QED
  BY <1>2, <1>3, <1>7, TypesAndMode DEF IInv, Init

\* Every step keeps the invariant and removes no process but the one that runs.
LEMMA NextInv ==
  ASSUME IInv, [Next]_vars
  PROVE  /\ IInv'
         /\ \A i \in Slot : processes[i] # NULL /\ processes'[i] = NULL
                              => process[processes[i]].task = list.current
<1> DEFINE Own == \A i \in Slot : processes[i] # NULL /\ processes'[i] = NULL
                                    => process[processes[i]].task = list.current
<1>1. /\ Types /\ mode \in Mode
      /\ Sound => Linked
      /\ Sound => (mode = "boot1" <=> list.live = {})
  BY TypesAndMode DEF IInv
<1>2. ASSUME Types', mode' \in Mode, Sound' => Linked',
             Sound' => (mode' = "boot1" <=> list'.live = {})
      PROVE  IInv'
  <2>1. TypeOK'
    <3>1. (TypeOK <=> Types /\ mode \in Mode)'
      BY TypesAndMode, PTL
    <3> QED
      BY <1>2, <3>1
  <2> QED
    BY <1>2, <2>1 DEF IInv
<1>3. mode' \in Mode /\ ~Sound' <=> mode' \in {"panic", "wild"}
  BY DEF Sound, Mode
<1>4. ASSUME LoadFailsEarly PROVE Types' /\ (Linked => Linked') /\ list'.live = list.live /\ Own
  <2>1. Types' /\ list'.live = list.live /\ Own
    BY <1>1, <1>4 DEF LoadFailsEarly, Types
  <2>2. Linked => Linked'
    BY <1>4 DEF LoadFailsEarly, Linked, KnowsTask, KnowsProcess, Registered
  <2> QED
    BY <2>1, <2>2
<1>5. CASE kernel_main_load
  <2>1. mode \in {"boot1", "boot2"} /\ Linked
    BY <1>1, <1>5 DEF kernel_main_load, Sound
  <2>2. CASE LoadFailsEarly /\ mode' = "panic"
    BY <1>2, <1>3, <1>4, <2>2
  <2>3. ASSUME NEW t \in Task, LoadFailsLate(t), mode' = "panic" PROVE IInv' /\ Own
    <3>1. Types'
      BY <1>1, <2>1, <2>3, LateStep
    <3>2. Own
      BY <2>3 DEF LoadFailsLate
    <3> QED
      BY <1>2, <1>3, <2>3, <3>1, <3>2
  <2>4. ASSUME NEW t \in Task,
               process_load_switch(t, task_new(list, t, NewProcess)),
               mode' = IF mode = "boot1" THEN "boot2" ELSE "start"
        PROVE  IInv' /\ Own
    <3>1. PICK loaded : loaded = task_new(list, t, NewProcess)
      OBVIOUS
    <3>2. process_load_switch(t, loaded)
      BY <2>4, <3>1
    <3>3. /\ Types' /\ Linked' /\ list'.live # {}
          /\ \A i \in Slot : processes[i] # NULL => processes'[i] = processes[i]
      BY <1>1, <2>1, <3>1, <3>2, LoadStep
    <3>4. mode' \in Mode /\ mode' # "boot1"
      BY <2>4 DEF Mode
    <3> QED
      BY <1>2, <3>3, <3>4
  <2> QED
    BY <1>5, <2>2, <2>3, <2>4 DEF kernel_main_load
<1>6. ASSUME mode = "user", UNCHANGED <<processes, current_process, process, mode>>,
             list' = task_next(list)
      PROVE  IInv' /\ Own
  <2>1. Linked /\ list.live # {}
    BY <1>1, <1>6 DEF Sound
  <2>2. PICK n \in Nat : \E s \in [1 .. n -> Task] : Chain(list, n, s)
    BY <2>1 DEF Linked
  <2>3. PICK s \in [1 .. n -> Task] : Chain(list, n, s)
    BY <2>2
  <2>4. list \in ListType /\ list.current \in list.live
    BY <1>1, <2>1 DEF Types, Linked
  <2>5. PICK to : to = task_get_next(list)
    OBVIOUS
  <2>6. to \in list.live /\ list' = task_switch(list, to)
    BY <1>6, <2>3, <2>4, <2>5, NextInList DEF task_next
  <2>7. Types' /\ Linked' /\ list'.live = list.live
    BY <1>1, <1>6, <2>1, <2>6, SwitchStep
  <2> QED
    BY <1>1, <1>2, <1>6, <2>1, <2>7
<1>7. CASE task_run_first_ever_task
  <2>1. /\ Linked /\ list.live # {} /\ mode' = "user" /\ list' = task_switch(list, list.head)
        /\ UNCHANGED <<processes, current_process, process>>
    BY <1>1, <1>7 DEF Sound, task_run_first_ever_task
  <2>2. PICK n \in Nat : \E s \in [1 .. n -> Task] : Chain(list, n, s)
    BY <2>1 DEF Linked
  <2>3. PICK s \in [1 .. n -> Task] : Chain(list, n, s)
    BY <2>2
  <2>4. PICK to : to = list.head
    OBVIOUS
  <2>5. to \in list.live
    <3>1. n # 0 /\ 1 \in 1 .. n
      BY <2>1, <2>3 DEF Chain
    <3> QED
      BY <2>3, <2>4, <3>1 DEF Chain
  <2>6. list' = task_switch(list, to)
    BY <2>1, <2>4
  <2>7. Types' /\ Linked' /\ list'.live = list.live
    BY <1>1, <2>1, <2>5, <2>6, SwitchStep
  <2>8. mode' \in Mode
    BY <2>1 DEF Mode
  <2> QED
    BY <1>2, <2>1, <2>7, <2>8
<1>8. CASE idt_clock
  BY <1>6, <1>8 DEF idt_clock
<1>9. ASSUME mode = "user", process_terminate(task_current_process) PROVE IInv' /\ Own
  <2>1. Linked /\ list.live # {}
    BY <1>1, <1>9 DEF Sound
  <2>2. /\ Types' /\ mode' \in {"user", "panic", "wild"}
        /\ mode' = "user" => Linked' /\ list'.live # {}
        /\ Own
    BY <1>1, <1>9, <2>1, TerminateStep
  <2>3. mode' \in Mode /\ (Sound' => mode' = "user") /\ mode' # "boot1"
    BY <2>2 DEF Mode, Sound
  <2> QED
    BY <1>2, <2>2, <2>3
<1>10. CASE idt_handle_exception
  BY <1>9, <1>10 DEF idt_handle_exception
<1>11. CASE isr80h_command0_exit
  BY <1>9, <1>11 DEF isr80h_command0_exit
<1>12. ASSUME mode = "user", UNCHANGED mode, NEW t \in Task, NEW loaded,
              \/ loaded = task_new(list, t, NewProcess)
              \/ loaded = task_switch(task_new(list, t, NewProcess), t),
              process_load_switch(t, loaded)
       PROVE  IInv' /\ Own
  <2>1. Linked
    BY <1>1, <1>12 DEF Sound
  <2>2. /\ Types' /\ Linked' /\ list'.live # {}
        /\ \A i \in Slot : processes[i] # NULL => processes'[i] = processes[i]
    BY <1>1, <1>12, <2>1, LoadStep
  <2>3. mode' \in Mode /\ mode' # "boot1"
    BY <1>12 DEF Mode
  <2> QED
    BY <1>2, <2>2, <2>3
<1>13. CASE isr80h_command6_process_load_start
  <2>1. mode = "user" /\ UNCHANGED mode
    BY <1>13 DEF isr80h_command6_process_load_start
  <2>2. Linked /\ list.live # {} /\ mode' \in Mode /\ mode' # "boot1"
    BY <1>1, <2>1 DEF Sound, Mode
  <2>3. CASE LoadFailsEarly
    BY <1>2, <1>4, <2>2, <2>3
  <2>4. ASSUME NEW t \in Task, LoadFailsLate(t) PROVE IInv' /\ Own
    <3>1. Types' /\ Linked' /\ list'.live # {}
      BY <1>1, <2>2, <2>4, LateStep
    <3>2. Own
      BY <2>4 DEF LoadFailsLate
    <3> QED
      BY <1>2, <2>2, <3>1, <3>2
  <2>5. ASSUME NEW t \in Task,
               process_load_switch(t, task_switch(task_new(list, t, NewProcess), t))
        PROVE  IInv' /\ Own
    BY <1>12, <2>1, <2>5
  <2> QED
    BY <1>13, <2>3, <2>4, <2>5 DEF isr80h_command6_process_load_start
<1>14. CASE isr80h_command7_invoke_system_command
  <2>1. ASSUME mode = "user", UNCHANGED mode, NEW t \in Task,
               process_load_switch(t, task_new(list, t, NewProcess))
        PROVE  IInv' /\ Own
    BY <1>12, <2>1
  <2> QED
    BY <1>13, <1>14, <2>1 DEF isr80h_command7_invoke_system_command
<1>15. CASE UNCHANGED vars
  <2>1. LoadFailsEarly /\ mode' = mode
    BY <1>15 DEF vars, LoadFailsEarly
  <2>2. Sound' = Sound
    BY <2>1 DEF Sound
  <2> QED
    BY <1>1, <1>2, <1>4, <2>1, <2>2
<1>16. CASE Stopped
  BY <1>15, <1>16 DEF Stopped
<1> QED
  BY <1>5, <1>7, <1>8, <1>10, <1>11, <1>13, <1>14, <1>15, <1>16 DEF Next

LEMMA Invariant == Spec => []IInv
<1>1. IInv /\ [Next]_vars => IInv'
  BY NextInv
<1> QED
  BY InitInv, <1>1, PTL DEF Spec

------------------------------------------------------------------------------
(* The theorems. *)

\* The table, the list and the pointers between them always name structs or
\* NULL, also after a panic or a wild write.
THEOREM SchedulerTypeOK == Spec => []TypeOK
<1>1. IInv => TypeOK
  BY DEF IInv
<1> QED
  BY <1>1, Invariant, PTL

\* Exits, exceptions and failed loads leave the processor with a task that is
\* not freed, of a registered process, and the keyboard with a registered
\* process.
THEOREM RunningTaskIsRegistered == Spec => []RunningIsRegistered
<1>1. IInv => RunningIsRegistered
  <2> SUFFICES ASSUME IInv, mode = "user" PROVE RunningIsRegistered
    BY DEF RunningIsRegistered
  <2>1. Linked /\ list.live # {}
    BY DEF IInv, Sound
  <2> QED
    BY <2>1 DEF Linked, KnowsProcess, RunningIsRegistered
<1> QED
  BY <1>1, Invariant, PTL

\* A step takes no process out of the table but the one that runs.
THEOREM OnlyTheRunningProcessLeaves == Spec => OnlySelfTerminates
<1>1. IInv /\ [Next]_vars =>
        [\A i \in Slot : processes[i] # NULL /\ processes'[i] = NULL
                           => process[processes[i]].task = list.current]_vars
  BY NextInv
<1> QED
  BY <1>1, Invariant, PTL DEF Spec, OnlySelfTerminates

LEMMA OneToOne ==
  ASSUME Types, Linked
  PROVE  Cardinality(Registered) = Cardinality(list.live)
<1> DEFINE f == [p \in Registered |-> process[p].task]
<1>1. IsFiniteSet(Registered) /\ Registered \in SUBSET Proc
  <2>1. Registered \in SUBSET Proc
    BY DEF Registered, Types
  <2> QED
    BY <2>1, FiniteAssumption, FS_Subset
<1>2. \A p \in Registered : process[p].task \in list.live /\ list.task[process[p].task].process = p
  BY DEF Linked, KnowsTask, Registered
<1>3. f \in Injection(Registered, list.live)
  BY <1>2 DEF Injection, IsInjective
<1>4. f \in Surjection(Registered, list.live)
  BY <1>2 DEF Surjection, Linked, KnowsProcess
<1>5. ExistsBijection(Registered, list.live)
  BY <1>3, <1>4 DEF Bijection, ExistsBijection
<1> QED
  BY <1>1, <1>5, FS_Bijection

\* The hops of Walk from task_head, with the recursion named.
Hops(k, h) ==
  h = [j \in 0 .. k |-> IF j = 0 THEN list.head
                        ELSE IF h[j - 1] = NULL THEN NULL ELSE list.task[h[j - 1]].next]

LEMMA HopsUnique ==
  ASSUME NEW k \in Nat, NEW f, NEW g, Hops(k, f), Hops(k, g)
  PROVE  f[k] = g[k]
<1> DEFINE Bad == {j \in 0 .. k : f[j] # g[j]}
<1> SUFFICES ASSUME f[k] # g[k] PROVE FALSE
  OBVIOUS
<1>1. /\ f[0] = list.head /\ g[0] = list.head
      /\ \A j \in 1 .. k : /\ f[j] = IF f[j - 1] = NULL THEN NULL ELSE list.task[f[j - 1]].next
                           /\ g[j] = IF g[j - 1] = NULL THEN NULL ELSE list.task[g[j - 1]].next
  <2>1. \A j \in 0 .. k : f[j] = IF j = 0 THEN list.head
                                 ELSE IF f[j - 1] = NULL THEN NULL ELSE list.task[f[j - 1]].next
    BY DEF Hops
  <2>2. \A j \in 0 .. k : g[j] = IF j = 0 THEN list.head
                                 ELSE IF g[j - 1] = NULL THEN NULL ELSE list.task[g[j - 1]].next
    BY DEF Hops
  <2>3. 0 \in 0 .. k /\ \A j \in 1 .. k : j \in 0 .. k /\ j # 0
    OBVIOUS
  <2> QED
    BY <2>1, <2>2, <2>3
<1>2. Bad \in SUBSET Nat /\ k \in Bad
  OBVIOUS
<1>3. PICK j \in Bad : \A i \in Bad : j <= i
  BY <1>2, LowestExists
<1>4. j \in 1 .. k
  BY <1>1
<1>5. j - 1 \in 0 .. k /\ j - 1 \notin Bad
  BY <1>3, <1>4
<1> QED
  BY <1>1, <1>4, <1>5

\* Following next from task_head goes through the tasks of the chain.
LEMMA WalkIsChain ==
  ASSUME NEW n, NEW s, Chain(list, n, s), NEW k \in 0 .. Cardinality(Task)
  PROVE  Walk[k] = IF k < n THEN s[k + 1] ELSE NULL
<1> DEFINE f == [j \in 0 .. k |-> IF j < n THEN s[j + 1] ELSE NULL]
<1>1. /\ n \in Nat /\ s \in [1 .. n -> Task]
      /\ list.head = IF n = 0 THEN NULL ELSE s[1]
      /\ \A i \in 1 .. n : list.task[s[i]].next = IF i = n THEN NULL ELSE s[i + 1]
  BY DEF Chain
<1>2. Cardinality(Task) \in Nat /\ k \in Nat
  <2>1. Cardinality(Task) \in Nat
    BY FiniteAssumption, FS_CardinalityType
  <2> QED
    BY <2>1
<1>3. \A j \in 0 .. k : f[j] = IF j = 0 THEN list.head
                               ELSE IF f[j - 1] = NULL THEN NULL ELSE list.task[f[j - 1]].next
  <2> SUFFICES ASSUME NEW j \in 0 .. k
               PROVE  f[j] = IF j = 0 THEN list.head
                             ELSE IF f[j - 1] = NULL THEN NULL ELSE list.task[f[j - 1]].next
    OBVIOUS
  <2>1. CASE j = 0
    BY <1>1, <1>2, <2>1
  <2>2. CASE j # 0
    <3>1. j - 1 \in 0 .. k /\ f[j - 1] = IF j - 1 < n THEN s[j] ELSE NULL
      BY <1>2, <2>2
    <3>2. CASE j - 1 < n
      <4>1. j \in 1 .. n /\ s[j] \in Task /\ s[j] # NULL /\ (j = n <=> ~(j < n))
        BY <1>1, <1>2, <2>2, <3>2, NullIsNoTask
      <4>2. list.task[s[j]].next = IF j = n THEN NULL ELSE s[j + 1]
        BY <1>1, <4>1
      <4> QED
        BY <2>2, <3>1, <3>2, <4>1, <4>2
    <3>3. CASE ~(j - 1 < n)
      <4>1. ~(j < n)
        BY <1>1, <1>2, <3>3
      <4> QED
        BY <2>2, <3>1, <3>3, <4>1
    <3> QED
      BY <3>2, <3>3
  <2> QED
    BY <2>1, <2>2
<1>4. PICK g : g = f
  OBVIOUS
<1>5. Hops(k, g)
  <2>1. g = [j \in 0 .. k |-> g[j]]
    BY <1>4
  <2>2. \A j \in 0 .. k : g[j] = IF j = 0 THEN list.head
                                 ELSE IF g[j - 1] = NULL THEN NULL ELSE list.task[g[j - 1]].next
    BY <1>3, <1>4
  <2> QED
    BY <2>1, <2>2 DEF Hops
<1>6. Walk[k] = (CHOOSE h : Hops(k, h))[k]
  BY DEF Walk, Hops
<1>7. Hops(k, CHOOSE h : Hops(k, h))
  BY <1>5
<1>8. Walk[k] = g[k]
  BY <1>2, <1>5, <1>6, <1>7, HopsUnique
<1> QED
  BY <1>2, <1>4, <1>8

LEMMA InvHoldsTasks == IInv => ListHoldsTasks
<1> SUFFICES ASSUME IInv, Sound PROVE ListHoldsTasks
  BY DEF ListHoldsTasks
<1>1. Types /\ Linked
  BY TypesAndMode DEF IInv
<1>2. PICK n \in Nat : \E s \in [1 .. n -> Task] : Chain(list, n, s)
  BY <1>1 DEF Linked
<1>3. PICK s \in [1 .. n -> Task] : Chain(list, n, s)
  BY <1>2
<1>4. /\ \A i, j \in 1 .. n : s[i] = s[j] => i = j
      /\ list.live = {s[i] : i \in 1 .. n}
      /\ list.tail = IF n = 0 THEN NULL ELSE s[n]
  BY <1>3 DEF Chain
<1>5. Cardinality(list.live) = n
  <2>1. s \in Injection(1 .. n, list.live)
    BY <1>4 DEF Injection, IsInjective
  <2>2. s \in Surjection(1 .. n, list.live)
    BY <1>4 DEF Surjection
  <2>3. ExistsBijection(1 .. n, list.live)
    BY <2>1, <2>2 DEF Bijection, ExistsBijection
  <2> QED
    BY <2>3, FS_CountingElements
<1>6. n <= Cardinality(Task) /\ Cardinality(Task) \in Nat
  <2>1. list.live \in SUBSET Task
    BY <1>4
  <2> QED
    BY <1>5, <2>1, FiniteAssumption, FS_Subset, FS_CardinalityType
<1>7. \A k \in 0 .. n : Walk[k] = IF k < n THEN s[k + 1] ELSE NULL
  <2> SUFFICES ASSUME NEW k \in 0 .. n PROVE Walk[k] = IF k < n THEN s[k + 1] ELSE NULL
    OBVIOUS
  <2>1. k \in 0 .. Cardinality(Task)
    BY <1>6
  <2> QED
    BY <1>3, <2>1, WalkIsChain
<1>8. {Walk[k] : k \in 0 .. n - 1} = list.live
  <2>1. \A k \in 0 .. n - 1 : k + 1 \in 1 .. n /\ Walk[k] = s[k + 1]
    BY <1>7
  <2>2. \A i \in 1 .. n : i - 1 \in 0 .. n - 1 /\ Walk[i - 1] = s[i]
    BY <1>7
  <2> QED
    BY <1>4, <2>1, <2>2
<1>9. Walk[n] = NULL /\ list.tail = IF n = 0 THEN NULL ELSE Walk[n - 1]
  BY <1>4, <1>7
<1> QED
  BY <1>5, <1>8, <1>9 DEF ListHoldsTasks

\* Following next from task_head visits every task that is not freed, once, and
\* ends at task_tail: task_new, task_list_remove and the failed loads between
\* them keep the list in one piece for any number of tasks.
THEOREM ListStaysWhole == Spec => []ListHoldsTasks
BY InvHoldsTasks, Invariant, PTL

\* The table and the list describe the same processes, one task each.
THEOREM ProcessesAndTasksMatch == Spec => []OneTaskPerProcess
<1>1. IInv => OneTaskPerProcess
  <2> SUFFICES ASSUME IInv, Sound PROVE OneTaskPerProcess
    BY DEF OneTaskPerProcess
  <2>1. Types /\ Linked
    BY TypesAndMode DEF IInv
  <2>2. Cardinality(Registered) = Cardinality(list.live)
    BY <2>1, OneToOne
  <2> QED
    BY <2>1, <2>2 DEF Linked, KnowsTask, OneTaskPerProcess
<1> QED
  BY <1>1, Invariant, PTL
==============================================================================
