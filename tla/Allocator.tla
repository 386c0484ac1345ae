------------------------------ MODULE Allocator ------------------------------
(***************************************************************************)
(* What the kernel's callers rely on when they call kernel_malloc and      *)
(* kernel_free, said without the block table: a grant never shares a block *)
(* with memory that is already handed out, a request is refused only when  *)
(* no run of free blocks is long enough, and a release gives back exactly  *)
(* one grant.  A grant may start anywhere in the heap.                     *)
(***************************************************************************)
EXTENDS Integers

CONSTANTS
  TABLE_TOTAL,  \* number of blocks of the heap
  Requests      \* lengths, in blocks, that callers ask for

VARIABLES
  live,   \* the grants not yet released: records [start, len]
  reply   \* the last call's answer: [asked, start], start = -1 for NULL

vars == <<live, reply>>

NoBlock == -1

Blocks(a) == a.start .. (a.start + a.len - 1)

Shares(a, b) == Blocks(a) \cap Blocks(b) # {}

FreeFor(s, n) == \A a \in live : ~Shares(a, [start |-> s, len |-> n])

Init == live = {} /\ reply = [asked |-> 0, start |-> NoBlock]

Grant(n) ==
  \E s \in 0 .. TABLE_TOTAL - 1 :
    /\ FreeFor(s, n)
    /\ live' = live \cup {[start |-> s, len |-> n]}
    /\ reply' = [asked |-> n, start |-> s]

Refuse(n) ==
  /\ \A s \in 0 .. TABLE_TOTAL - n : ~FreeFor(s, n)
  /\ reply' = [asked |-> n, start |-> NoBlock]
  /\ UNCHANGED live

Release(a) ==
  /\ live' = live \ {a}
  /\ reply' = [asked |-> 0, start |-> NoBlock]

ReleaseNull ==
  /\ reply' = [asked |-> 0, start |-> NoBlock]
  /\ UNCHANGED live

Next ==
  \/ \E n \in Requests : Grant(n) \/ Refuse(n)
  \/ \E a \in live : Release(a)
  \/ ReleaseNull

Spec == Init /\ [][Next]_vars
==============================================================================
