------------------------------- MODULE KeyQueue -------------------------------
(***************************************************************************)
(* What a program may expect of getkey: the characters typed while it was  *)
(* in the foreground, in the order they were typed, none twice and none    *)
(* meant for another program, as long as no more than CAPACITY of them     *)
(* wait.  Of one that let more than that pile up nothing is said here.     *)
(***************************************************************************)
EXTENDS Sequences, Integers

CONSTANTS Process, Char, CAPACITY, NONE

VARIABLES
  queue,    \* the characters each process has not fetched yet
  overrun,  \* processes that let too many wait
  answer    \* the last getkey: [to, char]

vars == <<queue, overrun, answer>>

Silence(p) == [to |-> p, char |-> NONE]

Init ==
  /\ queue = [p \in Process |-> << >>]
  /\ overrun = {}
  /\ answer \in {Silence(p) : p \in Process}

Type(p, c) ==
  \/ /\ p \notin overrun /\ Len(queue[p]) < CAPACITY
     /\ queue' = [queue EXCEPT ![p] = Append(@, c)]
     /\ UNCHANGED <<overrun, answer>>
  \/ /\ p \notin overrun /\ Len(queue[p]) = CAPACITY
     /\ overrun' = overrun \cup {p}
     /\ queue' = [queue EXCEPT ![p] = << >>]
     /\ UNCHANGED answer

Fetch(p) ==
  \/ /\ p \notin overrun /\ queue[p] # << >>
     /\ answer' = [to |-> p, char |-> Head(queue[p])]
     /\ queue' = [queue EXCEPT ![p] = Tail(@)]
     /\ UNCHANGED overrun
  \/ /\ p \notin overrun /\ queue[p] = << >>
     /\ answer' = Silence(p)
     /\ UNCHANGED <<queue, overrun>>
  \/ /\ p \in overrun
     /\ answer' \in [to : {p}, char : Char \cup {NONE}]
     /\ UNCHANGED <<queue, overrun>>

\* A process ends, another takes its place with nothing to fetch.
Restart(p) ==
  /\ queue' = [queue EXCEPT ![p] = << >>]
  /\ overrun' = overrun \ {p}
  /\ UNCHANGED answer

Next == \E p \in Process : (\E c \in Char : Type(p, c)) \/ Fetch(p) \/ Restart(p)

Spec == Init /\ [][Next]_vars
==============================================================================
