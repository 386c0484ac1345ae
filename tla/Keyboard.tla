------------------------------- MODULE Keyboard -------------------------------
(***************************************************************************)
(* src/keyboard/keyboard.c and classic.c with their callers: the keyboard  *)
(* interrupt pushes to the process in the foreground (process_current),    *)
(* getkey (command 2 of src/isr80h/io.c) pops from the buffer of the       *)
(* process that runs (task_current()->process).  Which process runs and    *)
(* which is in the foreground changes with the clock, loads and exits, as  *)
(* module Scheduler has it.                                                *)
(***************************************************************************)
EXTENDS Integers, Sequences

CONSTANTS
  OS_KEYBOARD_BUFFER_SIZE,
  INT_RANGE,   \* 2^32: int tail and head wrap here
  Process,
  MaxKeys      \* bound: characters pushed in one behaviour

ASSUME BufferAssumption == OS_KEYBOARD_BUFFER_SIZE \in Nat \ {0}
ASSUME RangeAssumption ==
  /\ INT_RANGE \in Nat /\ INT_RANGE % OS_KEYBOARD_BUFFER_SIZE = 0
  /\ INT_RANGE > OS_KEYBOARD_BUFFER_SIZE

NUL == "NUL"
Char == {"a", "A"}   \* a letter key, without and with caps lock

Index == 0 .. OS_KEYBOARD_BUFFER_SIZE - 1

VARIABLES
  buffer, tail, head,  \* process->keyboard of each process
  capslock_state,
  alive,               \* processes in the table
  foreground,          \* process_current()
  running,             \* task_current()->process
  answer,              \* the last getkey: who asked, what was returned
  overrun,             \* history: processes that let too many keys wait
  owed,                \* history: how often each character was pushed for a
                       \* process and not yet popped
  typed                \* history: characters pushed so far

keyboardVars == <<buffer, tail, head, capslock_state>>
processVars == <<alive, foreground, running>>
vars == <<keyboardVars, processVars, answer, overrun, owed, typed>>

------------------------------------------------------------------------------
(* The ring buffer. *)

\* Mutant: the wrong end of the buffer.
keyboard_get_tail_index_head(p) == head[p] % OS_KEYBOARD_BUFFER_SIZE

keyboard_get_tail_index(p) == tail[p] % OS_KEYBOARD_BUFFER_SIZE

keyboard_push(c) ==
  LET p == foreground
  IN  /\ typed < MaxKeys
      /\ buffer' = [buffer EXCEPT ![p][keyboard_get_tail_index(p)] = c]
      /\ tail' = [tail EXCEPT ![p] = (@ + 1) % INT_RANGE]
      /\ UNCHANGED head
      /\ overrun' = overrun \cup
           (IF buffer[p][keyboard_get_tail_index(p)] # NUL THEN {p} ELSE {})
      /\ owed' = [owed EXCEPT ![p][c] = @ + 1]
      /\ typed' = typed + 1

\* Mutant: the slot is not cleared.
keyboard_pop_uncleared ==
  LET p == running
      c == buffer[p][head[p] % OS_KEYBOARD_BUFFER_SIZE]
  IN  /\ answer' = [to |-> p, char |-> c]
      /\ \/ /\ c = NUL
            /\ UNCHANGED <<head, owed>>
         \/ /\ c # NUL
            /\ head' = [head EXCEPT ![p] = (@ + 1) % INT_RANGE]
            /\ owed' = [owed EXCEPT ![p][c] = @ - 1]
      /\ UNCHANGED <<buffer, tail, capslock_state, processVars, overrun, typed>>

\* Command 2: getkey.
keyboard_pop ==
  LET p == running
      i == head[p] % OS_KEYBOARD_BUFFER_SIZE
      c == buffer[p][i]
  IN  /\ answer' = [to |-> p, char |-> c]
      /\ \/ /\ c = NUL
            /\ UNCHANGED <<buffer, head, owed>>
         \/ /\ c # NUL
            /\ buffer' = [buffer EXCEPT ![p][i] = NUL]
            /\ head' = [head EXCEPT ![p] = (@ + 1) % INT_RANGE]
            /\ owed' = [owed EXCEPT ![p][c] = @ - 1]
      /\ UNCHANGED <<tail, capslock_state, processVars, overrun, typed>>

------------------------------------------------------------------------------
(* The interrupt.  Scancodes are told apart by what the driver does. *)

ScanCode ==
  {"RELEASED",  \* the released bit is set
   "CAPSLOCK",
   "LETTER",
   "ZERO",      \* a key whose table entry is 0, or a code past the table
   "END"}       \* the code that is equal to the table's size

\* The bound check lets the size itself through: what lies behind the table
\* is any character or 0.
keyboard_scan_set_one(scancode) ==
  CASE scancode = "LETTER" -> {"A"}
    [] scancode = "END" -> Char \cup {NUL}
    [] OTHER -> {NUL}

\* Letters are stored in upper case.
classic_keyboard_scancode_to_char(scancode, capslock) ==
  {IF c = "A" /\ capslock = "OFF" THEN "a" ELSE c :
     c \in keyboard_scan_set_one(scancode)}

classic_keyboard_handle_interrupt(scancode) ==
  \/ scancode = "RELEASED" /\ UNCHANGED vars
  \/ /\ scancode # "RELEASED"
     /\ capslock_state' = IF scancode # "CAPSLOCK" THEN capslock_state
                          ELSE IF capslock_state = "ON" THEN "OFF" ELSE "ON"
     /\ \E c \in classic_keyboard_scancode_to_char(scancode, capslock_state') :
          \/ c # NUL /\ keyboard_push(c)
          \/ c = NUL /\ UNCHANGED <<buffer, tail, head, overrun, owed, typed>>
     /\ UNCHANGED <<processVars, answer>>

------------------------------------------------------------------------------
(* What the rest of the kernel does to the processes. *)

EmptyBuffer == [i \in Index |-> NUL]

Init ==
  /\ buffer = [p \in Process |-> EmptyBuffer]
  /\ tail = [p \in Process |-> 0] /\ head = [p \in Process |-> 0]
  /\ capslock_state = "OFF"
  /\ alive \in {S \in SUBSET Process : S # {}}
  /\ foreground \in alive /\ running \in alive
  /\ answer = [to |-> running, char |-> NUL]
  /\ overrun = {}
  /\ owed = [p \in Process |-> [c \in Char |-> 0]]
  /\ typed = 0

\* Mutant: the clock always goes back to the process it interrupted.
idt_clock_same == UNCHANGED vars

idt_clock ==
  /\ running' \in alive
  /\ UNCHANGED <<keyboardVars, alive, foreground, answer, overrun, owed, typed>>

\* A new struct process is zeroed, and in the foreground.  Its caller runs on
\* when command 7 cannot inject the arguments.
process_load_switch(p) ==
  /\ p \notin alive
  /\ alive' = alive \cup {p}
  /\ foreground' = p /\ running' \in {p, running}
  /\ buffer' = [buffer EXCEPT ![p] = EmptyBuffer]
  /\ tail' = [tail EXCEPT ![p] = 0] /\ head' = [head EXCEPT ![p] = 0]
  /\ overrun' = overrun \ {p}
  /\ owed' = [owed EXCEPT ![p] = [c \in Char |-> 0]]
  /\ UNCHANGED <<capslock_state, answer, typed>>

\* Mutant: the foreground is not handed over.
process_terminate_foreground ==
  /\ alive # {running}
  /\ alive' = alive \ {running}
  /\ running' \in alive'
  /\ UNCHANGED <<keyboardVars, foreground, answer, overrun, owed, typed>>

\* The keys of the process that ends are gone with it.  When the last one ends
\* the kernel stops (Scheduler).
process_terminate ==
  /\ alive # {running}
  /\ alive' = alive \ {running}
  /\ running' \in alive'
  /\ foreground' = IF foreground # running THEN foreground
                   ELSE CHOOSE p \in alive' : TRUE
  /\ UNCHANGED <<keyboardVars, answer, overrun, owed, typed>>

Next ==
  \/ \E scancode \in ScanCode : classic_keyboard_handle_interrupt(scancode)
  \/ keyboard_pop \/ idt_clock \/ process_terminate
  \/ \E p \in Process : process_load_switch(p)

Spec == Init /\ [][Next]_vars

\* Neither loads nor exits go on for ever.
Settles == <>[][alive' = alive]_vars

\* A program that runs again and again polls getkey (os_getkey_block of the
\* programs' library).  The timer brings every program back once loads and
\* exits have stopped; while they go on it can be passed over each time
\* (EveryTaskRuns of module Scheduler).
FairSpec ==
  /\ Spec
  /\ \A p \in Process : SF_vars(running = p /\ keyboard_pop)
  /\ Settles => \A p \in Process : WF_vars(idt_clock /\ running' = p)

------------------------------------------------------------------------------
(* Properties. *)

\* The buffers hold characters, and the process in the foreground and the one
\* that runs exist.
TypeOK ==
  /\ buffer \in [Process -> [Index -> Char \cup {NUL}]]
  /\ tail \in [Process -> 0 .. INT_RANGE - 1]
  /\ head \in [Process -> 0 .. INT_RANGE - 1]
  /\ capslock_state \in {"ON", "OFF"}
  /\ alive \subseteq Process /\ {foreground, running} \subseteq alive
  /\ answer \in [to : Process, char : Char \cup {NUL}]
  /\ overrun \subseteq Process

\* What waits in the buffer, oldest first.
Waiting(p) ==
  [i \in 1 .. (tail[p] - head[p]) % INT_RANGE |->
     buffer[p][(head[p] + i - 1) % OS_KEYBOARD_BUFFER_SIZE]]

\* Every character getkey returns was typed for that process and is returned
\* once, also when the buffer has overflowed and its indices are apart.
NeverForgedOrTwice ==
  \A p \in Process, c \in Char : owed[p][c] >= 0

\* Seen by the programs the ring buffers are queues, across wrap-around of
\* the int indices, clock ticks, loads and exits, until one overflows.
Queues ==
  INSTANCE KeyQueue WITH
    queue <- [p \in Process |-> IF p \in overrun THEN << >> ELSE Waiting(p)],
    CAPACITY <- OS_KEYBOARD_BUFFER_SIZE, NONE <- NUL

ImplementsKeyQueue == Queues!Spec

\* Once loads and exits have stopped, what was typed for a program that goes
\* on polling is fetched in the end, unless the program let its buffer
\* overflow.
KeysArrive ==
  Settles =>
    \A p \in Process :
      []<>(p \notin alive \/ p \in overrun \/ Waiting(p) = << >>)
==============================================================================
