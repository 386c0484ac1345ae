------------------------------ MODULE Scheduler ------------------------------
(***************************************************************************)
(* The process table and the task list: src/task/process.c, src/task/task.c,*)
(* the interrupt callbacks of src/idt/idt.c and the process commands of    *)
(* src/isr80h/process.c, as kernel_main starts them.                       *)
(*                                                                         *)
(* The kernel runs with interrupts disabled (interrupt gates), so that one *)
(* handler, up to the task_return that leaves it, is one action.           *)
(*                                                                         *)
(* struct task lives in heap memory that task_free gives back and that      *)
(* kernel_zalloc may hand out again, so that an old pointer may name a     *)
(* freed struct or a new task.  What a freed struct holds is not kept: no  *)
(* step reads it.  A struct process is never freed; one that nothing       *)
(* points to any more can stand for a new one.                             *)
(*                                                                         *)
(* When task_list_remove goes through a prev pointer that no longer names  *)
(* the predecessor it writes to memory that is not its own.  From then on  *)
(* the behaviour is undefined: mode "wild", in which nothing is modelled.  *)
(***************************************************************************)
EXTENDS Integers, FiniteSets

CONSTANTS
  OS_MAX_PROCESSES,
  Task,      \* addresses kernel_zalloc may return for a struct task
  Proc,      \* addresses kernel_zalloc may return for a struct process
  NULL

ASSUME MaxProcessesAssumption == OS_MAX_PROCESSES \in Nat \ {0}
ASSUME NullAssumption == NULL \notin Task /\ NULL \notin Proc
ASSUME FiniteAssumption == IsFiniteSet(Task) /\ IsFiniteSet(Proc)

Slot == 0 .. OS_MAX_PROCESSES - 1

VARIABLES
  processes,        \* the table: Slot -> struct process or NULL
  current_process,  \* the process in the foreground
  process,          \* the members of each struct process: [id, task]
  list,             \* task.c: [task, live, head, tail, current], the members
                    \* of each struct task, the ones not freed, task_head,
                    \* task_tail and current_task
  mode              \* boot1, boot2, start: kernel_main; user; panic; wild

vars == <<processes, current_process, process, list, mode>>

------------------------------------------------------------------------------
(* task.c: each function takes the list and returns what it leaves. *)

NoTask == [process |-> NULL, next |-> NULL, prev |-> NULL]

EmptyList == [task |-> [t \in Task |-> NoTask], live |-> {},
              head |-> NULL, tail |-> NULL, current |-> NULL]

\* kernel_zalloc and task_init, then the link at the tail.  The heap has
\* memory left: without it task_new would hand NULL to task_free.
task_new(l, t, p) ==
  LET new == [l EXCEPT !.live = @ \cup {t}, !.tail = t,
                       !.task[t] = [NoTask EXCEPT !.process = p]]
  IN  IF l.head = NULL
      THEN [new EXCEPT !.head = t, !.current = t]
      ELSE [new EXCEPT !.task[l.tail].next = t, !.task[t].prev = l.tail]

task_get_next(l) ==
  IF l.task[l.current].next = NULL THEN l.head ELSE l.task[l.current].next

\* Mutant: task_tail is not moved back.
task_list_remove_tail(l, t) ==
  LET next == l.task[t].next
      prev == l.task[t].prev
      out == [l EXCEPT
                !.task = IF prev = NULL THEN @ ELSE [@ EXCEPT ![prev].next = next],
                !.head = IF t = @ THEN next ELSE @]
  IN  IF t = l.current THEN [out EXCEPT !.current = task_get_next(out)] ELSE out

task_list_remove(l, t) ==
  LET next == l.task[t].next
      prev == l.task[t].prev
      out == [l EXCEPT
                !.task = IF prev = NULL THEN @ ELSE [@ EXCEPT ![prev].next = next],
                !.head = IF t = @ THEN next ELSE @,
                !.tail = IF t = @ THEN prev ELSE @]
  IN  IF t = l.current THEN [out EXCEPT !.current = task_get_next(out)] ELSE out

task_free(l, t) ==
  [task_list_remove(l, t) EXCEPT !.live = @ \ {t}, !.task[t] = NoTask]

task_switch(l, t) == [l EXCEPT !.current = t]

\* Mutant: the last task of the list keeps the processor.
task_next_last(l) ==
  IF l.task[l.current].next = NULL THEN l
  ELSE task_switch(l, l.task[l.current].next)

task_next(l) == task_switch(l, task_get_next(l))

\* The node that really precedes t.
Pred(l, t) == IF \E u \in l.live : l.task[u].next = t
              THEN CHOOSE u \in l.live : l.task[u].next = t
              ELSE NULL

Stale(l, t) == l.task[t].prev # Pred(l, t)

------------------------------------------------------------------------------
(* process.c *)

NoProcess == [id |-> 0, task |-> NULL]

\* A struct process that no pointer reaches, as kernel_zalloc returns it.
Unreached == Proc \ ( {processes[i] : i \in Slot} \cup {current_process}
                      \cup {list.task[t].process : t \in Task} )

NewProcess == CHOOSE p \in Unreached : TRUE

Used(table) == {i \in Slot : table[i] # NULL}

Lowest(S) == CHOOSE i \in S : \A j \in S : i <= j

\* Mutant: slots are numbered from one, by how many are used.
process_get_free_slot_next == Cardinality(Used(processes)) + 1

process_get_free_slot == Lowest(Slot \ Used(processes))

\* No free slot, no memory before the task exists, a file that cannot be
\* loaded: the caller goes on and the scheduler's state is as before.
LoadFailsEarly == UNCHANGED <<processes, current_process, process, list>>

\* Memory, a slot and a struct for a new process.
CanLoad(t) == t \notin list.live /\ Used(processes) # Slot /\ Unreached # {}

\* Mutant: the error path does not free the task.
LoadFailsLate_kept(t) ==
  /\ CanLoad(t)
  /\ list' = task_new(list, t, NewProcess)
  /\ UNCHANGED <<processes, current_process, process>>

\* process_map_memory fails after task_new: task_free takes the task out
\* again.
LoadFailsLate(t) ==
  /\ CanLoad(t)
  /\ list' = task_free(task_new(list, t, NewProcess), t)
  /\ UNCHANGED <<processes, current_process, process>>

\* Mutant: the process is not added to the array.
process_load_switch_unlisted(t, loaded) ==
  /\ CanLoad(t)
  /\ list' = loaded
  /\ process' = [process EXCEPT ![NewProcess] =
                   [id |-> process_get_free_slot, task |-> t]]
  /\ current_process' = NewProcess
  /\ UNCHANGED processes

\* process_load puts the process in the table, process_switch in the
\* foreground; "loaded" is the list with its task.
process_load_switch(t, loaded) ==
  /\ CanLoad(t)
  /\ list' = loaded
  /\ process' = [process EXCEPT ![NewProcess] =
                   [id |-> process_get_free_slot, task |-> t]]
  /\ processes' = [processes EXCEPT ![process_get_free_slot] = NewProcess]
  /\ current_process' = NewProcess

\* The slot is cleared; a process in the foreground hands over to the one in
\* the lowest slot, if there is one.
process_unlink(p) ==
  /\ processes' = [processes EXCEPT ![process[p].id] = NULL]
  /\ process' = [process EXCEPT ![p] = NoProcess]
  /\ current_process' = IF current_process = p /\ Used(processes') # {}
                        THEN processes'[Lowest(Used(processes'))]
                        ELSE current_process

\* process_terminate and the task_next of its callers.  Without a process left
\* process_switch_to_any panics before task_next is reached.  The memory that
\* process_terminate frees is in ProcessMemory.
process_terminate(p) ==
  LET t == process[p].task
      freed == task_free(list, t)
  IN  /\ process_unlink(p)
      /\ \/ /\ current_process = p /\ Used(processes') = {}
            /\ list' = freed
            /\ mode' = "panic"
         \/ /\ current_process # p \/ Used(processes') # {}
            /\ list' = task_next(freed)
            /\ mode' = IF Stale(list, t) THEN "wild" ELSE mode

------------------------------------------------------------------------------
(* kernel_main, interrupts and commands. *)

Init ==
  /\ processes = [i \in Slot |-> NULL]
  /\ current_process = NULL
  /\ process = [p \in Proc |-> NoProcess]
  /\ list = EmptyList
  /\ mode = "boot1"

\* The two process_load_switch calls of kernel_main.
kernel_main_load ==
  /\ mode \in {"boot1", "boot2"}
  /\ \/ LoadFailsEarly /\ mode' = "panic"
     \/ \E t \in Task : LoadFailsLate(t) /\ mode' = "panic"
     \/ \E t \in Task :
          /\ process_load_switch(t, task_new(list, t, NewProcess))
          /\ mode' = IF mode = "boot1" THEN "boot2" ELSE "start"

task_run_first_ever_task ==
  /\ mode = "start"
  /\ list' = task_switch(list, list.head)
  /\ mode' = "user"
  /\ UNCHANGED <<processes, current_process, process>>

\* The timer interrupt.
idt_clock ==
  /\ mode = "user"
  /\ list' = task_next(list)
  /\ UNCHANGED <<processes, current_process, process, mode>>

\* Mutant: the process in the foreground instead of the one that runs.
task_current_process_foreground == current_process

task_current_process == list.task[list.current].process

\* An exception of the running program, or of the kernel on its behalf.
idt_handle_exception == mode = "user" /\ process_terminate(task_current_process)

isr80h_command0_exit == mode = "user" /\ process_terminate(task_current_process)

\* The caller goes on after a failed load; a loaded program runs at once.
isr80h_command6_process_load_start ==
  /\ mode = "user"
  /\ UNCHANGED mode
  /\ \/ LoadFailsEarly
     \/ \E t \in Task : LoadFailsLate(t)
     \/ \E t \in Task :
          process_load_switch(t, task_switch(task_new(list, t, NewProcess), t))

\* As command 6; when process_inject_arguments fails the caller goes on with
\* the new process loaded and in the foreground.
isr80h_command7_invoke_system_command ==
  \/ isr80h_command6_process_load_start
  \/ /\ mode = "user"
     /\ UNCHANGED mode
     /\ \E t \in Task : process_load_switch(t, task_new(list, t, NewProcess))

\* panic loops with interrupts disabled.
Stopped == mode \in {"panic", "wild"} /\ UNCHANGED vars

Next ==
  \/ kernel_main_load \/ task_run_first_ever_task
  \/ idt_clock \/ idt_handle_exception
  \/ isr80h_command0_exit \/ isr80h_command6_process_load_start
  \/ isr80h_command7_invoke_system_command
  \/ Stopped

Spec == Init /\ [][Next]_vars

\* The boot runs to its end, and task_return enters every program with
\* interrupts enabled, so that the timer always ticks again.
FairSpec ==
  /\ Spec
  /\ WF_vars(kernel_main_load)
  /\ WF_vars(task_run_first_ever_task)
  /\ WF_vars(idt_clock)

------------------------------------------------------------------------------
(* Properties. *)

Mode == {"boot1", "boot2", "start", "user", "panic", "wild"}

\* The table, the list and the pointers between them name structs or NULL.
TypeOK ==
  /\ processes \in [Slot -> Proc \cup {NULL}]
  /\ current_process \in Proc \cup {NULL}
  /\ process \in [Proc -> [id : Slot, task : Task \cup {NULL}]]
  /\ list \in
       [task : [Task -> [process : Proc \cup {NULL},
                         next : Task \cup {NULL}, prev : Task \cup {NULL}]],
        live : SUBSET Task,
        head : Task \cup {NULL}, tail : Task \cup {NULL},
        current : Task \cup {NULL}]
  /\ mode \in Mode

Sound == mode \notin {"panic", "wild"}

Registered == {processes[i] : i \in Slot} \ {NULL}

\* The node k hops behind task_head.
Walk == [k \in 0 .. Cardinality(Task) |->
           LET hop[j \in 0 .. k] ==
                 IF j = 0 THEN list.head
                 ELSE IF hop[j - 1] = NULL THEN NULL ELSE list.task[hop[j - 1]].next
           IN  hop[k]]

\* Following next from task_head visits every task that is not freed, none
\* twice and none that is freed, and ends at task_tail: task_new and
\* task_list_remove keep the list in one piece.
ListHoldsTasks ==
  Sound =>
    LET n == Cardinality(list.live)
    IN  /\ {Walk[k] : k \in 0 .. n - 1} = list.live
        /\ Walk[n] = NULL
        /\ list.tail = IF n = 0 THEN NULL ELSE Walk[n - 1]

\* A user program only ever runs as a task that is not freed, of a process
\* that is in the table: no exit, exception or failed load leaves the
\* processor with somebody who is gone, or the keyboard, whose keys go to
\* current_process.
RunningIsRegistered ==
  mode = "user" =>
    /\ current_process \in Registered
    /\ list.current \in list.live
    /\ list.task[list.current].process \in Registered
    /\ process[list.task[list.current].process].task = list.current

\* The table and the list describe the same processes: each registered one
\* knows its slot and its own task, and no task is left without a process.
OneTaskPerProcess ==
  Sound =>
    /\ \A i \in Slot : processes[i] # NULL =>
         LET p == processes[i]
         IN  /\ process[p].id = i
             /\ process[p].task \in list.live
             /\ list.task[process[p].task].process = p
    /\ Cardinality(Registered) = Cardinality(list.live)

\* A step removes no process but the one that runs.
OnlySelfTerminates ==
  [][ \A i \in Slot : processes[i] # NULL /\ processes'[i] = NULL
                        => process[processes[i]].task = list.current ]_vars

\* Once loads and exits have stopped, the timer brings every task that is
\* left to the processor again and again, whatever loads, exits and failed
\* loads made of the list before.  (While programs go on exiting a task can
\* be passed over for ever: task_next skips one task after each exit.)
EveryTaskRuns ==
  \A S \in SUBSET Task :
    <>[](mode = "user" /\ list.live = S) => \A t \in S : []<>(list.current = t)

\* "The current task that is running" (task.c:12): a task that is not freed.
CurrentTaskLive == mode \in {"user", "wild"} => list.current \in list.live
==============================================================================
