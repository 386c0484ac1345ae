------------------------------- MODULE Context -------------------------------
(***************************************************************************)
(* How a program leaves the processor and gets it back: the entry stubs of *)
(* src/idt/idt.asm, interrupt_handler and isr80h_handler of src/idt/idt.c, *)
(* task_save_state and task_switch of src/task/task.c, task_return and the *)
(* register helpers of src/task/task.asm, kernel_page of src/kernel.c.     *)
(*                                                                         *)
(* A register's value is told apart by the task that computed it, the      *)
(* register it was computed in and a bit that every step of a program      *)
(* turns.  Which task runs next is left open here (Scheduler has the list).*)
(***************************************************************************)
EXTENDS Integers

CONSTANTS
  Task,
  KERNEL,                  \* the owner of kernel_chunk and of kernel values
  TOTAL_INTERRUPTS,
  OS_MAX_ISR80H_COMMANDS,
  Vectors,                 \* the interrupts that happen, int instructions too
  Commands                 \* what programs have in eax at int 0x80

ASSUME KernelAssumption == KERNEL \notin Task
ASSUME VectorAssumption ==  \* 128 is 0x80, the gate of the commands
  /\ Vectors \subseteq (0 .. TOTAL_INTERRUPTS - 1) \ {128}
  /\ Commands \subseteq Int

General == {"edi", "esi", "ebp", "ebx", "edx", "ecx", "eax"}
Reg == General \cup {"ip", "cs", "flags", "esp", "ss"}
Segment == {"ds", "es", "fs", "gs"}

VARIABLES
  cpu,           \* the registers
  seg,           \* the data segment registers: "user", "kernel" or "null"
  cr3,           \* whose page directory is loaded
  frame,         \* struct interrupt_frame on the kernel stack
  registers,     \* task->registers of each task
  live,          \* tasks that exist
  current_task,
  pc,            \* user, or where in the kernel
  due,           \* the registers each task is to find when it runs again
  left,          \* tasks that have run and were interrupted
  resumed        \* the running program has not taken a step yet

vars == <<cpu, seg, cr3, frame, registers, live, current_task, pc, due,
          left, resumed>>

Val(owner, r, bit) == [owner |-> owner, reg |-> r, bit |-> bit]

Value == [owner : Task \cup {KERNEL}, reg : Reg, bit : {0, 1}]

\* task_init: the entry point, selectors and stack of the program; the rest 0.
task_init(t) == [r \in Reg |-> IF r \in {"ip", "cs", "esp", "ss"}
                               THEN Val(t, r, 0) ELSE Val(KERNEL, r, 0)]

------------------------------------------------------------------------------
(* The assembly helpers. *)

kernel_registers == [s \in Segment |-> "kernel"]

\* Loads es, fs and gs; the store that is meant for ds goes to dx.
user_registers(s) == [s EXCEPT !.es = "user", !.fs = "user", !.gs = "user"]

\* The processor clears a kernel selector when iret goes out to ring 3.
Iret(s) == [x \in Segment |-> IF s[x] = "kernel" THEN "null" ELSE s[x]]

\* The frame of iretd is built from regs except for the flags, which are the
\* kernel's with the interrupt bit set.  restore_general_purpose_registers
\* ends in a pop that overwrites the ebp it restored.
task_return(regs) ==
  [r \in Reg |-> IF r \in {"ebp", "flags"} THEN Val(KERNEL, r, 1) ELSE regs[r]]

------------------------------------------------------------------------------

Init ==
  /\ \E t, second \in Task :  \* kernel_main loads two programs and runs the first
       /\ t # second
       /\ live = {t, second}
       /\ current_task = t
       /\ registers = [u \in Task |-> task_init(u)]
       /\ cpu = task_return(task_init(t))
       /\ cr3 = t
  /\ seg = [s \in Segment |-> "user"]
  /\ frame = [r \in Reg |-> Val(KERNEL, r, 0)]
  /\ pc = "user"
  /\ due = [u \in Task |-> task_init(u)]
  /\ left = {}
  /\ resumed = TRUE

\* The program computes.
UserStep ==
  /\ pc = "user"
  /\ \E bit \in {0, 1} : cpu' = [r \in Reg |-> Val(current_task, r, bit)]
  /\ resumed' = FALSE
  /\ UNCHANGED <<seg, cr3, frame, registers, live, current_task, pc, due,
                 left>>

------------------------------------------------------------------------------
(* Into the kernel. *)

\* Mutant: the loop ends before the page fault.
interrupt_callbacks_short ==
  [v \in 0 .. TOTAL_INTERRUPTS - 1 |->
     CASE v < 14 -> "exception" [] v = 32 -> "idt_clock"
       [] v = 33 -> "keyboard" [] OTHER -> "ignored"]

\* After idt_init and classic_keyboard_init; "ignored" where there is none.
interrupt_callbacks ==
  [v \in 0 .. TOTAL_INTERRUPTS - 1 |->
     CASE v < 32 -> "exception" [] v = 32 -> "idt_clock"
       [] v = 33 -> "keyboard" [] OTHER -> "ignored"]

\* The exceptions for which the processor pushes one word more.
PushesErrorCode == {8, 10, 11, 12, 13, 14, 17}

\* What struct interrupt_frame then shows: everything one word too early.
Shifted(regs) ==
  [regs EXCEPT !["ip"] = Val(KERNEL, "ip", 0), !["cs"] = regs["ip"],
               !["flags"] = regs["cs"], !["esp"] = regs["flags"],
               !["ss"] = regs["esp"]]

\* Mutant: pushad left out.
Enter_unpushed(pushed) ==
  /\ pc = "user"
  /\ frame' = [r \in Reg \ General |-> pushed[r]]
  /\ cpu' = [r \in Reg |-> Val(KERNEL, r, 0)]
  /\ seg' = kernel_registers
  /\ cr3' = KERNEL
  /\ due' = [due EXCEPT ![current_task] = cpu]
  /\ left' = left \cup {current_task}
  /\ UNCHANGED <<live, current_task, resumed>>

\* The processor and pushad build the frame on the stack of the TSS; the
\* handler then switches to the kernel's page directory.
Enter(pushed) ==
  /\ pc = "user"
  /\ frame' = pushed
  /\ cpu' = [r \in Reg |-> Val(KERNEL, r, 0)]
  /\ seg' = kernel_registers
  /\ cr3' = KERNEL
  /\ due' = [due EXCEPT ![current_task] = cpu]
  /\ left' = left \cup {current_task}
  /\ UNCHANGED <<live, current_task, resumed>>

\* task_current_save_state, with the frame that is on the stack.
Save == registers' = [registers EXCEPT ![current_task] = frame']

\* Mutant: the state is not saved for the clock.
interrupt_handler_unsaved(v) ==
  /\ \/ Enter(cpu)
     \/ v \in PushesErrorCode /\ Enter(Shifted(cpu))
  /\ pc' = interrupt_callbacks[v]
  /\ IF pc' \in {"ignored", "idt_clock"} THEN UNCHANGED registers ELSE Save

\* A vector without a callback saves nothing.  A program's own int instruction
\* pushes no error code.
interrupt_handler(v) ==
  /\ \/ Enter(cpu)
     \/ v \in PushesErrorCode /\ Enter(Shifted(cpu))
  /\ pc' = interrupt_callbacks[v]
  /\ IF pc' = "ignored" THEN UNCHANGED registers ELSE Save

\* isr80h_register_commands.
isr80h_commands == 0 .. 8

\* Without a command of that number the call returns 0.  The actions below
\* leave open which of the commands it is.
isr80h_handle_command(command) ==
  IF /\ command >= 0 /\ command < OS_MAX_ISR80H_COMMANDS
     /\ command \in isr80h_commands
  THEN "command" ELSE "no command"

isr80h_handler(command) ==
  /\ Enter(cpu) /\ Save
  /\ pc' = isr80h_handle_command(command)

------------------------------------------------------------------------------
(* And out of it. *)

\* Mutant: no task_page before the iret.
Leave_kernel_page(regs) ==
  /\ cpu' = regs
  /\ seg' = Iret(seg)
  /\ due' = [due EXCEPT ![current_task]["eax"] = regs["eax"]]
  /\ pc' = "user"
  /\ resumed' = TRUE
  /\ UNCHANGED <<cr3, frame, registers, live, current_task, left>>

\* task_page, then popad and iret with the frame that is on the stack; the
\* wrapper of the commands puts the result in eax.
Leave(regs) ==
  /\ cpu' = regs
  /\ seg' = Iret(user_registers(seg))
  /\ cr3' = current_task
  /\ due' = [due EXCEPT ![current_task]["eax"] = regs["eax"]]
  /\ pc' = "user"
  /\ resumed' = TRUE
  /\ UNCHANGED <<frame, registers, live, current_task, left>>

interrupt_return == pc \in {"ignored", "keyboard"} /\ Leave(frame)

\* A command's result, which may be 0 as well.
isr80h_wrapper ==
  \E bit \in {0, 1} :
    /\ pc \in {"command"} \cup (IF bit = 0 THEN {"no command"} ELSE {})
    /\ Leave([frame EXCEPT !["eax"] = Val(KERNEL, "eax", bit)])

\* task_get_stack_item and copy_string_from_task read the caller's memory in
\* the caller's address space and come back with kernel_page.
ReadUserMemory ==
  /\ \/ /\ pc = "command" /\ pc' = "reading"
        /\ cr3' = current_task /\ seg' = user_registers(seg)
     \/ /\ pc = "reading" /\ pc' = "command"
        /\ cr3' = KERNEL /\ seg' = kernel_registers
  /\ UNCHANGED <<cpu, frame, registers, live, current_task, due, left,
                 resumed>>

\* A pointer that is not mapped: the exception is taken in the kernel and
\* what it saves is the kernel's registers.
FaultInKernel ==
  /\ pc = "reading"
  /\ registers' = [registers EXCEPT ![current_task] = Shifted(cpu)]
  /\ cr3' = KERNEL /\ seg' = kernel_registers
  /\ pc' = "exception"
  /\ UNCHANGED <<cpu, frame, live, current_task, due, left,
                 resumed>>

\* task_switch and task_return.
Run(t) ==
  /\ current_task' = t
  /\ cr3' = t
  /\ cpu' = task_return(registers'[t])
  /\ seg' = [s \in Segment |-> "user"]
  /\ pc' = "user"
  /\ resumed' = TRUE
  /\ UNCHANGED frame

task_next ==
  /\ pc = "idt_clock"
  /\ UNCHANGED <<registers, live, due, left>>
  /\ \E t \in live : Run(t)

\* idt_handle_exception and command 0, with somebody left to run.  What the
\* freed task holds is not kept.
Terminate ==
  /\ pc \in {"exception", "command"}
  /\ live' = live \ {current_task}
  /\ left' = left \ {current_task}
  /\ registers' = [registers EXCEPT ![current_task] = task_init(current_task)]
  /\ due' = [due EXCEPT ![current_task] = task_init(current_task)]
  /\ \E t \in live' : Run(t)

\* Commands 6 and 7: the new program runs, the caller stays behind.
LoadStart ==
  /\ pc = "command"
  /\ \E t \in Task \ live :
       /\ live' = live \cup {t}
       /\ registers' = [registers EXCEPT ![t] = task_init(t)]
       /\ due' = [due EXCEPT ![t] = task_init(t)]
       /\ Run(t)
  /\ UNCHANGED left

\* The last program is gone: panic.
Panic ==
  /\ pc \in {"exception", "command"} /\ live = {current_task}
  /\ pc' = "panic" /\ live' = {}
  /\ UNCHANGED <<cpu, seg, cr3, frame, registers, current_task, due, left,
                 resumed>>

Stopped == pc = "panic" /\ UNCHANGED vars

Next ==
  \/ UserStep
  \/ \E v \in Vectors : interrupt_handler(v)
  \/ \E command \in Commands : isr80h_handler(command)
  \/ interrupt_return \/ isr80h_wrapper \/ ReadUserMemory \/ FaultInKernel \/ task_next
  \/ Terminate \/ LoadStart \/ Panic \/ Stopped

Spec == Init /\ [][Next]_vars

------------------------------------------------------------------------------
(* Properties. *)

\* The frame, the registers and what is saved of them are complete.
TypeOK ==
  /\ cpu \in [Reg -> Value] /\ frame \in [Reg -> Value]
  /\ seg \in [Segment -> {"user", "kernel", "null"}]
  /\ cr3 \in Task \cup {KERNEL}
  /\ registers \in [Task -> [Reg -> Value]] /\ due \in [Task -> [Reg -> Value]]
  /\ live \subseteq Task /\ left \subseteq Task /\ current_task \in Task
  /\ resumed \in BOOLEAN

\* A program that gets the processor back, by the iret of its own interrupt
\* or by task_return after others ran, finds the registers it left, whichever
\* interrupts, commands, loads and exits came between: all but ebp and flags.
ResumesWhereItLeft ==
  pc = "user" /\ resumed =>
    \A r \in Reg \ {"ebp", "flags"} : cpu[r] = due[current_task][r]

\* A program runs in its own address space and never with a kernel selector;
\* es, fs and gs are the user's.  So is ds until its first interrupt: after
\* one it may be null, as user_registers loads dx instead.  The kernel's
\* handlers run in the kernel's address space.
OwnAddressSpace ==
  /\ pc = "user" => /\ cr3 = current_task /\ current_task \in live
                    /\ \A s \in {"es", "fs", "gs"} : seg[s] = "user"
                    /\ seg.ds # "kernel"
                    /\ current_task \notin left => seg.ds = "user"
  /\ pc \in {"idt_clock", "keyboard", "exception", "command"} => cr3 = KERNEL

\* What a task that waits has in task->registers is what it left, also when
\* interrupts that saved nothing or a fault in the kernel came in between.
SavedWhileWaiting ==
  pc = "user" => \A t \in live \ {current_task} : registers[t] = due[t]
==============================================================================
