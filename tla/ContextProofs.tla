---------------------------- MODULE ContextProofs -----------------------------
(***************************************************************************)
(* Proofs about the context switch, for any set of tasks, any interrupts   *)
(* that happen and any command numbers in eax.                             *)
(***************************************************************************)
EXTENDS Context, TLAPS

\* The handlers that leave what the program had untouched, in the frame on
\* the stack; those that also have it in task->registers.
KeepsFrame == {"ignored", "idt_clock", "keyboard", "command", "no command", "reading"}
HasSaved == KeepsFrame \ {"ignored"}

Places == KeepsFrame \cup {"user", "exception", "panic"}

Placed == /\ pc \in Places
          /\ pc # "panic" => current_task \in live

KernelPage == pc \in Places \ {"user", "reading", "panic"} => cr3 = KERNEL

\* Only an interrupt brings a program into the kernel.
WasInterrupted == pc \in Places \ {"user", "panic"} => current_task \in left

FrameIsDue == pc \in KeepsFrame => frame = due[current_task]

SavedIsDue == pc \in HasSaved => registers[current_task] = due[current_task]

\* SavedWhileWaiting, in the kernel too.
OthersSaved == \A t \in live \ {current_task} : registers[t] = due[t]

\* The inductive invariant: what a program finds when it runs again depends
\* on what the frame and task->registers hold at each place in the kernel.
IInv ==
  /\ TypeOK /\ Placed /\ KernelPage /\ WasInterrupted
  /\ FrameIsDue /\ SavedIsDue /\ OthersSaved
  /\ ResumesWhereItLeft /\ OwnAddressSpace

------------------------------------------------------------------------------
(* The operators keep the registers complete. *)

\* The registers a new task starts from are complete.
LEMMA TaskInitType == \A t \in Task : task_init(t) \in [Reg -> Value]
BY DEF task_init, Val, Value, Reg

\* So are the ones task_return loads.
LEMMA TaskReturnType ==
  ASSUME NEW regs \in [Reg -> Value]
  PROVE  /\ task_return(regs) \in [Reg -> Value]
         /\ \A r \in Reg \ {"ebp", "flags"} : task_return(regs)[r] = regs[r]
BY DEF task_return, Val, Value, Reg

\* And those in a frame with an error code, though most are in the wrong place.
LEMMA ShiftedType ==
  ASSUME NEW regs \in [Reg -> Value]
  PROVE  Shifted(regs) \in [Reg -> Value]
BY DEF Shifted, Val, Value, Reg

\* Every exception that pushes an error code has the exception callback.
LEMMA ErrorCodeIsException ==
  ASSUME NEW v \in Vectors, v \in PushesErrorCode
  PROVE  interrupt_callbacks[v] = "exception"
BY VectorAssumption DEF interrupt_callbacks, PushesErrorCode

\* The callbacks are places in the kernel.
LEMMA CallbackPlaces ==
  ASSUME NEW v \in Vectors
  PROVE  interrupt_callbacks[v] \in {"exception", "idt_clock", "keyboard", "ignored"}
BY VectorAssumption DEF interrupt_callbacks

\* Segment registers that iret leaves to a program.
LEMMA IretSegments ==
  ASSUME seg \in [Segment -> {"user", "kernel", "null"}]
  PROVE  LET s == Iret(user_registers(seg))
         IN  /\ s \in [Segment -> {"user", "kernel", "null"}]
             /\ s.ds # "kernel"
             /\ \A x \in {"es", "fs", "gs"} : s[x] = "user"
BY DEF Iret, user_registers, Segment

------------------------------------------------------------------------------
(* The invariant is inductive. *)

\* kernel_main leaves the first program running with its initial registers.
LEMMA InitIInv == Init => IInv
<1> SUFFICES ASSUME Init PROVE IInv
  OBVIOUS
<1>1. PICK t \in Task, second \in Task :
        /\ t # second /\ live = {t, second} /\ current_task = t
        /\ registers = [u \in Task |-> task_init(u)]
        /\ cpu = task_return(task_init(t)) /\ cr3 = t
  BY DEF Init
<1>2. frame \in [Reg -> Value]
  BY DEF Init, Val, Value
<1>3. cpu \in [Reg -> Value]
  BY <1>1, TaskInitType, TaskReturnType
<1>4. TypeOK
  BY <1>1, <1>2, <1>3, TaskInitType DEF Init, TypeOK
<1>5. ResumesWhereItLeft
  BY <1>1, TaskInitType, TaskReturnType DEF Init, ResumesWhereItLeft
<1> QED
  BY <1>1, <1>4, <1>5 DEF Init, IInv, Placed, Places, KeepsFrame, HasSaved,
     KernelPage, WasInterrupted,
     FrameIsDue, SavedIsDue, OthersSaved, OwnAddressSpace, Segment

\* What Enter does to the invariant's parts, whatever the frame.
LEMMA EnterKeepsRest ==
  ASSUME IInv, NEW pushed \in [Reg -> Value], Enter(pushed)
  PROVE  /\ cpu' \in [Reg -> Value] /\ frame' \in [Reg -> Value]
         /\ seg' \in [Segment -> {"user", "kernel", "null"}]
         /\ cr3' = KERNEL /\ due' \in [Task -> [Reg -> Value]]
         /\ live' \subseteq Task /\ left' \subseteq Task
         /\ current_task' = current_task /\ current_task \in live
         /\ current_task \in left'
         /\ resumed' \in BOOLEAN /\ live' = live
         /\ due'[current_task] = cpu
         /\ \A t \in Task \ {current_task} : due'[t] = due[t]
<1>1. current_task \in live /\ current_task \in Task
  BY DEF IInv, Placed, Enter, TypeOK
<1>2. cpu' \in [Reg -> Value]
  BY DEF Enter, Val, Value
<1> QED
  BY <1>1, <1>2 DEF IInv, TypeOK, Enter, kernel_registers

\* An interrupt keeps the invariant: with a callback the frame is saved, and
\* only a handler that never comes back has a frame of the wrong form.
LEMMA InterruptKeepsIInv ==
  ASSUME IInv, NEW v \in Vectors, interrupt_handler(v)
  PROVE  IInv'
<1>0. cpu \in [Reg -> Value] /\ registers \in [Task -> [Reg -> Value]]
      /\ current_task \in Task
  BY DEF IInv, TypeOK
<1>1. PICK pushed \in {cpu, Shifted(cpu)} :
        /\ Enter(pushed)
        /\ pushed # cpu => v \in PushesErrorCode
  BY DEF interrupt_handler
<1>2. pushed \in [Reg -> Value]
  BY <1>0, ShiftedType
<1>3. pc' = interrupt_callbacks[v]
  BY DEF interrupt_handler
<1>4. pc' \in {"exception", "idt_clock", "keyboard", "ignored"}
  BY <1>3, CallbackPlaces
<1>5. pc' # "exception" => frame' = cpu
  BY <1>1, <1>3, ErrorCodeIsException DEF Enter
<1>6. /\ registers' \in [Task -> [Reg -> Value]]
      /\ pc' # "ignored" => registers'[current_task] = frame'
      /\ \A t \in Task \ {current_task} : registers'[t] = registers[t]
  <2>1. CASE pc' = "ignored"
    BY <1>0, <2>1 DEF interrupt_handler
  <2>2. CASE pc' # "ignored"
    BY <1>0, <1>1, <1>2, <2>2 DEF interrupt_handler, Save, Enter
  <2> QED
    BY <2>1, <2>2
<1>7. TypeOK'
  BY <1>0, <1>1, <1>2, <1>6, EnterKeepsRest DEF TypeOK
<1>8. OthersSaved'
  BY <1>1, <1>2, <1>6, EnterKeepsRest DEF OthersSaved, IInv, TypeOK
<1>9. FrameIsDue' /\ SavedIsDue'
  BY <1>1, <1>2, <1>4, <1>5, <1>6, EnterKeepsRest
     DEF FrameIsDue, SavedIsDue, HasSaved, KeepsFrame
<1>10. cr3' = KERNEL /\ current_task' \in live' /\ current_task' \in left'
  BY <1>1, <1>2, EnterKeepsRest
<1> QED
  BY <1>4, <1>7, <1>8, <1>9, <1>10
     DEF IInv, Placed, Places, KeepsFrame,
         KernelPage, WasInterrupted, ResumesWhereItLeft,
         OwnAddressSpace

\* So does int 0x80, for any number in eax.
LEMMA CommandKeepsIInv ==
  ASSUME IInv, NEW command \in Commands, isr80h_handler(command)
  PROVE  IInv'
<1>0. cpu \in [Reg -> Value] /\ registers \in [Task -> [Reg -> Value]]
      /\ current_task \in Task
  BY DEF IInv, TypeOK
<1>1. Enter(cpu) /\ Save
  BY DEF isr80h_handler
<1>2. pc' \in {"command", "no command"}
  BY DEF isr80h_handler, isr80h_handle_command
<1>3. frame' = cpu
  BY <1>1 DEF Enter
<1>4. /\ registers' \in [Task -> [Reg -> Value]]
      /\ registers'[current_task] = cpu
      /\ \A t \in Task \ {current_task} : registers'[t] = registers[t]
  BY <1>0, <1>1, <1>3 DEF Save
<1>5. TypeOK'
  BY <1>0, <1>1, <1>4, EnterKeepsRest DEF TypeOK
<1>6. OthersSaved'
  BY <1>0, <1>1, <1>4, EnterKeepsRest DEF OthersSaved, IInv, TypeOK
<1>7. /\ cr3' = KERNEL /\ current_task' = current_task /\ current_task' \in live'
      /\ current_task' \in left'
      /\ due'[current_task] = cpu
  BY <1>0, <1>1, EnterKeepsRest
<1> QED
  BY <1>2, <1>3, <1>4, <1>5, <1>6, <1>7
     DEF IInv, Placed, Places, KeepsFrame, HasSaved,
         KernelPage, WasInterrupted, FrameIsDue,
         SavedIsDue, ResumesWhereItLeft, OwnAddressSpace

\* The way back by iret: what is loaded is what is due, but for the result of
\* a command in eax.
LEMMA LeaveKeepsIInv ==
  ASSUME IInv, pc \in KeepsFrame, NEW value \in Value,
         Leave([frame EXCEPT !["eax"] = value])
  PROVE  IInv'
<1> DEFINE regs == [frame EXCEPT !["eax"] = value]
<1>1. /\ current_task \in live /\ current_task \in Task
      /\ frame \in [Reg -> Value] /\ due \in [Task -> [Reg -> Value]]
      /\ frame = due[current_task]
      /\ registers \in [Task -> [Reg -> Value]]
      /\ seg \in [Segment -> {"user", "kernel", "null"}]
      /\ current_task \in left
  BY DEF IInv, TypeOK, Placed, WasInterrupted, FrameIsDue, Places, KeepsFrame
<1>2. "eax" \in Reg
  BY DEF Reg, General
<1>3. regs \in [Reg -> Value] /\ regs["eax"] = value
  BY <1>1, <1>2
<1>4. /\ due' = [due EXCEPT ![current_task] = regs]
      /\ cpu' = regs /\ cr3' = current_task /\ pc' = "user"
      /\ seg' = Iret(user_registers(seg))
      /\ UNCHANGED <<frame, registers, live, current_task, left>>
      /\ resumed' \in BOOLEAN
  BY <1>1, <1>2, <1>3 DEF Leave
<1>5. /\ seg' \in [Segment -> {"user", "kernel", "null"}]
      /\ seg'.ds # "kernel"
      /\ \A x \in {"es", "fs", "gs"} : seg'[x] = "user"
  BY <1>1, <1>4, IretSegments
<1> HIDE DEF regs
<1>6. TypeOK'
  BY <1>1, <1>3, <1>4, <1>5 DEF TypeOK, IInv
<1>7. OthersSaved'
  BY <1>1, <1>4 DEF OthersSaved, IInv, TypeOK
<1>8. ResumesWhereItLeft'
  BY <1>1, <1>4 DEF ResumesWhereItLeft
<1> QED
  BY <1>1, <1>4, <1>5, <1>6, <1>7, <1>8
     DEF IInv, Placed, Places, KeepsFrame, HasSaved,
         KernelPage, WasInterrupted, FrameIsDue,
         SavedIsDue, OwnAddressSpace

\* task_switch and task_return bring in a task whose registers are saved.
LEMMA RunKeepsIInv ==
  ASSUME IInv, NEW t \in Task, Run(t), t \in live',
         live' \subseteq Task, left' \subseteq Task,
         registers' \in [Task -> [Reg -> Value]],
         due' \in [Task -> [Reg -> Value]],
         \A u \in live' : registers'[u] = due'[u]
  PROVE  IInv'
<1>1. cpu' \in [Reg -> Value]
      /\ \A r \in Reg \ {"ebp", "flags"} : cpu'[r] = due'[t][r]
  BY TaskReturnType DEF Run
<1>2. TypeOK'
  BY <1>1 DEF Run, TypeOK, IInv
<1> QED
  BY <1>1, <1>2 DEF Run, IInv, Placed, Places, KeepsFrame, HasSaved,
     KernelPage, WasInterrupted,
     FrameIsDue, SavedIsDue, OthersSaved, ResumesWhereItLeft, OwnAddressSpace,
     Segment

\* Every step keeps the invariant.
LEMMA NextIInv == IInv /\ [Next]_vars => IInv'
<1> SUFFICES ASSUME IInv, [Next]_vars PROVE IInv'
  OBVIOUS
<1>0. TypeOK
  BY DEF IInv
<1> USE DEF Places, KeepsFrame, HasSaved
<1>1. CASE UserStep
  <2>1. cpu' \in [Reg -> Value]
    BY <1>0, <1>1 DEF UserStep, TypeOK, Val, Value
  <2> QED
    BY <1>0, <1>1, <2>1 DEF UserStep, IInv, TypeOK, Placed,
       KernelPage, WasInterrupted, FrameIsDue,
       SavedIsDue, OthersSaved, ResumesWhereItLeft, OwnAddressSpace
<1>2. ASSUME NEW v \in Vectors, interrupt_handler(v) PROVE IInv'
  BY <1>2, InterruptKeepsIInv
<1>3. ASSUME NEW command \in Commands, isr80h_handler(command) PROVE IInv'
  BY <1>3, CommandKeepsIInv
<1>4. CASE interrupt_return
  <2>1. frame = [frame EXCEPT !["eax"] = frame["eax"]] /\ frame["eax"] \in Value
    BY <1>0 DEF TypeOK, Reg, General
  <2> QED
    BY <1>4, <2>1, LeaveKeepsIInv DEF interrupt_return
<1>5. CASE isr80h_wrapper
  <2>1. \A bit \in {0, 1} : Val(KERNEL, "eax", bit) \in Value
    BY DEF Val, Value, Reg, General
  <2> QED
    BY <1>5, <2>1, LeaveKeepsIInv DEF isr80h_wrapper
<1>6. CASE ReadUserMemory
  <2>1. seg' \in [Segment -> {"user", "kernel", "null"}]
    BY <1>0, <1>6 DEF ReadUserMemory, user_registers, kernel_registers, TypeOK, Segment
  <2>2. pc \in {"command", "reading"} /\ pc' \in {"command", "reading"}
    BY <1>6 DEF ReadUserMemory
  <2> QED
    BY <1>0, <1>6, <2>1, <2>2 DEF ReadUserMemory, IInv, TypeOK, Placed,
       KernelPage, WasInterrupted,
       FrameIsDue, SavedIsDue, OthersSaved, ResumesWhereItLeft, OwnAddressSpace
<1>7. CASE FaultInKernel
  <2>1. registers' \in [Task -> [Reg -> Value]]
    BY <1>0, <1>7, ShiftedType DEF FaultInKernel, TypeOK
  <2> QED
    BY <1>0, <1>7, <2>1 DEF FaultInKernel, IInv, TypeOK, Placed,
       KernelPage, WasInterrupted,
       FrameIsDue, SavedIsDue, OthersSaved, ResumesWhereItLeft, OwnAddressSpace,
       kernel_registers
<1>8. CASE task_next
  BY <1>0, <1>8, RunKeepsIInv
     DEF task_next, IInv, TypeOK, OthersSaved, SavedIsDue
<1>9. CASE Terminate
  BY <1>0, <1>9, RunKeepsIInv, TaskInitType
     DEF Terminate, IInv, TypeOK, OthersSaved
<1>10. CASE LoadStart
  <2>1. PICK t \in Task \ live :
          /\ live' = live \cup {t}
          /\ registers' = [registers EXCEPT ![t] = task_init(t)]
          /\ due' = [due EXCEPT ![t] = task_init(t)]
          /\ Run(t)
    BY <1>10 DEF LoadStart
  <2>2. \A u \in live : registers[u] = due[u]
    BY <1>10 DEF LoadStart, IInv, OthersSaved, SavedIsDue
  <2> QED
    BY <1>0, <1>10, <2>1, <2>2, RunKeepsIInv, TaskInitType DEF LoadStart, TypeOK
<1>11. CASE Panic
  BY <1>0, <1>11 DEF Panic, IInv, TypeOK, Placed,
     KernelPage, WasInterrupted, FrameIsDue,
     SavedIsDue, OthersSaved, ResumesWhereItLeft, OwnAddressSpace
<1>12. CASE UNCHANGED vars
  BY <1>12 DEF vars, IInv, TypeOK, Placed,
     KernelPage, WasInterrupted, FrameIsDue, SavedIsDue,
     OthersSaved, ResumesWhereItLeft, OwnAddressSpace
<1> QED
  BY <1>1, <1>2, <1>3, <1>4, <1>5, <1>6, <1>7, <1>8, <1>9, <1>10, <1>11, <1>12
     DEF Next, Stopped

\* The registers, frames and saved states are always complete.
THEOREM ContextTypeOK == Spec => []TypeOK
<1>1. IInv => TypeOK
  BY DEF IInv
<1> QED
  BY <1>1, InitIInv, NextIInv, PTL DEF Spec

\* A program that gets the processor back, by iret or by task_return, finds
\* all its registers but ebp and flags, for any number of tasks.
THEOREM ProgramsResume == Spec => []ResumesWhereItLeft
<1>1. IInv => ResumesWhereItLeft
  BY DEF IInv
<1> QED
  BY <1>1, InitIInv, NextIInv, PTL DEF Spec

\* Programs run in their own address space and never with a kernel selector:
\* es, fs and gs are the user's, ds is until the first interrupt and may be
\* null from then on.  Handlers run in the kernel's address space.
THEOREM ProgramsRunInTheirOwnSpace == Spec => []OwnAddressSpace
<1>1. IInv => OwnAddressSpace
  BY DEF IInv
<1> QED
  BY <1>1, InitIInv, NextIInv, PTL DEF Spec

\* A task that waits has in task->registers what it left.
THEOREM WaitingTasksAreSaved == Spec => []SavedWhileWaiting
<1>1. IInv => SavedWhileWaiting
  BY DEF IInv, OthersSaved, SavedWhileWaiting
<1> QED
  BY <1>1, InitIInv, NextIInv, PTL DEF Spec
==============================================================================
