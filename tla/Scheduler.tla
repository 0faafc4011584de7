----------------------------- MODULE Scheduler ------------------------------
(***************************************************************************)
(* The cooperative scheduler (kernel/tasks/scheduler.cpp), what interrupts *)
(* and system calls do to it (kernel/idt.cpp, kernel/syscall.cpp), and the *)
(* kernel thread that paints the screen and sleeps (framebuffer::loop,     *)
(* kernel::sleep).                                                         *)
(*                                                                         *)
(* Handlers run with interrupts off, so each is one step; Scheduler::init  *)
(* runs with them on, so it is one step per process it pushes. A register  *)
(* set is abstracted to where its program is.                              *)
(***************************************************************************)
EXTENDS Naturals, Sequences, SequencesExt

CONSTANTS
  Kernel,       (* the kernel process, which runs screen_thread *)
  First,        (* the user process that init starts *)
  Typed,        (* processes started from the terminal *)
  SleepTicks,   (* how many ticks the kernel thread sleeps: 8 *)
  UserPlaces    (* where a user program can be once it has started *)

VARIABLES
  procs,      (* m_procs: each process with its saved state *)
  active,     (* m_active_idx *)
  cpu,        (* whose registers the CPU holds, and where that program is *)
  elapsed,    (* ticks since the kernel thread began its sleep, up to SleepTicks *)
  status,     (* how far init is, running, or halted *)
  created,    (* the processes that exist or have existed *)
  progress    (* history: where each program really is *)

vars == <<procs, active, cpu, elapsed, status, created, progress>>

Users == {First} \cup Typed
Ids == {Kernel} \cup Users

ASSUME ProcessAssumption ==
  /\ Kernel # First /\ Kernel \notin Typed /\ First \notin Typed
  /\ SleepTicks \in Nat
  /\ "boot" \notin Ids   \* the code that boots is no process

(* Where the programs start, and where they can be. *)
Entry(p) == IF p = Kernel THEN "paste" ELSE "entry"

Places(p) == IF p = Kernel THEN {"paste", "sleep", "woken"} ELSE {"entry"} \cup UserPlaces

Process(p) == [id |-> p, state |-> Entry(p)]

Init ==
  /\ procs = <<>>
  /\ active = 0
  /\ cpu = [id |-> "boot", state |-> "boot"]
  /\ elapsed = 0
  /\ status = "push_kernel"
  /\ created = {}
  /\ progress = [p \in Ids |-> Entry(p)]

Push(p) ==
  /\ procs' = Append(procs, Process(p))
  /\ created' = created \cup {p}

(* switch_context_to: the CPU goes on with what the record of the process  *)
(* at m_active_idx holds.                                                  *)
SwitchTo(table, next) ==
  /\ procs' = table
  /\ active' = next
  /\ cpu' = table[next + 1]

-----------------------------------------------------------------------------
(* Scheduler::init. *)

PushKernel ==
  /\ status = "push_kernel"
  /\ Push(Kernel)
  /\ status' = "push_first"
  /\ UNCHANGED <<active, cpu, elapsed, progress>>

PushFirst ==
  /\ status = "push_first"
  /\ Push(First)
  /\ status' = "start"
  /\ UNCHANGED <<active, cpu, elapsed, progress>>

Start ==
  /\ status = "start"
  /\ SwitchTo(procs, active)
  /\ status' = "running"
  /\ UNCHANGED <<elapsed, created, progress>>

-----------------------------------------------------------------------------
(* Mutant: the registers are saved in the next process. *)
SaveInNext(place) ==
  LET next == (active + 1) % Len(procs)
      saved == [procs EXCEPT ![next + 1].state = place]
  IN  /\ SwitchTo(saved, next)
      /\ progress' = [progress EXCEPT ![cpu.id] = place]
      /\ UNCHANGED <<status, created>>

(* Mutant: the registers are not saved. *)
YieldWithoutSave(place) ==
  LET next == (active + 1) % Len(procs)
  IN  /\ SwitchTo(procs, next)
      /\ progress' = [progress EXCEPT ![cpu.id] = place]
      /\ UNCHANGED <<status, created>>

(* Mutant: only the first two processes take turns. *)
YieldToFirst(place) ==
  LET next == IF active = 0 /\ Len(procs) > 1 THEN 1 ELSE 0
      saved == [procs EXCEPT ![active + 1].state = place]
  IN  /\ SwitchTo(saved, next)
      /\ progress' = [progress EXCEPT ![cpu.id] = place]
      /\ UNCHANGED <<status, created>>

(* The yield system call: Scheduler::handle_interrupt. The program goes on *)
(* at the given place when it gets the CPU again.                          *)
YieldAt(place) ==
  LET next == (active + 1) % Len(procs)
      saved == [procs EXCEPT ![active + 1].state = place]
  IN  /\ SwitchTo(saved, next)
      /\ progress' = [progress EXCEPT ![cpu.id] = place]
      /\ UNCHANGED <<status, created>>

Running(p) == status = "running" /\ cpu.id = p

(* framebuffer::loop pastes and calls sleep, which notes the time. *)
KernelPaste ==
  /\ Running(Kernel)
  /\ cpu.state = "paste"
  /\ cpu' = [cpu EXCEPT !.state = "sleep"]
  /\ progress' = [progress EXCEPT ![Kernel] = "sleep"]
  /\ elapsed' = 0
  /\ UNCHANGED <<procs, active, status, created>>

(* Mutant: the time is noted anew in every round of the loop. *)
SleepAnew ==
  /\ Running(Kernel)
  /\ cpu.state = "sleep"
  /\ elapsed < SleepTicks
  /\ YieldAt("sleep")
  /\ elapsed' = 0

(* sleep yields while its time is not up. *)
KernelSleep ==
  /\ Running(Kernel)
  /\ cpu.state = "sleep"
  /\ elapsed < SleepTicks
  /\ YieldAt("sleep")
  /\ UNCHANGED elapsed

KernelWake ==
  /\ Running(Kernel)
  /\ cpu.state = "sleep"
  /\ elapsed >= SleepTicks
  /\ cpu' = [cpu EXCEPT !.state = "woken"]
  /\ progress' = [progress EXCEPT ![Kernel] = "woken"]
  /\ UNCHANGED <<procs, active, elapsed, status, created>>

(* The loop yields once more before it starts over. *)
KernelYield ==
  /\ Running(Kernel)
  /\ cpu.state = "woken"
  /\ YieldAt("paste")
  /\ UNCHANGED elapsed

KernelThread == KernelPaste \/ KernelSleep \/ KernelWake \/ KernelYield

-----------------------------------------------------------------------------
(* A user program computes, yields, makes an invalid system call or causes *)
(* an exception.                                                           *)

UserCompute(p) ==
  /\ Running(p)
  /\ \E place \in UserPlaces :
       /\ cpu' = [cpu EXCEPT !.state = place]
       /\ progress' = [progress EXCEPT ![p] = place]
  /\ UNCHANGED <<procs, active, elapsed, status, created>>

UserYield(p) ==
  /\ Running(p)
  /\ \E place \in UserPlaces : YieldAt(place)
  /\ UNCHANGED elapsed

(* handle_syscall panics unless rax asks for a yield. *)
UserInvalidSyscall(p) ==
  /\ Running(p)
  /\ status' = "halted"
  /\ UNCHANGED <<procs, active, cpu, elapsed, created, progress>>

(* Mutant: the round starts over. *)
KillAndRestart(p) ==
  /\ Running(p)
  /\ LET left == RemoveAt(procs, active + 1)
         next == 0
     IN  SwitchTo(left, next)
  /\ UNCHANGED <<elapsed, status, created, progress>>

(* An exception in user mode: Scheduler::kill_current_thread. *)
UserException(p) ==
  /\ Running(p)
  /\ LET left == RemoveAt(procs, active + 1)
         next == IF active >= Len(left) THEN 0 ELSE active
     IN  SwitchTo(left, next)
  /\ UNCHANGED <<elapsed, status, created, progress>>

-----------------------------------------------------------------------------
(* Interrupt requests, which come while a program runs or init does.       *)

Interruptible == status # "halted"

(* pit::handle_interrupt. (Ticks beyond the sleep are not told apart.)     *)
TimerIrq ==
  /\ Interruptible
  /\ elapsed < SleepTicks
  /\ elapsed' = elapsed + 1
  /\ UNCHANGED <<procs, active, cpu, status, created, progress>>

(* The key that ends an "r" command: Terminal::handle_input creates the    *)
(* process and Scheduler::add_process pushes it.                           *)
KeyboardIrqRuns(p) ==
  /\ Interruptible
  /\ p \notin created
  /\ Push(p)
  /\ UNCHANGED <<active, cpu, elapsed, status, progress>>

(* The same when memory for the process cannot be had, and an interrupt    *)
(* that kernel_interrupt_handler does not know: both stop the kernel.      *)
IrqHalts ==
  /\ Interruptible
  /\ status' = "halted"
  /\ UNCHANGED <<procs, active, cpu, elapsed, created, progress>>

Next ==
  \/ PushKernel
  \/ PushFirst
  \/ Start
  \/ KernelThread
  \/ \E p \in Users :
       UserCompute(p) \/ UserYield(p) \/ UserInvalidSyscall(p) \/ UserException(p)
  \/ TimerIrq
  \/ \E p \in Typed : KeyboardIrqRuns(p)
  \/ IrqHalts

Spec == Init /\ [][Next]_vars

(* The CPU executes the boot and the kernel thread whenever they have it,  *)
(* and the timer goes on ticking; nothing makes a user program give way.   *)
Fairness ==
  /\ WF_vars(PushKernel \/ PushFirst \/ Start)
  /\ WF_vars(KernelThread)
  /\ WF_vars(TimerIrq)

FairSpec == Spec /\ Fairness

-----------------------------------------------------------------------------
(* Properties. *)

ProcessType == UNION {[id : {p}, state : Places(p)] : p \in Ids}

Present == {procs[i].id : i \in DOMAIN procs}

TypeOK ==
  /\ procs \in Seq(ProcessType)
  /\ active \in 0 .. Len(procs)
  /\ cpu \in ProcessType \/ cpu = [id |-> "boot", state |-> "boot"]
  /\ elapsed \in 0 .. SleepTicks
  /\ status \in {"push_kernel", "push_first", "start", "running", "halted"}
  /\ created \subseteq Ids
  /\ \A p \in Ids : progress[p] \in Places(p)

(* Every process resumes where it left off: the record of each waiting     *)
(* process holds where its program really is, and the registers the CPU    *)
(* holds are those of the process at m_active_idx, through any number of   *)
(* yields, deaths and arrivals (handle_interrupt, kill_current_thread,     *)
(* Vector::remove).                                                        *)
ContextsPreserved ==
  cpu.id # "boot" =>
    /\ procs[active + 1].id = cpu.id
    /\ cpu.state = progress[cpu.id]
    /\ \A i \in DOMAIN procs : i # active + 1 => procs[i].state = progress[procs[i].id]

(* The screen is pasted over and over, and the sleep always ends, provided *)
(* every user program gives up the CPU sooner or later and nothing halts   *)
(* the kernel (framebuffer::loop, sleep).                                  *)
NobodyHogs == /\ \A p \in Users : []<>(cpu.id # p)
              /\ [](status # "halted")

KeepsPasting == NobodyHogs => []<>(cpu = [id |-> Kernel, state |-> "paste"])

(* Under the same condition every process that stays gets its turn.        *)
EveryProcessRuns ==
  NobodyHogs => \A p \in Ids : []<>(cpu.id = p \/ p \notin Present)

(* A queue that begins with the process at m_active_idx and goes around. *)
Rotation ==
  LET ids == [i \in DOMAIN procs |-> procs[i].id]
  IN  SubSeq(ids, active + 1, Len(ids)) \o SubSeq(ids, 1, active)

Queue == INSTANCE RoundRobin WITH
  Processes <- Ids,
  queue <- Rotation,
  running <- status # "halted"

(* The array and its index implement the round-robin queue: an arrival, a  *)
(* yield or a death never disturbs the order of the others.                *)
ImplementsRoundRobin == Queue!Spec
=============================================================================
