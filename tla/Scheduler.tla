------------------------------ MODULE Scheduler ------------------------------
(***************************************************************************)
(* The preemptive round-robin scheduler of LineOS07 on its single CPU:     *)
(* process/process.c, the timer handler of cpu/timer.c, irq_handler() of   *)
(* cpu/handler.c, the key press handler of cpu/pic.c as far as it calls    *)
(* schedule(), switchTo() and the boot thread of main.c.                   *)
(*                                                                         *)
(* One action is one stretch of code that no interrupt can split: a single *)
(* store while interrupts are enabled, or a whole call while they are      *)
(* disabled.  pc[t] names the statement thread t executes next, so the     *)
(* timer may fall between any two statements of create_process(),          *)
(* process_sleep(), process_expire() and process_end().                    *)
(***************************************************************************)
EXTENDS Naturals, FiniteSets

CONSTANTS
  Proc,       \* the heap blocks kmalloc() may return for a process_t
  Core,       \* the block main() gets for the core process
  ListHead,   \* the list head k_proclist.list
  None,       \* NULL; as the value of k_proclist.current: the boot thread runs
  Slice,      \* ticks in a full time slice (100 in the code)
  Word,       \* the modulus of the u32 field timeout
  PidWord,    \* the modulus of the u32 process id counter
  CountCap,   \* bound: the process counter is not followed above this value
  SleepArgs,  \* the arguments with which process_sleep() is called
  Spawners,   \* processes whose program calls create_process()
  Sleepers,   \* processes whose program calls process_sleep()
  Enders,     \* processes whose program calls process_end()
  Irqs        \* interrupt lines: 0 is the timer, 1 the key that calls schedule()

Thread == Proc \cup {None}
Link   == Proc \cup {ListHead}  \* everything that holds a struct list_head
Ptr    == Link \cup {None}  \* values of a struct list_head pointer

ASSUME SchedulerAssumption ==
  /\ IsFiniteSet(Proc) /\ Core \in Proc
  /\ ListHead \notin Proc /\ None \notin Link
  /\ Slice \in Nat \ {0} /\ Word \in Nat \ {0, 1} /\ PidWord \in Nat \ {0}
  /\ CountCap \in Nat \ {0}
  /\ SleepArgs \subseteq 0 .. Word - 1
  /\ Spawners \subseteq Proc /\ Sleepers \subseteq Proc /\ Enders \subseteq Proc
  /\ Irqs \subseteq {0, 1} /\ 0 \in Irqs

VARIABLES
  next, prev,                 \* struct list_head of each process_t and of the list head
  state, ticks, timeout,      \* process_t fields the scheduler reads
  pid, parent,                \* process_t fields that identify a process
  current, pidcnt, count, kernel_preempt,     \* k_proclist
  mem,                        \* blocks that are allocated now
  pc,                         \* per thread: the next statement
  newproc,                    \* per thread: the local of create_process()
  rprev, rnext,               \* per thread: pointers a list operation holds in registers
  iflag,                      \* EFLAGS.IF of the CPU
  inIrq,                      \* per thread: an interrupt frame waits for EOI and iret
  savedIF,                    \* per process: IF in the frame switchTo() will restore
  isr                         \* lines in service at the PIC

links   == <<next, prev>>
fields  == <<state, ticks, timeout>>
ids     == <<pid, parent, pidcnt>>
locals  == <<newproc, rprev, rnext>>
cpu     == <<current, iflag, inIrq, savedIF, isr>>
globals == <<count, kernel_preempt, mem>>
vars    == <<links, fields, ids, locals, cpu, globals, pc>>

ZEROED   == "ZEROED"          \* state 0, as memset() leaves it
READY    == "READY"
RUNNING  == "RUNNING"
SLEEPING == "SLEEPING"

\* The boot thread: enable_kernel_preempt() and enable_ints() of main(), then
\* its call of create_process().
BootPc   == {"enable_preempt", "enable_ints", "spawn_core"}
CreatePc == {"c_pid", "c_pidcnt", "c_tail", "c_headprev", "c_node", "c_publish",
             "c_setup", "c_count", "c_ticks", "c_parent"}
SleepPc  == {"s_timeout", "s_ticks", "s_expire", "s_return"}
EndPc    == {"e_relink", "e_unlink", "e_free", "e_ticks", "e_expire", "e_return"}
\* Stuck threads: the loop of select_next_process(), and code that runs on
\* through a pointer that leads nowhere.
StuckPc  == {"findproc", "lost"}
Pc == BootPc \cup CreatePc \cup SleepPc \cup EndPc \cup StuckPc \cup {"user"}

-----------------------------------------------------------------------------
(***************************************************************************)
(* list_for_each over k_proclist.list: the forward walk from the head.     *)
(***************************************************************************)
Steps == 0 .. Cardinality(Proc)

Walk[i \in Steps] ==
  IF i = 0 THEN next[ListHead]
           ELSE IF Walk[i-1] \in Proc THEN next[Walk[i-1]] ELSE Walk[i-1]

\* The walk comes back to the head: it neither circles nor meets NULL.
ListSound == \E i \in Steps : Walk[i] = ListHead
Listed    == {Walk[i] : i \in Steps} \cap Proc

Before(p, q) == \E i, j \in Steps : i < j /\ Walk[i] = p /\ Walk[j] = q

\* A store through a list_head pointer; one through NULL changes low memory only.
Store(f, at, p) == IF at \in Link THEN [f EXCEPT ![at] = p] ELSE f

-----------------------------------------------------------------------------
(***************************************************************************)
(* schedule().  Every caller has interrupts disabled, so it is one step.   *)
(* The parameters are pc, inIrq and isr as the caller leaves them.         *)
(***************************************************************************)
Countdown(n) == IF n = 0 THEN Word - 1 ELSE n - 1

\* Faulty variant: only k_proclist.current is looked at.
MutSleeping(p) == p \in Listed /\ state[p] = SLEEPING /\ p = current

\* update_timeouts()
Sleeping(p)  == p \in Listed /\ state[p] = SLEEPING
Timeouts     == [p \in Proc |-> IF Sleeping(p) THEN Countdown(timeout[p])
                                               ELSE timeout[p]]
Woken        == [p \in Proc |-> IF Sleeping(p) /\ Timeouts[p] = 0
                                  THEN READY ELSE state[p]]

\* Faulty variants: the release is missing; it does not test the state.
MutReleasedNever  == Woken
MutReleasedAlways == [p \in Proc |-> IF p = current THEN READY ELSE Woken[p]]

\* The running process gives up PROC_RUNNING.
Released     == [p \in Proc |-> IF p = current /\ Woken[p] = RUNNING
                                  THEN READY ELSE Woken[p]]

\* select_next_process() with give_ticks()
ReadyProcs   == {p \in Listed : Released[p] = READY}
WithTicks    == {p \in ReadyProcs : ticks[p] > 0}
\* Faulty variant: give_ticks() on every selection.
MutRefilled  == [p \in Proc |-> IF p \in Listed THEN Slice ELSE ticks[p]]

Refilled     == [p \in Proc |-> IF WithTicks = {} /\ p \in Listed
                                  THEN Slice ELSE ticks[p]]
Candidates   == IF WithTicks = {} THEN ReadyProcs ELSE WithTicks

\* Faulty variant: the search does not stop at the first candidate.
MutSelected(p) == p \in Candidates /\ \A q \in Candidates \ {p} : Before(q, p)

Selected(p)  == p \in Candidates /\ \A q \in Candidates \ {p} : Before(p, q)

\* A non-specific end of interrupt ends the line of highest priority in service.
Eoi(lines)   == {i \in lines : \E j \in lines : j < i}

ScheduleReturns(pcs, lines) ==
  /\ pc' = pcs /\ isr' = lines /\ iflag' = FALSE
  /\ UNCHANGED <<current, savedIF>>

\* Preemption is off, or no process was ever counted.
ScheduleOff(pcs, lines) ==
  /\ (~kernel_preempt \/ count = 0)
  /\ ScheduleReturns(pcs, lines)
  /\ UNCHANGED fields

\* update_timeouts() walks a list that does not lead back to its head.
ScheduleLost(pcs, lines) ==
  /\ kernel_preempt /\ count > 0 /\ ~ListSound
  /\ ScheduleReturns([pcs EXCEPT ![current] = "lost"], lines)
  /\ UNCHANGED fields

\* Faulty variant: the tick count is not tested.
MutHasTicks == current # None

HasTicks == current # None /\ ticks[current] > 0

\* Faulty variant: the release comes before the test of the ticks.
MutScheduleKeep(pcs, lines) ==
  /\ kernel_preempt /\ count > 0 /\ ListSound /\ HasTicks
  /\ state' = Released /\ timeout' = Timeouts
  /\ ticks' = [ticks EXCEPT ![current] = @ - 1]
  /\ ScheduleReturns(pcs, lines)

\* The current process still has ticks: account one and keep it.
ScheduleKeep(pcs, lines) ==
  /\ kernel_preempt /\ count > 0 /\ ListSound /\ HasTicks
  /\ state' = Woken /\ timeout' = Timeouts
  /\ ticks' = [ticks EXCEPT ![current] = @ - 1]
  /\ ScheduleReturns(pcs, lines)

MustSwitch == kernel_preempt /\ count > 0 /\ ListSound /\ ~HasTicks

\* No listed process is ready: "goto findproc" for ever, interrupts disabled.
ScheduleSpins(pcs, lines) ==
  /\ MustSwitch /\ ReadyProcs = {}
  /\ state' = Released /\ timeout' = Timeouts /\ ticks' = Refilled
  /\ ScheduleReturns([pcs EXCEPT ![current] = "findproc"], lines)

\* switchTo(): the frame of the current thread keeps IF = 0 (there is no
\* process_t to save the boot thread in), the frame of p is restored.
ScheduleSwitch(pcs, lines) ==
  /\ MustSwitch
  /\ \E p \in Proc :
       /\ Selected(p)
       /\ state' = [Released EXCEPT ![p] = RUNNING]
       /\ timeout' = Timeouts
       /\ ticks' = [Refilled EXCEPT ![p] = @ - 1]
       /\ isr' = Eoi(lines)
       /\ current' = p
       /\ savedIF' = [q \in Proc |-> q # current /\ savedIF[q]]
       /\ iflag' = savedIF'[p]
  /\ pc' = pcs

Schedule(pcs, lines) ==
  \/ ScheduleOff(pcs, lines)
  \/ ScheduleLost(pcs, lines)
  \/ ScheduleKeep(pcs, lines)
  \/ ScheduleSpins(pcs, lines)
  \/ ScheduleSwitch(pcs, lines)

-----------------------------------------------------------------------------
(***************************************************************************)
(* Interrupts.  An interrupt gate clears IF; the handler of line 0 and the *)
(* key press 0x48 on line 1 both call schedule().                          *)
(***************************************************************************)
Interrupt(i) ==
  /\ iflag /\ \A j \in isr : i < j
  /\ inIrq' = [inIrq EXCEPT ![current] = TRUE]
  /\ Schedule(pc, isr \cup {i})
  /\ UNCHANGED <<links, ids, locals, globals>>

\* Faulty variant: no end of interrupt after the handler.
MutIrqReturn ==
  /\ inIrq[current] /\ pc[current] \notin StuckPc
  /\ inIrq' = [inIrq EXCEPT ![current] = FALSE] /\ iflag' = TRUE
  /\ UNCHANGED <<links, fields, ids, locals, globals, pc, current, savedIF, isr>>

\* irq_handler() sends its own end of interrupt and the stub executes iret.
IrqReturn ==
  /\ inIrq[current] /\ pc[current] \notin StuckPc
  /\ inIrq' = [inIrq EXCEPT ![current] = FALSE]
  /\ isr' = Eoi(isr) /\ iflag' = TRUE
  /\ UNCHANGED <<links, fields, ids, locals, globals, pc, current, savedIF>>

-----------------------------------------------------------------------------
\* Thread t executes the statement labelled l, and continues at l2.
At(t, l)       == current = t /\ pc[t] = l /\ ~inIrq[t]
Step(t, l, l2) == At(t, l) /\ pc' = [pc EXCEPT ![t] = l2]

\* main() after init_process()
EnablePreempt ==
  /\ Step(None, "enable_preempt", "enable_ints")
  /\ kernel_preempt' = TRUE
  /\ UNCHANGED <<links, fields, ids, locals, cpu, count, mem>>

EnableInts ==
  /\ Step(None, "enable_ints", "spawn_core")
  /\ iflag' = TRUE
  /\ UNCHANGED <<links, fields, ids, locals, globals, current, inIrq, savedIF, isr>>

-----------------------------------------------------------------------------
(***************************************************************************)
(* create_process()                                                        *)
(***************************************************************************)
MayCreate(t) == IF t = None THEN At(t, "spawn_core")
                            ELSE t \in Spawners /\ At(t, "user")

\* kmalloc() and memset(): a zeroed block.
AllocProcess(t, p) ==
  /\ MayCreate(t) /\ p \notin mem /\ (t = None => p = Core)
  /\ mem' = mem \cup {p}
  /\ newproc' = [newproc EXCEPT ![t] = p]
  /\ next' = [next EXCEPT ![p] = None] /\ prev' = [prev EXCEPT ![p] = None]
  /\ state' = [state EXCEPT ![p] = ZEROED]
  /\ ticks' = [ticks EXCEPT ![p] = 0] /\ timeout' = [timeout EXCEPT ![p] = 0]
  /\ pid' = [pid EXCEPT ![p] = 0] /\ parent' = [parent EXCEPT ![p] = None]
  /\ pc' = [pc EXCEPT ![t] = "c_pid"]
  /\ UNCHANGED <<cpu, count, kernel_preempt, pidcnt, rprev, rnext>>

\* newproc->pid=k_proclist.pidcnt++ needs the old value in a register: the
\* load and the store of the counter are two instructions.
ReadPid(t) ==
  /\ Step(t, "c_pid", "c_pidcnt")
  /\ pid' = [pid EXCEPT ![newproc[t]] = pidcnt]
  /\ UNCHANGED <<links, fields, locals, cpu, globals, parent, pidcnt>>

BumpPid(t) ==
  /\ Step(t, "c_pidcnt", "c_tail")
  /\ pidcnt' = IF pid[newproc[t]] = PidWord - 1 THEN 0 ELSE pid[newproc[t]] + 1
  /\ UNCHANGED <<links, fields, locals, cpu, globals, pid, parent>>

\* list_add_tail(): read the tail, then the stores of __list_add.
ReadTail(t) ==
  /\ Step(t, "c_tail", "c_headprev")
  /\ rprev' = [rprev EXCEPT ![t] = prev[ListHead]]
  /\ UNCHANGED <<links, fields, ids, cpu, globals, newproc, rnext>>

LinkHead(t) ==
  /\ Step(t, "c_headprev", "c_node")
  /\ prev' = [prev EXCEPT ![ListHead] = newproc[t]]
  /\ UNCHANGED <<next, fields, ids, locals, cpu, globals>>

\* The stores into the new node itself; only this thread reads node->prev
\* before the node is published, so the two need no step each.
LinkNode(t) ==
  /\ Step(t, "c_node", "c_publish")
  /\ next' = [next EXCEPT ![newproc[t]] = ListHead]
  /\ prev' = [prev EXCEPT ![newproc[t]] = rprev[t]]
  /\ UNCHANGED <<fields, ids, locals, cpu, globals>>

Publish(t) ==
  /\ Step(t, "c_publish", "c_setup")
  /\ next' = Store(next, rprev[t], newproc[t])
  /\ rprev' = [rprev EXCEPT ![t] = None]
  /\ UNCHANGED <<prev, fields, ids, cpu, globals, newproc, rnext>>

\* setup_kernel_process(): a frame with IF = 1 that enters the program.
Setup(t) ==
  /\ At(t, "c_setup")
  /\ state' = [state EXCEPT ![newproc[t]] = READY]
  /\ pc' = [pc EXCEPT ![newproc[t]] = "user", ![t] = "c_count"]
  /\ inIrq' = [inIrq EXCEPT ![newproc[t]] = FALSE]
  /\ savedIF' = [savedIF EXCEPT ![newproc[t]] = TRUE]
  /\ UNCHANGED <<links, ids, locals, globals, ticks, timeout, current, iflag, isr>>

CountUp(t) ==
  /\ Step(t, "c_count", "c_ticks")
  /\ count' = IF count < CountCap THEN count + 1 ELSE count
  /\ UNCHANGED <<links, fields, ids, locals, cpu, mem, kernel_preempt>>

FirstTicks(t) ==
  /\ Step(t, "c_ticks", "c_parent")
  /\ ticks' = [ticks EXCEPT ![newproc[t]] = Slice]
  /\ UNCHANGED <<links, ids, locals, cpu, globals, state, timeout>>

SetParent(t) ==
  /\ Step(t, "c_parent", "user")
  /\ parent' = [parent EXCEPT ![newproc[t]] = current]
  /\ newproc' = [newproc EXCEPT ![t] = None]
  /\ UNCHANGED <<links, fields, cpu, globals, pid, pidcnt, rprev, rnext>>

-----------------------------------------------------------------------------
(***************************************************************************)
(* process_sleep(), process_end() and the process_expire() both end in.    *)
(***************************************************************************)
FallAsleep(p) ==
  /\ p \in Sleepers /\ Step(p, "user", "s_timeout")
  /\ state' = [state EXCEPT ![p] = SLEEPING]
  /\ UNCHANGED <<links, ids, locals, cpu, globals, ticks, timeout>>

SetTimeout(p) ==
  /\ Step(p, "s_timeout", "s_ticks")
  /\ \E n \in SleepArgs : timeout' = [timeout EXCEPT ![p] = n]
  /\ UNCHANGED <<links, ids, locals, cpu, globals, state, ticks>>

\* list_del(): both pointers are read before the two stores of __list_del.
ReadLinks(p) ==
  /\ p \in Enders /\ Step(p, "user", "e_relink")
  /\ rprev' = [rprev EXCEPT ![p] = prev[p]]
  /\ rnext' = [rnext EXCEPT ![p] = next[p]]
  /\ UNCHANGED <<links, fields, ids, cpu, globals, newproc>>

\* Faulty variant: the back pointer is forgotten.
MutRelink(p) ==
  /\ Step(p, "e_relink", "e_unlink")
  /\ UNCHANGED <<links, fields, ids, locals, cpu, globals>>

Relink(p) ==
  /\ Step(p, "e_relink", "e_unlink")
  /\ prev' = Store(prev, rnext[p], rprev[p])
  /\ UNCHANGED <<next, fields, ids, locals, cpu, globals>>

Unlink(p) ==
  /\ Step(p, "e_unlink", "e_free")
  /\ next' = Store(next, rprev[p], rnext[p])
  /\ rprev' = [rprev EXCEPT ![p] = None] /\ rnext' = [rnext EXCEPT ![p] = None]
  /\ UNCHANGED <<prev, fields, ids, cpu, globals, newproc>>

FreeProcess(p) ==
  /\ Step(p, "e_free", "e_ticks")
  /\ mem' = mem \ {p}
  /\ UNCHANGED <<links, fields, ids, locals, cpu, count, kernel_preempt>>

\* Faulty variant: the ticks stay.
MutDropTicks(p) ==
  /\ \/ Step(p, "s_ticks", "s_expire")
     \/ Step(p, "e_ticks", "e_expire")
  /\ UNCHANGED <<links, fields, ids, locals, cpu, globals>>

\* process_expire(): after process_end() this writes into the freed block.
DropTicks(p) ==
  /\ \/ Step(p, "s_ticks", "s_expire")
     \/ Step(p, "e_ticks", "e_expire")
  /\ ticks' = [ticks EXCEPT ![p] = 0]
  /\ UNCHANGED <<links, ids, locals, cpu, globals, state, timeout>>

\* disable_ints() and schedule(): no interrupt can come between them.
Expire(p) ==
  /\ \/ At(p, "s_expire") /\ Schedule([pc EXCEPT ![p] = "s_return"], isr)
     \/ At(p, "e_expire") /\ Schedule([pc EXCEPT ![p] = "e_return"], isr)
  /\ UNCHANGED <<links, ids, locals, globals, inIrq>>

\* enable_ints() and the return: process_sleep() returns to the program,
\* process_end() to a thread function that has nothing left to return to.
ExpireReturn(p) ==
  /\ \/ Step(p, "s_return", "user")
     \/ Step(p, "e_return", "lost")
  /\ iflag' = TRUE
  /\ UNCHANGED <<links, fields, ids, locals, globals, current, inIrq, savedIF, isr>>

\* A stuck thread holds the CPU.
Stuck == pc[current] \in StuckPc /\ UNCHANGED vars

-----------------------------------------------------------------------------
Init ==
  /\ next = [l \in Link |-> IF l = ListHead THEN ListHead ELSE None]
  /\ prev = [l \in Link |-> IF l = ListHead THEN ListHead ELSE None]
  /\ state = [p \in Proc |-> ZEROED]
  /\ ticks = [p \in Proc |-> 0] /\ timeout = [p \in Proc |-> 0]
  /\ pid = [p \in Proc |-> 0] /\ parent = [p \in Proc |-> None]
  /\ current = None /\ pidcnt = 0 /\ count = 0 /\ kernel_preempt = FALSE
  /\ mem = {}
  /\ pc = [t \in Thread |-> IF t = None THEN "enable_preempt" ELSE "user"]
  /\ newproc = [t \in Thread |-> None]
  /\ rprev = [t \in Thread |-> None] /\ rnext = [t \in Thread |-> None]
  /\ iflag = FALSE
  /\ inIrq = [t \in Thread |-> FALSE]
  /\ savedIF = [p \in Proc |-> FALSE]
  /\ isr = {}

\* The rest of the call that thread t is in.
CreateStep(t) ==
  \/ ReadPid(t) \/ BumpPid(t) \/ ReadTail(t) \/ LinkHead(t) \/ LinkNode(t)
  \/ Publish(t) \/ Setup(t) \/ CountUp(t) \/ FirstTicks(t) \/ SetParent(t)

BlockStep(p) ==
  \/ SetTimeout(p) \/ Relink(p) \/ Unlink(p) \/ FreeProcess(p)
  \/ DropTicks(p) \/ Expire(p) \/ ExpireReturn(p)

Boot == EnablePreempt \/ EnableInts \/ AllocProcess(None, Core)

Continue(t) == CreateStep(t) \/ (IF t = None THEN Boot ELSE BlockStep(t))

\* A call that a program may make.
Call(p) == FallAsleep(p) \/ ReadLinks(p) \/ \E q \in Proc : AllocProcess(p, q)

Next ==
  \/ \E i \in Irqs : Interrupt(i)
  \/ IrqReturn
  \/ \E t \in Thread : Continue(t)
  \/ \E p \in Proc : Call(p)
  \/ Stuck

Spec == Init /\ [][Next]_vars

(***************************************************************************)
(* The timer free-runs and the PIC latches it, so a timer interrupt is not *)
(* put off for ever when interrupts are enabled again and again.  A thread *)
(* that keeps getting the CPU executes instructions between the ticks.     *)
(* Nothing forces a program to make another call.                          *)
(***************************************************************************)
Fairness ==
  /\ SF_vars(Interrupt(0))
  /\ WF_vars(IrqReturn)
  /\ \A t \in Thread : SF_vars(Continue(t))

FairSpec == Spec /\ Fairness

=============================================================================
