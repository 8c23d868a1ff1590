--------------------------- MODULE SchedulerProofs ---------------------------
(***************************************************************************)
(* Proofs about the scheduler, for every number of processes and every     *)
(* slice, in three parts.                                                  *)
(*                                                                         *)
(* First what holds whatever the programs do and however their calls       *)
(* interleave, a damaged run queue included.                               *)
(*                                                                         *)
(* Then the run queue: while no two list operations overlap, the forward   *)
(* walk of schedule() is a queue in the sense of IsQueue, whichever        *)
(* statements of create_process(), process_sleep() and process_end() the   *)
(* timer fell on. Every lemma takes the queue q before a step and shows    *)
(* the queue after it.                                                     *)
(*                                                                         *)
(* Last, the scheduler implements the abstract round robin.                *)
(***************************************************************************)
EXTENDS SchedulerProperties, Induction, FiniteSetTheorems, SequenceTheorems, TLAPS

(***************************************************************************)
(* What the operators of schedule() return.                                *)
(***************************************************************************)
LEMMA CountdownType ==
  ASSUME NEW n \in 0 .. Word - 1
  PROVE  Countdown(n) \in 0 .. Word - 1
BY SchedulerAssumption DEF Countdown, SchedulerAssumption

\* What schedule() computes for the fields of all processes.
LEMMA ScheduleFields ==
  ASSUME TypeOK
  PROVE  /\ Timeouts \in [Proc -> 0 .. Word - 1]
         /\ Woken \in [Proc -> {ZEROED, READY, RUNNING, SLEEPING}]
         /\ Released \in [Proc -> {ZEROED, READY, RUNNING, SLEEPING}]
         /\ Refilled \in [Proc -> 0 .. Slice]
         /\ \A p \in Candidates : Refilled[p] > 0
<1>1. Timeouts \in [Proc -> 0 .. Word - 1]
  BY CountdownType DEF TypeOK, Timeouts
<1>2. Woken \in [Proc -> {ZEROED, READY, RUNNING, SLEEPING}]
  BY DEF TypeOK, Woken
<1>3. Released \in [Proc -> {ZEROED, READY, RUNNING, SLEEPING}]
  BY <1>2 DEF Released
<1>4. Refilled \in [Proc -> 0 .. Slice]
  BY SchedulerAssumption DEF TypeOK, Refilled, SchedulerAssumption
<1>5. \A p \in Candidates : Refilled[p] > 0
  BY SchedulerAssumption
  DEF TypeOK, Candidates, WithTicks, ReadyProcs, Listed, Refilled, SchedulerAssumption
<1> QED BY <1>1, <1>2, <1>3, <1>4, <1>5

(***************************************************************************)
(* The part of the state schedule() may change keeps its type.             *)
(***************************************************************************)
LEMMA ScheduleType ==
  ASSUME TypeOK,
         NEW pcs \in [Thread -> Pc], NEW lines \in SUBSET Irqs,
         Schedule(pcs, lines)
  PROVE  /\ state' \in [Proc -> {ZEROED, READY, RUNNING, SLEEPING}]
         /\ ticks' \in [Proc -> 0 .. Slice]
         /\ timeout' \in [Proc -> 0 .. Word - 1]
         /\ current' \in Thread
         /\ pc' \in [Thread -> Pc]
         /\ \A t \in Thread : pc'[t] = pcs[t] \/ pc'[t] \in StuckPc
         /\ iflag' \in BOOLEAN
         /\ savedIF' \in [Proc -> BOOLEAN]
         /\ isr' \subseteq Irqs
<1> USE ScheduleFields
<1>1. CASE ScheduleOff(pcs, lines)
  BY <1>1 DEF ScheduleOff, ScheduleReturns, fields, TypeOK
<1>2. CASE ScheduleLost(pcs, lines)
  BY <1>2 DEF ScheduleLost, ScheduleReturns, fields, TypeOK, StuckPc, Pc
<1>3. CASE ScheduleKeep(pcs, lines)
  <2>1. ticks' \in [Proc -> 0 .. Slice]
    BY <1>3, SchedulerAssumption
    DEF ScheduleKeep, HasTicks, TypeOK, Thread, SchedulerAssumption
  <2> QED
    BY <1>3, <2>1 DEF ScheduleKeep, ScheduleReturns, TypeOK
<1>4. CASE ScheduleSpins(pcs, lines)
  BY <1>4 DEF ScheduleSpins, ScheduleReturns, TypeOK, StuckPc, Pc
<1>5. CASE ScheduleSwitch(pcs, lines)
  <2>1. PICK p \in Proc :
          /\ Selected(p)
          /\ state' = [Released EXCEPT ![p] = RUNNING]
          /\ timeout' = Timeouts
          /\ ticks' = [Refilled EXCEPT ![p] = @ - 1]
          /\ isr' = Eoi(lines)
          /\ current' = p
          /\ savedIF' = [q \in Proc |-> q # current /\ savedIF[q]]
          /\ iflag' = savedIF'[p]
    BY <1>5 DEF ScheduleSwitch
  <2>2. ticks' \in [Proc -> 0 .. Slice]
    BY <2>1, SchedulerAssumption DEF Selected, SchedulerAssumption
  <2>3. savedIF' \in [Proc -> BOOLEAN] /\ iflag' \in BOOLEAN
    BY <2>1 DEF TypeOK
  <2>4. isr' \subseteq Irqs
    BY <2>1 DEF Eoi
  <2>5. pc' = pcs
    BY <1>5 DEF ScheduleSwitch
  <2> QED BY <2>1, <2>2, <2>3, <2>4, <2>5 DEF Thread
<1> QED BY <1>1, <1>2, <1>3, <1>4, <1>5 DEF Schedule
(***************************************************************************)
(* Every step of create_process() keeps the types: newproc is a block from *)
(* the allocation to the return.                                           *)
(***************************************************************************)
LEMMA CreateType ==
  ASSUME TypeOK, NEW t \in Thread, CreateStep(t)
  PROVE  TypeOK'
<1> USE DEF Step, At, links, fields, ids, locals, cpu, globals, TypeOK,
            Thread, Link, Ptr, Pc, CreatePc
<1>1. CASE ReadPid(t)
  BY <1>1, SchedulerAssumption DEF ReadPid, SchedulerAssumption
<1>2. CASE BumpPid(t)
  BY SMTT(30), <1>2, SchedulerAssumption DEF BumpPid, SchedulerAssumption
<1>3. CASE ReadTail(t)
  BY <1>3, SchedulerAssumption DEF ReadTail, SchedulerAssumption
<1>4. CASE LinkHead(t)
  BY <1>4, SchedulerAssumption DEF LinkHead, SchedulerAssumption
<1>5. CASE LinkNode(t)
  BY <1>5, SchedulerAssumption DEF LinkNode, SchedulerAssumption
<1>6. CASE Publish(t)
  BY <1>6, SchedulerAssumption DEF Publish, Store, SchedulerAssumption
<1>7. CASE Setup(t)
  BY <1>7, SchedulerAssumption DEF Setup, READY, SchedulerAssumption
<1>8. CASE CountUp(t)
  BY <1>8, SchedulerAssumption DEF CountUp, SchedulerAssumption
<1>9. CASE FirstTicks(t)
  BY <1>9, SchedulerAssumption DEF FirstTicks, SchedulerAssumption
<1>10. CASE SetParent(t)
  BY <1>10, SchedulerAssumption DEF SetParent, SchedulerAssumption
<1> QED BY <1>1, <1>2, <1>3, <1>4, <1>5, <1>6, <1>7, <1>8, <1>9, <1>10 DEF CreateStep

\* The types over the claim of a free process_t ...
LEMMA AllocType ==
  ASSUME TypeOK, NEW t \in Thread, NEW p \in Proc, AllocProcess(t, p)
  PROVE  TypeOK'
BY SchedulerAssumption
DEF AllocProcess, cpu, TypeOK, Thread, Link, Ptr, Pc, CreatePc, SchedulerAssumption

(***************************************************************************)
(* The same of process_sleep(), process_end() and process_expire().        *)
(***************************************************************************)
LEMMA BlockType ==
  ASSUME TypeOK, NEW p \in Proc, FallAsleep(p) \/ ReadLinks(p) \/ BlockStep(p)
  PROVE  TypeOK'
<1>1. CASE Expire(p)
  <2>1. PICK l \in {"s_return", "e_return"} :
          Schedule([pc EXCEPT ![p] = l], isr)
    BY <1>1 DEF Expire
  <2> DEFINE pcs == [pc EXCEPT ![p] = l]
  <2>2. pcs \in [Thread -> Pc] /\ l \notin CreatePc
    BY DEF TypeOK, Thread, Pc, SleepPc, EndPc, CreatePc
  <2>3. /\ state' \in [Proc -> {ZEROED, READY, RUNNING, SLEEPING}]
        /\ ticks' \in [Proc -> 0 .. Slice]
        /\ timeout' \in [Proc -> 0 .. Word - 1]
        /\ current' \in Thread
        /\ pc' \in [Thread -> Pc]
        /\ \A t \in Thread : pc'[t] = pcs[t] \/ pc'[t] \in StuckPc
        /\ iflag' \in BOOLEAN
        /\ savedIF' \in [Proc -> BOOLEAN]
        /\ isr' \subseteq Irqs
    <3> HIDE DEF pcs
    <3> QED BY <2>1, <2>2, ScheduleType DEF pcs, TypeOK
  <2>4. \A t \in Thread : pc'[t] \in CreatePc => newproc[t] \in Proc
    BY <2>2, <2>3 DEF TypeOK, StuckPc, CreatePc
  <2> QED
    BY <1>1, <2>3, <2>4 DEF Expire, links, ids, locals, globals, TypeOK
<1> USE DEF Step, At, links, fields, ids, locals, cpu, globals, TypeOK,
            Thread, Link, Ptr, Pc, CreatePc, SleepPc, EndPc, StuckPc
<1>2. CASE FallAsleep(p)
  BY <1>2 DEF FallAsleep, SLEEPING
<1>3. CASE SetTimeout(p)
  BY <1>3, SchedulerAssumption DEF SetTimeout, SchedulerAssumption
<1>4. CASE ReadLinks(p)
  BY <1>4 DEF ReadLinks
<1>5. CASE Relink(p)
  BY <1>5 DEF Relink, Store
<1>6. CASE Unlink(p)
  BY <1>6 DEF Unlink, Store
<1>7. CASE FreeProcess(p)
  BY <1>7 DEF FreeProcess
<1>8. CASE DropTicks(p)
  BY <1>8, SchedulerAssumption DEF DropTicks, SchedulerAssumption
<1>9. CASE ExpireReturn(p)
  BY <1>9 DEF ExpireReturn
<1> QED
  BY <1>1, <1>2, <1>3, <1>4, <1>5, <1>6, <1>7, <1>8, <1>9 DEF BlockStep

\* ... and over an interrupt.
LEMMA InterruptType ==
  ASSUME TypeOK, NEW i \in Irqs, Interrupt(i)
  PROVE  TypeOK'
<1>1. /\ state' \in [Proc -> {ZEROED, READY, RUNNING, SLEEPING}]
      /\ ticks' \in [Proc -> 0 .. Slice]
      /\ timeout' \in [Proc -> 0 .. Word - 1]
      /\ current' \in Thread
      /\ pc' \in [Thread -> Pc]
      /\ \A t \in Thread : pc'[t] = pc[t] \/ pc'[t] \in StuckPc
      /\ iflag' \in BOOLEAN
      /\ savedIF' \in [Proc -> BOOLEAN]
      /\ isr' \subseteq Irqs
  <2>1. pc \in [Thread -> Pc] /\ isr \cup {i} \in SUBSET Irqs
    BY DEF TypeOK
  <2>2. Schedule(pc, isr \cup {i})
    BY DEF Interrupt
  <2> QED BY <2>1, <2>2, ScheduleType
<1>2. \A t \in Thread : pc'[t] \in CreatePc => newproc[t] \in Proc
  BY <1>1 DEF TypeOK, StuckPc, CreatePc
<1>3. inIrq' \in [Thread -> BOOLEAN]
  BY DEF Interrupt, TypeOK
<1> QED
  BY <1>1, <1>2, <1>3 DEF Interrupt, links, ids, locals, globals, TypeOK

(***************************************************************************)
(* Every variable keeps the type its declaration gives it.                 *)
(***************************************************************************)
THEOREM TypeCorrect == Spec => []TypeOK
<1>1. Init => TypeOK
  <2> SUFFICES ASSUME Init PROVE TypeOK
    OBVIOUS
  <2>1. /\ pidcnt \in 0 .. PidWord - 1 /\ pid \in [Proc -> 0 .. PidWord - 1]
        /\ ticks \in [Proc -> 0 .. Slice] /\ timeout \in [Proc -> 0 .. Word - 1]
        /\ count \in 0 .. CountCap
    BY SchedulerAssumption DEF Init, SchedulerAssumption
  <2>2. pc \in [Thread -> Pc] /\ \A t \in Thread : pc[t] \notin CreatePc
    BY DEF Init, Pc, BootPc, CreatePc
  <2> QED
    BY <2>1, <2>2 DEF Init, TypeOK, Thread, Link, Ptr
<1>2. TypeOK /\ [Next]_vars => TypeOK'
  <2> SUFFICES ASSUME TypeOK, [Next]_vars PROVE TypeOK'
    OBVIOUS
  <2>1. CASE \E i \in Irqs : Interrupt(i)
    BY <2>1, InterruptType
  <2>2. CASE IrqReturn
    BY <2>2 DEF IrqReturn, Eoi, links, fields, ids, locals, globals, TypeOK
  <2>3. CASE EnablePreempt \/ EnableInts
    <3>1. /\ pc' \in [Thread -> Pc]
          /\ \A t \in Thread : pc'[t] \in CreatePc => pc[t] \in CreatePc
      BY <2>3 DEF EnablePreempt, EnableInts, Step, TypeOK, Thread, Pc, BootPc, CreatePc
    <3>2. CASE EnablePreempt
      BY <3>1, <3>2 DEF EnablePreempt, links, fields, ids, locals, cpu, TypeOK
    <3>3. CASE EnableInts
      BY <3>1, <3>3 DEF EnableInts, links, fields, ids, locals, globals, TypeOK
    <3> QED BY <2>3, <3>2, <3>3
  <2>4. ASSUME NEW t \in Thread, NEW p \in Proc, AllocProcess(t, p)
        PROVE  TypeOK'
    BY <2>4, AllocType
  <2>5. CASE \E t \in Thread : Continue(t)
    <3>1. PICK t \in Thread : Continue(t)
      BY <2>5
    <3>2. CASE CreateStep(t)
      BY <3>2, CreateType
    <3>3. CASE t = None /\ Boot
      BY <3>3, <2>3, <2>4, SchedulerAssumption DEF Boot, SchedulerAssumption
    <3>4. CASE t # None /\ BlockStep(t)
      BY <3>4, BlockType DEF Thread
    <3> QED BY <3>1, <3>2, <3>3, <3>4 DEF Continue
  <2>6. CASE \E p \in Proc : Call(p)
    BY <2>6, <2>4, BlockType DEF Call, Thread
  <2>7. CASE UNCHANGED vars
    BY <2>7 DEF vars, links, fields, ids, locals, cpu, globals, TypeOK
  <2> QED BY <2>1, <2>2, <2>5, <2>6, <2>7 DEF Next, Stuck
<1> QED BY <1>1, <1>2, PTL DEF Spec

-----------------------------------------------------------------------------
(***************************************************************************)
(* schedule() releases the process it takes the CPU from before it marks   *)
(* the one that gets it.                                                   *)
(***************************************************************************)
LEMMA ScheduleRunning ==
  ASSUME TypeOK, RunningIsCurrent, NEW pcs, NEW lines, Schedule(pcs, lines)
  PROVE  RunningIsCurrent'
<1>1. \A p \in Proc : Woken[p] = RUNNING => state[p] = RUNNING
  BY DEF Woken, READY, RUNNING
<1>2. \A p \in Proc : Released[p] = RUNNING => Woken[p] = RUNNING /\ p # current
  BY DEF Released, READY, RUNNING
<1>3. CASE ScheduleSwitch(pcs, lines)
  <2>1. PICK p \in Proc : state' = [Released EXCEPT ![p] = RUNNING] /\ current' = p
    BY <1>3 DEF ScheduleSwitch
  <2>2. \A q \in Proc : state'[q] = RUNNING => q = p \/ Released[q] = RUNNING
    BY <2>1, ScheduleFields
  <2> QED BY <1>1, <1>2, <2>1, <2>2 DEF RunningIsCurrent
<1>4. CASE ~ScheduleSwitch(pcs, lines)
  <2>1. current' = current /\ state' \in {state, Woken, Released}
    BY <1>4 DEF Schedule, ScheduleOff, ScheduleLost, ScheduleKeep, ScheduleSpins,
                ScheduleReturns, fields
  <2> QED BY <1>1, <1>2, <2>1 DEF RunningIsCurrent
<1> QED BY <1>3, <1>4

(***************************************************************************)
(* Only the process k_proclist.current is ever PROC_RUNNING.               *)
(***************************************************************************)
THEOREM OneRunning == Spec => []RunningIsCurrent
<1>1. Init => RunningIsCurrent
  BY DEF Init, RunningIsCurrent, ZEROED, RUNNING
<1>2. TypeOK /\ RunningIsCurrent /\ [Next]_vars => RunningIsCurrent'
  <2> SUFFICES ASSUME TypeOK, RunningIsCurrent, [Next]_vars
               PROVE  RunningIsCurrent'
    OBVIOUS
  <2> USE DEF Step, At, links, fields, ids, locals, cpu, globals, TypeOK,
              ZEROED, READY, RUNNING, SLEEPING
  <2>1. ASSUME NEW i \in Irqs, Interrupt(i) PROVE RunningIsCurrent'
    BY <2>1, ScheduleRunning DEF Interrupt
  <2>2. ASSUME NEW p \in Proc, Expire(p) PROVE RunningIsCurrent'
    BY <2>2, ScheduleRunning DEF Expire
  <2>3. ASSUME NEW t \in Thread, NEW p \in Proc, AllocProcess(t, p)
        PROVE  RunningIsCurrent'
    BY <2>3 DEF AllocProcess, RunningIsCurrent
  <2>4. CASE IrqReturn \/ EnablePreempt \/ EnableInts
    BY <2>4 DEF IrqReturn, EnablePreempt, EnableInts, RunningIsCurrent
  <2>5. ASSUME NEW t \in Thread, CreateStep(t) PROVE RunningIsCurrent'
    <3>1. CASE Setup(t)
      BY <3>1 DEF Setup, RunningIsCurrent
    <3>2. CASE ~Setup(t)
      <4>1. UNCHANGED <<state, current>>
        BY <2>5, <3>2 DEF CreateStep, ReadPid, BumpPid, ReadTail, LinkHead, LinkNode,
                          Publish, CountUp, FirstTicks, SetParent
      <4> QED BY <4>1 DEF RunningIsCurrent
    <3> QED BY <3>1, <3>2
  <2>6. ASSUME NEW p \in Proc, FallAsleep(p) PROVE RunningIsCurrent'
    BY <2>6 DEF FallAsleep, RunningIsCurrent
  <2>7. ASSUME NEW p \in Proc, ReadLinks(p) \/ BlockStep(p)
        PROVE  RunningIsCurrent'
    <3>1. CASE ~Expire(p)
      <4>1. UNCHANGED <<state, current>>
        BY <2>7, <3>1 DEF ReadLinks, BlockStep, SetTimeout, Relink, Unlink,
                          FreeProcess, DropTicks, ExpireReturn
      <4> QED BY <4>1 DEF RunningIsCurrent
    <3> QED BY <2>2, <3>1
  <2>8. CASE \E t \in Thread : Continue(t)
    BY <2>3, <2>4, <2>5, <2>7, <2>8, SchedulerAssumption
    DEF Continue, Boot, Thread, SchedulerAssumption
  <2>9. CASE \E p \in Proc : Call(p)
    BY <2>3, <2>6, <2>7, <2>9 DEF Call, Thread
  <2>10. CASE UNCHANGED vars
    BY <2>10 DEF vars, RunningIsCurrent
  <2> QED BY <2>1, <2>4, <2>8, <2>9, <2>10 DEF Next, Stuck
<1> QED BY <1>1, <1>2, TypeCorrect, PTL DEF Spec

-----------------------------------------------------------------------------
(***************************************************************************)
(* An end of interrupt with one line in service leaves none.               *)
(***************************************************************************)
LEMMA EoiEnds ==
  ASSUME NEW lines \in SUBSET Irqs, \A i, j \in lines : i = j
  PROVE  Eoi(lines) = {}
<1>1. SUFFICES ASSUME NEW i \in lines, NEW j \in lines, j < i PROVE FALSE
  BY DEF Eoi
<1>2. i \in {0, 1} /\ i = j
  BY SchedulerAssumption DEF SchedulerAssumption
<1> QED BY <1>1, <1>2

(***************************************************************************)
(* schedule() may be called with a line in service if the frame of its     *)
(* handler is on the current stack: it keeps the line and the thread, or   *)
(* ends the line and goes on where interrupts are on only outside handlers.*)
(***************************************************************************)
LEMMA ScheduleInterrupts ==
  ASSUME TypeOK, InterruptDiscipline,
         NEW pcs, NEW lines \in SUBSET Irqs, Schedule(pcs, lines),
         \A i, j \in lines : i = j,
         inIrq' \in [Thread -> BOOLEAN],
         lines # {} => inIrq'[current],
         \A q \in Proc : q # current => inIrq'[q] = inIrq[q]
  PROVE  InterruptDiscipline'
<1>1. CASE ScheduleSwitch(pcs, lines)
  <2>1. PICK p \in Proc :
          /\ isr' = Eoi(lines) /\ current' = p
          /\ savedIF' = [q \in Proc |-> q # current /\ savedIF[q]]
          /\ iflag' = savedIF'[p]
    BY <1>1 DEF ScheduleSwitch
  <2>2. isr' = {}
    BY <2>1, EoiEnds
  <2>3. \A q \in Proc : savedIF'[q] => ~inIrq'[q]
    BY <2>1 DEF InterruptDiscipline
  <2> QED BY <2>1, <2>2, <2>3 DEF InterruptDiscipline
<1>2. CASE ~ScheduleSwitch(pcs, lines)
  <2>1. isr' = lines /\ ~iflag' /\ UNCHANGED <<current, savedIF>>
    BY <1>2 DEF Schedule, ScheduleOff, ScheduleLost, ScheduleKeep, ScheduleSpins,
                ScheduleReturns
  <2> QED BY <2>1 DEF InterruptDiscipline
<1> QED BY <1>1, <1>2

(***************************************************************************)
(* The CPU takes interrupts only with no line in service, so none is ever  *)
(* blocked for good at the PIC.                                            *)
(***************************************************************************)
THEOREM InterruptsOrdered == Spec => []InterruptDiscipline
<1>1. Init => InterruptDiscipline
  BY DEF Init, InterruptDiscipline
<1>2. TypeOK /\ InterruptDiscipline /\ [Next]_vars => InterruptDiscipline'
  <2> SUFFICES ASSUME TypeOK, InterruptDiscipline, [Next]_vars
               PROVE  InterruptDiscipline'
    OBVIOUS
  <2> USE DEF Step, At, links, fields, ids, locals, cpu, globals
  <2>1. ASSUME NEW i \in Irqs, Interrupt(i) PROVE InterruptDiscipline'
    <3> DEFINE lines == isr \cup {i}
    <3>1. Schedule(pc, lines)
      BY <2>1 DEF Interrupt
    <3>2. inIrq' = [inIrq EXCEPT ![current] = TRUE]
      BY <2>1 DEF Interrupt
    <3>3. inIrq' \in [Thread -> BOOLEAN] /\ inIrq'[current]
      BY <3>2 DEF TypeOK
    <3>4. \A q \in Proc : q # current => inIrq'[q] = inIrq[q]
      BY <3>2 DEF TypeOK, Thread
    <3>5. lines = {i} /\ lines \in SUBSET Irqs
      BY <2>1 DEF Interrupt, InterruptDiscipline
    <3> HIDE DEF lines
    <3>6. \A k, j \in lines : k = j
      BY <3>5
    <3> QED BY <3>1, <3>3, <3>4, <3>5, <3>6, ScheduleInterrupts
  <2>2. ASSUME NEW p \in Proc, Expire(p) PROVE InterruptDiscipline'
    <3>1. isr = {} /\ isr \in SUBSET Irqs /\ UNCHANGED inIrq
      BY <2>2 DEF Expire, InterruptDiscipline
    <3>2. PICK l \in {"s_return", "e_return"} :
            Schedule([pc EXCEPT ![p] = l], isr)
      BY <2>2 DEF Expire
    <3>3. inIrq' \in [Thread -> BOOLEAN]
      BY <3>1 DEF TypeOK
    <3> QED BY <3>1, <3>2, <3>3, ScheduleInterrupts
  <2>3. CASE IrqReturn
    <3>1. isr' = {}
      BY <2>3, EoiEnds DEF IrqReturn, InterruptDiscipline, TypeOK
    <3> QED BY <2>3, <3>1 DEF IrqReturn, InterruptDiscipline, TypeOK, Thread
  <2>4. CASE EnablePreempt \/ EnableInts
    BY <2>4 DEF EnablePreempt, EnableInts, InterruptDiscipline
  <2>5. ASSUME NEW t \in Thread, NEW p \in Proc, AllocProcess(t, p)
        PROVE  InterruptDiscipline'
    BY <2>5 DEF AllocProcess, InterruptDiscipline
  <2>6. ASSUME NEW t \in Thread, CreateStep(t) PROVE InterruptDiscipline'
    <3>1. CASE Setup(t)
      <4>1. newproc[t] \in Proc
        BY <3>1 DEF Setup, TypeOK, CreatePc
      <4>2. ~inIrq[current] /\ ~inIrq'[newproc[t]]
        BY <3>1, <4>1 DEF Setup, TypeOK, Thread
      <4>3. \A q \in Thread : q # newproc[t] => inIrq'[q] = inIrq[q]
        BY <3>1 DEF Setup, TypeOK
      <4>4. \A q \in Proc : q # newproc[t] => savedIF'[q] = savedIF[q]
        BY <3>1 DEF Setup, TypeOK
      <4>5. UNCHANGED <<current, iflag, isr>> /\ current \in Thread
        BY <3>1 DEF Setup, TypeOK
      <4> QED BY <4>1, <4>2, <4>3, <4>4, <4>5 DEF InterruptDiscipline, Thread
    <3>2. CASE ~Setup(t)
      <4>1. UNCHANGED cpu
        BY <2>6, <3>2 DEF CreateStep, ReadPid, BumpPid, ReadTail, LinkHead, LinkNode,
                          Publish, CountUp, FirstTicks, SetParent
      <4> QED BY <4>1 DEF InterruptDiscipline
    <3> QED BY <3>1, <3>2
  <2>7. ASSUME NEW p \in Proc, FallAsleep(p) \/ ReadLinks(p) \/ BlockStep(p)
        PROVE  InterruptDiscipline'
    <3>1. CASE ExpireReturn(p)
      BY <3>1 DEF ExpireReturn, InterruptDiscipline
    <3>2. CASE ~Expire(p) /\ ~ExpireReturn(p)
      <4>1. UNCHANGED cpu
        BY <2>7, <3>2 DEF FallAsleep, ReadLinks, BlockStep, SetTimeout, Relink,
                          Unlink, FreeProcess, DropTicks
      <4> QED BY <4>1 DEF InterruptDiscipline
    <3> QED BY <2>2, <3>1, <3>2
  <2>8. CASE \E t \in Thread : Continue(t)
    BY <2>4, <2>5, <2>6, <2>7, <2>8, SchedulerAssumption
    DEF Continue, Boot, Thread, SchedulerAssumption
  <2>9. CASE \E p \in Proc : Call(p)
    BY <2>5, <2>7, <2>9 DEF Call, Thread
  <2>10. CASE UNCHANGED vars
    BY <2>10 DEF vars, InterruptDiscipline
  <2> QED BY <2>1, <2>3, <2>8, <2>9, <2>10 DEF Next, Stuck
<1> QED BY <1>1, <1>2, TypeCorrect, PTL DEF Spec

-----------------------------------------------------------------------------
(***************************************************************************)
(* A call of schedule() that gives any process ticks finds no ready process *)
(* with ticks left.                                                        *)
(***************************************************************************)
LEMMA ScheduleRefills ==
  ASSUME TypeOK, NEW pcs, NEW lines, Schedule(pcs, lines),
         NEW p \in Proc, ticks'[p] > ticks[p],
         NEW q \in Listed, state[q] = READY
  PROVE  ticks[q] = 0
<1>1. ticks[p] \in Nat /\ q \in Proc /\ ticks[q] \in Nat
  BY SchedulerAssumption DEF TypeOK, Listed, SchedulerAssumption
<1>2. WithTicks = {} => ticks[q] = 0
  <2>1. Released[q] = READY
    BY <1>1 DEF Released, Woken
  <2> QED BY <1>1, <2>1 DEF WithTicks, ReadyProcs
<1>3. WithTicks # {} => Refilled = ticks
  BY DEF Refilled, TypeOK
<1>4. CASE ScheduleOff(pcs, lines) \/ ScheduleLost(pcs, lines)
  BY <1>1, <1>4 DEF ScheduleOff, ScheduleLost, fields
<1>5. CASE ScheduleKeep(pcs, lines)
  <2>1. ticks'[p] \in {ticks[p], ticks[p] - 1}
    BY <1>5 DEF ScheduleKeep, TypeOK
  <2> QED BY <1>1, <2>1
<1>6. CASE ScheduleSpins(pcs, lines)
  BY <1>1, <1>2, <1>3, <1>6 DEF ScheduleSpins
<1>7. CASE ScheduleSwitch(pcs, lines)
  <2>1. PICK r \in Proc : ticks' = [Refilled EXCEPT ![r] = @ - 1]
    BY <1>7 DEF ScheduleSwitch
  <2>2. ASSUME WithTicks # {} PROVE ticks'[p] \in {ticks[p], ticks[p] - 1}
    BY <1>3, <2>1, <2>2 DEF TypeOK
  <2> QED BY <1>1, <1>2, <2>2
<1> QED BY <1>4, <1>5, <1>6, <1>7 DEF Schedule

(***************************************************************************)
(* Fresh ticks are given only when the ready processes have none left.     *)
(***************************************************************************)
THEOREM RoundsAreFair == Spec => NewRoundWhenUsedUp
<1> DEFINE Fair == \A p \in Proc : ticks'[p] > ticks[p] /\ ~FirstOnes(p)
                     => \A q \in Listed : state[q] = READY => ticks[q] = 0
<1>1. TypeOK /\ [Next]_vars => Fair
  <2> SUFFICES ASSUME TypeOK, [Next]_vars,
                      NEW p \in Proc, ticks'[p] > ticks[p], ~FirstOnes(p),
                      NEW q \in Listed, state[q] = READY
               PROVE  ticks[q] = 0
    OBVIOUS
  <2>1. ticks[p] \in Nat
    BY SchedulerAssumption DEF TypeOK, SchedulerAssumption
  <2> USE DEF links, fields, ids, locals, cpu, globals
  <2>2. ASSUME NEW i \in Irqs, Interrupt(i) PROVE ticks[q] = 0
    BY <2>2, ScheduleRefills DEF Interrupt
  <2>3. ASSUME NEW t \in Proc, Expire(t) PROVE ticks[q] = 0
    BY <2>3, ScheduleRefills DEF Expire
  <2>4. ASSUME NEW t \in Thread, FirstTicks(t) PROVE FALSE
    <3>1. newproc[t] # p /\ ticks' = [ticks EXCEPT ![newproc[t]] = Slice]
      BY <2>4 DEF FirstTicks, Step, FirstOnes
    <3> QED BY <2>1, <3>1 DEF TypeOK
  <2>5. ASSUME NEW t \in Thread, CreateStep(t) PROVE FALSE
    BY <2>1, <2>4, <2>5
    DEF CreateStep, ReadPid, BumpPid, ReadTail, LinkHead, LinkNode, Publish, Setup,
        CountUp, SetParent
  <2>6. ASSUME NEW t \in Proc, DropTicks(t) PROVE FALSE
    BY <2>1, <2>6 DEF DropTicks, TypeOK
  <2>7. ASSUME NEW t \in Proc, FallAsleep(t) \/ ReadLinks(t) \/ BlockStep(t)
        PROVE  ticks[q] = 0
    BY <2>1, <2>3, <2>6, <2>7
    DEF FallAsleep, ReadLinks, BlockStep, SetTimeout, Relink, Unlink, FreeProcess,
        ExpireReturn
  <2>8. ASSUME NEW t \in Thread, NEW r \in Proc, AllocProcess(t, r) PROVE FALSE
    <3>1. ticks' = [ticks EXCEPT ![r] = 0]
      BY <2>8 DEF AllocProcess
    <3> QED BY <2>1, <3>1 DEF TypeOK
  <2>9. CASE \E t \in Thread : Continue(t)
    BY <2>1, <2>5, <2>7, <2>8, <2>9, SchedulerAssumption
    DEF Continue, Boot, EnablePreempt, EnableInts, Thread, SchedulerAssumption
  <2>10. CASE \E t \in Proc : Call(t)
    BY <2>7, <2>8, <2>10 DEF Call, Thread
  <2>11. CASE IrqReturn \/ UNCHANGED vars
    BY <2>1, <2>11 DEF IrqReturn, vars
  <2> QED BY <2>2, <2>9, <2>10, <2>11 DEF Next, Stuck
<1> QED BY <1>1, TypeCorrect, PTL DEF Spec, NewRoundWhenUsedUp

-----------------------------------------------------------------------------
(* The run queue *)

-----------------------------------------------------------------------------
(* The walk *)

\* W is the walk along the links nx.
IsWalk(W, nx) ==
  W = CHOOSE g : g = [i \in Steps |->
        IF i = 0 THEN nx[ListHead]
        ELSE IF g[i-1] \in Proc THEN nx[g[i-1]] ELSE g[i-1]]

(***************************************************************************)
(* The recursive definition of the walk has a solution, so Walk has the    *)
(* values its definition gives it, step by step.                           *)
(***************************************************************************)
LEMMA WalkDef ==
  ASSUME NEW nx, nx \in [Link -> Ptr], NEW W, IsWalk(W, nx)
  PROVE  /\ W \in [Steps -> Ptr]
         /\ W[0] = nx[ListHead]
         /\ \A i \in Steps : i > 0 => W[i] = IF W[i-1] \in Proc THEN nx[W[i-1]] ELSE W[i-1]
<1> DEFINE n == Cardinality(Proc)
           F == [x \in Ptr |-> IF x \in Proc THEN nx[x] ELSE x]
           D(g) == [i \in Steps |-> IF i = 0 THEN nx[ListHead]
                      ELSE IF g[i-1] \in Proc THEN nx[g[i-1]] ELSE g[i-1]]
<1>1. n \in Nat
  BY SchedulerAssumption, FS_CardinalityType DEF SchedulerAssumption
<1>2. F \in [Ptr -> Ptr] /\ nx[ListHead] \in Ptr
  BY DEF Link, Ptr
<1>3. PICK g : Iteration(g, Ptr, F, nx[ListHead], n)
  <2> HIDE DEF n, F
  <2> QED BY <1>1, <1>2, IterationExists
<1>4. \A h : D(h) = [i \in Steps |-> D(h)[i]]
  OBVIOUS
<1>5. ASSUME NEW h, NEW i \in Steps
      PROVE  D(h)[i] = IF i = 0 THEN nx[ListHead]
                       ELSE IF h[i-1] \in Proc THEN nx[h[i-1]] ELSE h[i-1]
  OBVIOUS
<1>6. g = D(g)
  <2>1. g = [i \in Steps |-> g[i]]
    BY <1>3 DEF Steps, Iteration
  <2>2. ASSUME NEW i \in Steps PROVE g[i] = D(g)[i]
    <3> HIDE DEF D
    <3>1. CASE i = 0
      BY <1>3, <1>5, <3>1 DEF Iteration
    <3>2. CASE i # 0
      <4>1. i \in 1 .. n /\ i - 1 \in 0 .. n
        BY <1>1, <3>2 DEF Steps
      <4>2. g[i - 1] \in Ptr /\ g[i] = F[g[i - 1]]
        BY <1>3, <4>1 DEF Iteration
      <4> QED BY <1>5, <3>2, <4>2
    <3> QED BY <3>1, <3>2
  <2> HIDE DEF D
  <2> QED BY <1>4, <2>1, <2>2
<1>7. W = D(W)
  BY <1>6 DEF IsWalk
<1>8. /\ DOMAIN W = Steps /\ 0 \in Steps
      /\ W[0] = nx[ListHead]
      /\ \A i \in Steps : i > 0 => W[i] = IF W[i-1] \in Proc THEN nx[W[i-1]] ELSE W[i-1]
  <2>1. 0 \in Steps /\ \A i \in Steps : i > 0 => i # 0
    BY <1>1 DEF Steps
  <2>2. DOMAIN W = Steps
    BY <1>7
  <2>3. ASSUME NEW i \in Steps
        PROVE  W[i] = IF i = 0 THEN nx[ListHead]
                      ELSE IF W[i-1] \in Proc THEN nx[W[i-1]] ELSE W[i-1]
    <3>1. W[i] = D(W)[i]
      BY <1>7, Zenon
    <3> HIDE DEF D
    <3> QED BY <1>5, <3>1
  <2> QED BY <2>1, <2>2, <2>3
<1>9. \A i \in Steps : W[i] \in Ptr
  <2> DEFINE S == {i \in Nat : i \in Steps => W[i] \in Ptr}
  <2>1. 0 \in S
    BY <1>2, <1>8
  <2>2. ASSUME NEW i \in Nat, i \in S PROVE i + 1 \in S
    <3> SUFFICES ASSUME i + 1 \in Steps PROVE W[i + 1] \in Ptr
      OBVIOUS
    <3>1. i \in Steps /\ i + 1 > 0 /\ (i + 1) - 1 = i
      BY <1>1 DEF Steps
    <3>2. W[i] \in Ptr
      BY <2>2, <3>1
    <3>3. W[i + 1] = IF W[i] \in Proc THEN nx[W[i]] ELSE W[i]
      BY <1>8, <3>1
    <3> QED BY <3>2, <3>3 DEF Link, Ptr
  <2>3. Nat \subseteq S
    <3> HIDE DEF S
    <3> QED BY <2>1, <2>2, SetInduction
  <2> QED BY <1>1, <2>3 DEF Steps
<1> QED BY <1>4, <1>7, <1>8, <1>9

(***************************************************************************)
(* Forward links that form a queue are walked in its order, and the walk   *)
(* has come back to the head after at most one step per process.           *)
(***************************************************************************)
LEMMA WalkIsQueue ==
  ASSUME NEW nx, nx \in [Link -> Ptr], NEW W, IsWalk(W, nx),
         NEW q, q \in Seq(Proc),
         \A i, j \in 1 .. Len(q) : q[i] = q[j] => i = j,
         \A i \in 0 .. Len(q) : nx[Node(q, i)] = Node(q, i + 1)
  PROVE  /\ Len(q) \in Steps
         /\ \A i \in Steps : W[i] = Node(q, i + 1)
<1>1. /\ Cardinality(Proc) \in Nat /\ Len(q) \in Nat
      /\ q \in [1 .. Len(q) -> Proc]
  BY SchedulerAssumption, FS_CardinalityType DEF SchedulerAssumption
<1>2. Len(q) \in Steps
  <2>1. q \in Injection(1 .. Len(q), Proc)
    BY <1>1 DEF Injection, IsInjective
  <2>2. Cardinality(1 .. Len(q)) <= Cardinality(Proc)
    <3>1. IsFiniteSet(Proc)
      BY SchedulerAssumption DEF SchedulerAssumption
    <3> HIDE DEF Injection
    <3> QED BY <2>1, <3>1, FS_Injection, Zenon
  <2>3. Cardinality(1 .. Len(q)) = Len(q)
    <3>1. 1 \in Int /\ Len(q) \in Int
      BY <1>1
    <3>2. Cardinality(1 .. Len(q)) = IF 1 > Len(q) THEN 0 ELSE Len(q) - 1 + 1
      BY <3>1, FS_Interval, Zenon
    <3> QED BY <1>1, <3>2
  <2> QED BY <1>1, <2>2, <2>3 DEF Steps
<1>3. /\ W[0] = nx[ListHead]
      /\ \A i \in Steps : i > 0 => W[i] = IF W[i-1] \in Proc THEN nx[W[i-1]] ELSE W[i-1]
  BY WalkDef
<1>4. \A i \in Steps : W[i] = Node(q, i + 1)
  <2> DEFINE S == {i \in Nat : i \in Steps => W[i] = Node(q, i + 1)}
  <2>1. 0 \in S
    <3>1. Node(q, 0) = ListHead
      BY DEF Node
    <3> QED BY <1>1, <1>3, <3>1
  <2>2. ASSUME NEW i \in Nat, i \in S PROVE i + 1 \in S
    <3> SUFFICES ASSUME i + 1 \in Steps PROVE W[i + 1] = Node(q, (i + 1) + 1)
      OBVIOUS
    <3>1. i \in Steps /\ i + 1 > 0 /\ (i + 1) - 1 = i
      BY <1>1 DEF Steps
    <3>2. W[i] = Node(q, i + 1)
      BY <2>2, <3>1
    <3>3. W[i + 1] = IF W[i] \in Proc THEN nx[W[i]] ELSE W[i]
      BY <1>3, <3>1
    <3>4. CASE i + 1 \in 1 .. Len(q)
      <4>1. Node(q, i + 1) \in Proc
        BY <1>1, <3>4 DEF Node
      <4>2. nx[Node(q, i + 1)] = Node(q, (i + 1) + 1)
        BY <1>1, <3>4
      <4> QED BY <3>2, <3>3, <4>1, <4>2
    <3>5. CASE i + 1 \notin 1 .. Len(q)
      <4>1. Node(q, i + 1) = ListHead /\ Node(q, (i + 1) + 1) = ListHead
        BY <1>1, <3>5 DEF Node
      <4> QED BY <3>2, <3>3, <4>1, SchedulerAssumption DEF SchedulerAssumption
    <3> QED BY <3>4, <3>5
  <2>3. Nat \subseteq S
    <3> HIDE DEF S
    <3> QED BY <2>1, <2>2, SetInduction
  <2> QED BY <1>1, <2>3 DEF Steps
<1> QED BY <1>2, <1>4

(***************************************************************************)
(* What schedule() sees when the forward links form the queue q: the walk  *)
(* comes back to the head, meets exactly the members of q, and meets them  *)
(* in the order of q.                                                      *)
(***************************************************************************)
LEMMA QueueFacts ==
  ASSUME TypeOK, NEW q \in Seq(Proc), Forward(q)
  PROVE  /\ ListSound
         /\ Listed = Members(q)
         /\ Queue = q
         /\ \A i, j \in 1 .. Len(q) : Before(q[i], q[j]) <=> i < j
<1>1. Len(q) \in Steps /\ \A i \in Steps : Walk[i] = Node(q, i + 1)
  <2>1. IsWalk(Walk, next)
    BY DEF Walk, IsWalk
  <2>2. /\ next \in [Link -> Ptr]
        /\ \A i, j \in 1 .. Len(q) : q[i] = q[j] => i = j
        /\ \A i \in 0 .. Len(q) : next[Node(q, i)] = Node(q, i + 1)
    BY DEF TypeOK, Forward
  <2> QED BY <2>1, <2>2, WalkIsQueue
<1>2. /\ Cardinality(Proc) \in Nat /\ Len(q) \in Nat
      /\ q \in [1 .. Len(q) -> Proc] /\ ListHead \notin Proc
  BY SchedulerAssumption, FS_CardinalityType DEF SchedulerAssumption
<1>3. Walk[Len(q)] = ListHead
  BY <1>1, <1>2 DEF Node
<1>4. \A i \in 1 .. Len(q) : i - 1 \in Steps /\ Walk[i - 1] = q[i]
  BY <1>1, <1>2 DEF Node, Steps
<1>5. \A i \in Steps : Walk[i] \in Proc => i + 1 \in 1 .. Len(q) /\ Walk[i] = q[i + 1]
  BY <1>1, <1>2 DEF Node
<1>6. Listed = Members(q)
  BY <1>2, <1>4, <1>5 DEF Listed, Members
<1>7. Queue = q
  <2> DEFINE P(i) == Walk[i] = ListHead /\ \A j \in 0 .. i - 1 : Walk[j] # ListHead
  <2>1. Len(q) \in Steps /\ P(Len(q))
    <3>1. ASSUME NEW j \in 0 .. Len(q) - 1 PROVE Walk[j] # ListHead
      <4>1. j + 1 \in 1 .. Len(q) /\ (j + 1) - 1 = j
        BY <1>2
      <4>2. Walk[j] = q[j + 1]
        BY <1>4, <4>1
      <4> QED BY <1>2, <4>1, <4>2
    <3> QED BY <1>1, <1>3, <3>1
  <2>2. ASSUME NEW i \in Steps, P(i) PROVE i = Len(q)
    <3>1. i \in Nat
      BY <1>2 DEF Steps
    <3>2. ~(i < Len(q))
      <4> SUFFICES ASSUME i < Len(q) PROVE FALSE
        OBVIOUS
      <4>1. i + 1 \in 1 .. Len(q) /\ (i + 1) - 1 = i
        BY <1>2, <3>1
      <4> QED BY <1>2, <1>4, <2>2, <4>1
    <3>3. ~(Len(q) < i)
      BY <1>2, <1>3, <2>2, <3>1
    <3>4. Len(q) \in Nat
      BY <1>2
    <3> QED BY <3>1, <3>2, <3>3, <3>4
  <2>3. (CHOOSE i \in Steps : P(i)) = Len(q)
    <3>1. (CHOOSE i \in Steps : P(i)) \in Steps /\ P(CHOOSE i \in Steps : P(i))
      <4> HIDE DEF P
      <4> QED BY <2>1, Zenon
    <3> QED BY <2>2, <3>1, Zenon
  <2>4. Queue = [i \in 1 .. Len(q) |-> Walk[i - 1]]
    BY <2>3 DEF Queue
  <2> QED BY <1>2, <1>4, <2>4
<1>8. ASSUME NEW i \in 1 .. Len(q), NEW j \in 1 .. Len(q)
      PROVE  Before(q[i], q[j]) <=> i < j
  <2>1. i < j => Before(q[i], q[j])
    <3>1. i < j => i - 1 < j - 1
      BY <1>2
    <3> QED BY <1>4, <3>1 DEF Before
  <2>2. ASSUME Before(q[i], q[j]) PROVE i < j
    <3>1. PICK k \in Steps, l \in Steps : k < l /\ Walk[k] = q[i] /\ Walk[l] = q[j]
      BY <2>2 DEF Before
    <3>2. k + 1 \in 1 .. Len(q) /\ q[k + 1] = q[i] /\ l + 1 \in 1 .. Len(q) /\ q[l + 1] = q[j]
      BY <1>2, <1>5, <3>1
    <3>3. k + 1 = i /\ l + 1 = j
      BY <3>2 DEF Forward
    <3> QED BY <1>2, <3>1, <3>3 DEF Steps
  <2> QED BY <2>1, <2>2
<1> QED BY <1>1, <1>3, <1>6, <1>7, <1>8 DEF ListSound

-----------------------------------------------------------------------------
(***************************************************************************)
(* The nodes of a queue.                                                   *)
(***************************************************************************)
LEMMA QueueNodes ==
  ASSUME NEW q \in Seq(Proc)
  PROVE  /\ Len(q) \in Nat /\ q \in [1 .. Len(q) -> Proc]
         /\ Members(q) \subseteq Proc
         /\ \A i \in 1 .. Len(q) : Node(q, i) = q[i] /\ q[i] \in Members(q)
         /\ \A p \in Members(q) : \E i \in 1 .. Len(q) : q[i] = p
         /\ \A i \in Int : Node(q, i) \in Members(q) \cup {ListHead}
         /\ Node(q, 0) = ListHead /\ Node(q, Len(q) + 1) = ListHead
<1>1. Len(q) \in Nat /\ q \in [1 .. Len(q) -> Proc]
  OBVIOUS
<1> QED BY <1>1 DEF Members, Node

(***************************************************************************)
(* A step outside the list operations that leaves the links of allocated   *)
(* blocks alone leaves the queue as it is.                                 *)
(***************************************************************************)
LEMMA LinksKept ==
  ASSUME NEW q \in Seq(Proc), TypeOK, IsQueue(q),
         \A l \in mem \cup {ListHead} : next'[l] = next[l] /\ prev'[l] = prev[l],
         \A t \in Thread : pc[t] \in ListOpPc \/ pc'[t] \in ListOpPc =>
           /\ pc'[t] = pc[t] /\ newproc'[t] = newproc[t]
           /\ rprev'[t] = rprev[t] /\ rnext'[t] = rnext[t]
  PROVE  Forward(q)' /\ Backward(q)' /\ Adding(q)' /\ Removing(q)'
<1> USE QueueNodes
<1>1. \A i \in Int : Node(q, i) \in mem \cup {ListHead}
  BY DEF IsQueue, Blocks
<1>2. \A t \in Thread : \A l \in {"c_node", "c_publish", "c_headprev", "e_relink", "e_unlink"} :
        pc'[t] = l <=> pc[t] = l
  BY DEF ListOpPc
<1>3. \A p \in Members(q) : p \in Thread
  BY DEF Thread
<1>4. Forward(q)'
  <2>1. \A i \in 0 .. Len(q) : i \in Int
    OBVIOUS
  <2> QED BY <1>1, <2>1 DEF IsQueue, Forward
<1>5. Backward(q)'
  <2> SUFFICES ASSUME NEW i \in 0 .. Len(q)
               PROVE  \/ prev'[Node(q, i + 1)] = Node(q, i)
                      \/ i = Len(q) /\ \E t \in Thread : pc'[t] \in {"c_node", "c_publish"}
                      \/ i > 0 /\ pc'[q[i]] = "e_unlink"
    BY DEF Backward
  <2>1. i + 1 \in Int /\ (i > 0 => i \in 1 .. Len(q))
    OBVIOUS
  <2>2. i > 0 => q[i] \in Thread
    BY <1>3, <2>1
  <2> QED BY <1>1, <1>2, <2>1, <2>2 DEF IsQueue, Backward
<1>6. Adding(q)'
  <2> SUFFICES ASSUME NEW t \in Thread, pc'[t] \in {"c_headprev", "c_node", "c_publish"}
               PROVE  /\ rprev'[t] = Node(q, Len(q))
                      /\ pc'[t] \in {"c_node", "c_publish"} => prev'[ListHead] = newproc'[t]
                      /\ pc'[t] = "c_publish" => /\ next'[newproc'[t]] = ListHead
                                                /\ prev'[newproc'[t]] = rprev'[t]
    BY DEF Adding
  <2>1. pc'[t] = pc[t] /\ newproc'[t] = newproc[t] /\ rprev'[t] = rprev[t]
    BY <1>2 DEF ListOpPc
  <2>2. newproc[t] \in mem
    BY <2>1 DEF IsQueue, Blocks, Filling
  <2> QED BY <2>1, <2>2 DEF IsQueue, Adding
<1>7. Removing(q)'
  <2> SUFFICES ASSUME NEW p \in Proc, pc'[p] \in {"e_relink", "e_unlink"}
               PROVE  \E i \in 1 .. Len(q) :
                        /\ q[i] = p /\ rprev'[p] = Node(q, i - 1) /\ rnext'[p] = Node(q, i + 1)
                        /\ pc'[p] = "e_unlink" => prev'[rnext'[p]] = rprev'[p]
    BY DEF Removing
  <2>1. pc'[p] = pc[p] /\ rprev'[p] = rprev[p] /\ rnext'[p] = rnext[p]
    BY DEF ListOpPc, Thread
  <2>2. PICK i \in 1 .. Len(q) :
          /\ q[i] = p /\ rprev[p] = Node(q, i - 1) /\ rnext[p] = Node(q, i + 1)
          /\ pc[p] = "e_unlink" => prev[rnext[p]] = rprev[p]
    BY <2>1 DEF IsQueue, Removing
  <2>3. Node(q, i + 1) \in mem \cup {ListHead}
    <3>1. i + 1 \in Int
      OBVIOUS
    <3> QED BY <1>1, <3>1
  <2>4. prev'[rnext'[p]] = prev[rnext[p]]
    BY <2>1, <2>2, <2>3
  <2> QED BY <2>1, <2>2, <2>4
<1> QED BY <1>4, <1>5, <1>6, <1>7

(***************************************************************************)
(* The block that kmalloc() returns is on no queue and in no other call.   *)
(***************************************************************************)
LEMMA AllocQueue ==
  ASSUME NEW q \in Seq(Proc), TypeOK, IsQueue(q), TypeOK',
         NEW t \in Thread, NEW p \in Proc, AllocProcess(t, p)
  PROVE  IsQueue(q)'
<1> USE QueueNodes
<1>1. /\ current = t /\ pc[t] \in {"spawn_core", "user"} /\ p \notin mem
      /\ t = None => pc[t] = "spawn_core" /\ p = Core
      /\ t # None => t \in Proc /\ pc[t] = "user"
  BY DEF AllocProcess, MayCreate, At, Thread
<1>2. /\ pc' = [pc EXCEPT ![t] = "c_pid"] /\ newproc' = [newproc EXCEPT ![t] = p]
      /\ state' = [state EXCEPT ![p] = ZEROED] /\ ticks' = [ticks EXCEPT ![p] = 0]
      /\ mem' = mem \cup {p}
      /\ next' = [next EXCEPT ![p] = None] /\ prev' = [prev EXCEPT ![p] = None]
      /\ UNCHANGED <<current, count, kernel_preempt, rprev, rnext>>
  BY DEF AllocProcess, cpu
<1>3. t # None => t \in Members(q) /\ state[t] = RUNNING /\ count > 0 /\ kernel_preempt
  BY <1>1 DEF IsQueue, OnCpu
<1>4. p # t /\ p \notin Members(q) /\ \A u \in Thread : pc[u] \in Filling => newproc[u] # p
  BY <1>1, <1>3, SchedulerAssumption DEF IsQueue, Blocks, SchedulerAssumption, Link
<1>5. \A u \in Thread \ {t} : pc'[u] = pc[u] /\ newproc'[u] = newproc[u]
  BY <1>2 DEF TypeOK
<1>6. pc'[t] = "c_pid" /\ newproc'[t] = p
  BY <1>2 DEF TypeOK
<1>7. \A r \in Proc \ {p} : state'[r] = state[r] /\ ticks'[r] = ticks[r]
  BY <1>2 DEF TypeOK
<1>8. state'[p] = ZEROED /\ ticks'[p] = 0
  BY <1>2 DEF TypeOK
<1>9. Forward(q)' /\ Backward(q)' /\ Adding(q)' /\ Removing(q)'
  <2>1. \A l \in mem \cup {ListHead} : next'[l] = next[l] /\ prev'[l] = prev[l]
    BY SMTT(30), <1>1, <1>2, SchedulerAssumption DEF TypeOK, SchedulerAssumption, Link
  <2>2. \A u \in Thread : pc[u] \in ListOpPc \/ pc'[u] \in ListOpPc =>
           /\ pc'[u] = pc[u] /\ newproc'[u] = newproc[u]
           /\ rprev'[u] = rprev[u] /\ rnext'[u] = rnext[u]
    BY <1>1, <1>2, <1>5, <1>6 DEF ListOpPc
  <2> QED BY <2>1, <2>2, LinksKept
<1>10. Blocks(q)'
  <2>1. \A u \in Thread : pc[u] \in Filling => newproc[u] \in Proc
    BY DEF TypeOK, Filling, CreatePc
  <2> QED BY <1>2, <1>4, <1>5, <1>6, <1>7, <1>8, <2>1 DEF IsQueue, Blocks, Filling
<1>11. Threads(q)'
  <2> SUFFICES ASSUME NEW r \in Proc
               PROVE  /\ pc'[r] \in InCall => Alive(q, r)'
                      /\ Alive(q, r)' => pc'[r] \in InCall \cup {"user", "findproc"}
                      /\ state'[r] = SLEEPING => r \in Members(q) /\ pc'[r] \in SleepPc \cup {"findproc"}
    BY DEF Threads
  <2>1. CASE r = p
    BY <1>4, <1>5, <1>8, <2>1 DEF IsQueue, Threads, Alive, Thread, SLEEPING, ZEROED
  <2>2. CASE r = t
    BY <1>3, <1>4, <1>6, <1>7, <2>2, SchedulerAssumption
    DEF Alive, InCall, CreatePc, SLEEPING, ZEROED, RUNNING, SchedulerAssumption, Link
  <2>3. CASE r # p /\ r # t
    BY <1>5, <1>7, <2>3 DEF IsQueue, Threads, Alive, Thread
  <2> QED BY <2>1, <2>2, <2>3
<1>12. OnCpu(q)'
  <2>1. current' = t /\ (t \in Proc => t # None)
    BY <1>1, <1>2, SchedulerAssumption DEF SchedulerAssumption, Link
  <2>2. t # None => kernel_preempt' /\ count' > 0
    BY <1>2, <1>3, Zenon
  <2>3. t # None => state'[t] = RUNNING /\ t \in Members(q)
    BY <1>1, <1>3, <1>4, <1>7
  <2> QED BY <1>6, <2>1, <2>2, <2>3 DEF OnCpu, ZEROED, RUNNING
<1>13. Booted(q)'
  <2>1. None \in Thread /\ Core \in Proc /\ Core \in Thread /\ None # Core
    BY SchedulerAssumption DEF SchedulerAssumption, Thread, Link
  <2>2. count = 0 \/ t # None
    <3>1. count \in Nat
      BY SchedulerAssumption DEF TypeOK, SchedulerAssumption
    <3>2. t = None => ~(count > 0)
      BY <1>1 DEF IsQueue, Booted
    <3> QED BY <3>1, <3>2
  <2>3. pc'[Core] \in {"e_relink", "e_unlink"} => pc[Core] \in {"e_relink", "e_unlink"}
    BY <1>5, <1>6, <2>1
  <2>4. pc'[None] = "c_count" => pc[None] = "c_count"
    BY <1>5, <1>6, <2>1
  <2> QED BY <1>1, <1>2, <1>4, <1>5, <1>6, <1>7, <2>1, <2>2, <2>3, <2>4
          DEF IsQueue, Booted, CreatePc
<1> QED BY <1>9, <1>10, <1>11, <1>12, <1>13 DEF IsQueue

\* The statements, and the ones after them, that concern neither the links nor
\* the state of a process.
QuietMoves ==
  {<<"enable_preempt", "enable_ints">>, <<"enable_ints", "spawn_core">>,
   <<"c_pid", "c_pidcnt">>, <<"c_pidcnt", "c_tail">>, <<"c_count", "c_ticks">>,
   <<"c_ticks", "c_parent">>, <<"c_parent", "user">>,
   <<"s_timeout", "s_ticks">>, <<"s_ticks", "s_expire">>, <<"s_return", "user">>,
   <<"e_ticks", "e_expire">>}

QuietMove(t, l, m) ==
  /\ <<l, m>> \in QuietMoves
  /\ current = t /\ pc[t] = l /\ pc' = [pc EXCEPT ![t] = m]
  /\ UNCHANGED <<next, prev, rprev, rnext, state, mem, current>>
  /\ \A u \in Thread : newproc'[u] = newproc[u] \/ (u = t /\ m = "user")
  /\ \A r \in Proc : ticks'[r] = ticks[r] \/ ticks'[r] \in {0, Slice}
  /\ m \in {"s_expire", "e_expire"} => t \in Proc /\ ticks'[t] = 0
  /\ kernel_preempt => kernel_preempt'
  /\ count' = count \/ (l = "c_count" /\ count' > 0)

(***************************************************************************)
(* Such a statement keeps the queue.                                       *)
(***************************************************************************)
LEMMA QuietQueue ==
  ASSUME NEW q \in Seq(Proc), TypeOK, IsQueue(q), TypeOK',
         NEW t, t \in Thread, NEW l, NEW m, QuietMove(t, l, m)
  PROVE  IsQueue(q)'
<1> USE QueueNodes DEF QuietMove
<1>1. \A u \in Thread \ {t} : pc'[u] = pc[u] /\ newproc'[u] = newproc[u]
  BY DEF TypeOK
<1>2. pc'[t] = m
  BY DEF TypeOK
<1>3. /\ l \notin ListOpPc /\ m \notin ListOpPc
      /\ m \in Filling <=> l \in Filling
      /\ m \in Filling => m # "user" /\ l # "c_setup" /\ m # "c_setup"
      /\ m \in InCall => l \in InCall
      /\ l \in InCall => m \in InCall \cup {"user"}
      /\ l \in SleepPc => m \in SleepPc \/ l = "s_return"
      /\ l \in CreatePc \/ l = "s_return" <=> m \in CreatePc \cup {"user", "s_return"}
      /\ m \in {"e_free", "e_ticks", "findproc"} => FALSE
      /\ m = "e_expire" <=> l = "e_ticks"
      /\ l \in BootPc \cup CreatePc => m \in BootPc \cup CreatePc \cup {"user"}
      /\ l \in {"c_ticks", "c_parent", "c_count"} => m \in {"c_ticks", "c_parent", "user"}
      /\ m = "c_count" => FALSE
      /\ m \in CreatePc => l \in CreatePc /\ m # "user"
      /\ l \notin {"user", "findproc", "e_free", "e_expire"}
      /\ m \notin {"e_relink", "e_unlink"}
  BY DEF QuietMoves, ListOpPc, Filling, InCall, CreatePc, SleepPc, BootPc
<1>4. Forward(q)' /\ Backward(q)' /\ Adding(q)' /\ Removing(q)'
  <2>1. \A k \in mem \cup {ListHead} : next'[k] = next[k] /\ prev'[k] = prev[k]
    OBVIOUS
  <2>2. \A u \in Thread : pc[u] \in ListOpPc \/ pc'[u] \in ListOpPc =>
           /\ pc'[u] = pc[u] /\ newproc'[u] = newproc[u]
           /\ rprev'[u] = rprev[u] /\ rnext'[u] = rnext[u]
    BY <1>1, <1>2, <1>3
  <2> QED BY <2>1, <2>2, LinksKept
<1>5. Blocks(q)'
  <2>1. \A u \in Thread : pc'[u] \in Filling =>
          /\ pc[u] \in Filling /\ newproc'[u] = newproc[u]
          /\ pc'[u] = "c_setup" <=> pc[u] = "c_setup"
          /\ newproc[u] \in Proc
    BY <1>1, <1>2, <1>3 DEF TypeOK, Filling, CreatePc
  <2> QED BY <2>1 DEF IsQueue, Blocks
<1>6. Threads(q)'
  <2> SUFFICES ASSUME NEW r \in Proc
               PROVE  /\ pc'[r] \in InCall => Alive(q, r)
                      /\ Alive(q, r) => pc'[r] \in InCall \cup {"user", "findproc"}
                      /\ state[r] = SLEEPING => r \in Members(q) /\ pc'[r] \in SleepPc \cup {"findproc"}
    BY DEF Threads, Alive
  <2>1. CASE r = t
    <3>1. l = "s_return" => state[t] = RUNNING
      BY <2>1 DEF IsQueue, OnCpu
    <3>2. r \in Thread /\ pc[r] = l
      BY <2>1
    <3> QED BY <1>2, <1>3, <2>1, <3>1, <3>2
            DEF IsQueue, Threads, Alive, RUNNING, SLEEPING
  <2>2. CASE r # t
    BY <1>1, <2>2 DEF IsQueue, Threads, Alive, Thread
  <2> QED BY <2>1, <2>2
<1>7. OnCpu(q)'
  <2> SUFFICES ASSUME t \in Proc PROVE OnCpu(q)'
    BY DEF OnCpu
  <2>1. kernel_preempt /\ count > 0 /\ state[t] # ZEROED
    BY DEF IsQueue, OnCpu
  <2>2. kernel_preempt' /\ count' > 0
    BY <2>1, Zenon
  <2>3. t \in Members(q) \/ m = "e_expire"
    BY <1>3 DEF IsQueue, OnCpu
  <2>4. m \in CreatePc \cup {"user", "s_return"} => state[t] = RUNNING
    BY <1>3 DEF IsQueue, OnCpu
  <2>5. m = "s_expire" => ~(ticks'[t] > 0)
    OBVIOUS
  <2> QED BY <1>2, <1>3, <2>1, <2>2, <2>3, <2>4, <2>5 DEF OnCpu
<1>8. Booted(q)'
  <2>1. None \in Thread /\ Core \in Proc /\ Core \in Thread /\ None # Core /\ None \notin Proc
    BY SchedulerAssumption DEF SchedulerAssumption, Thread, Link
  <2>2. count' > 0 => count > 0 \/ (t = None /\ pc[None] = "c_count")
    <3>1. CASE t = None
      BY <3>1
    <3>2. CASE t \in Proc
      BY <3>2 DEF IsQueue, OnCpu
    <3> QED BY <3>1, <3>2 DEF Thread
  <2>3. pc'[Core] \notin {"e_relink", "e_unlink"} \/ pc'[Core] = pc[Core]
    BY <1>1, <1>2, <1>3, <2>1
  <2>4. pc'[None] = "c_count" => pc[None] = "c_count"
    BY <1>1, <1>2, <1>3, <2>1
  <2>5. CASE t = None
    BY <1>2, <1>3, <2>1, <2>2, <2>3, <2>4, <2>5 DEF IsQueue, Booted
  <2>6. CASE t # None
    BY <1>1, <1>3, <2>1, <2>2, <2>3, <2>4, <2>6 DEF IsQueue, Booted
  <2> QED BY <2>5, <2>6
<1> QED BY <1>4, <1>5, <1>6, <1>7, <1>8 DEF IsQueue

(***************************************************************************)
(* The statements this covers.                                             *)
(***************************************************************************)
LEMMA QuietSteps ==
  ASSUME NEW q \in Seq(Proc), TypeOK, IsQueue(q), TypeOK',
         \/ EnablePreempt \/ EnableInts
         \/ \E t \in Thread : ReadPid(t) \/ BumpPid(t) \/ CountUp(t) \/ FirstTicks(t) \/ SetParent(t)
         \/ \E p \in Proc : SetTimeout(p) \/ DropTicks(p) \/ ExpireReturn(p)
  PROVE  IsQueue(q)'
<1>0. \A t \in Thread : \A l, m : QuietMove(t, l, m) => IsQueue(q)'
  BY QuietQueue
<1>t. None \in Thread /\ Proc \subseteq Thread
  BY DEF Thread
<1> USE DEF Step, At, links, fields, ids, locals, cpu, globals, QuietMoves, QuietMove
<1>1. CASE EnablePreempt
  <2>1. QuietMove(None, "enable_preempt", "enable_ints")
    BY <1>1 DEF EnablePreempt
  <2> QED BY <1>0, <1>t, <2>1
<1>2. CASE EnableInts
  <2>1. QuietMove(None, "enable_ints", "spawn_core")
    BY <1>2 DEF EnableInts
  <2> QED BY <1>0, <1>t, <2>1
<1>3. ASSUME NEW t \in Thread, ReadPid(t) PROVE IsQueue(q)'
  <2>1. QuietMove(t, "c_pid", "c_pidcnt")
    BY <1>3 DEF ReadPid
  <2> QED BY <1>0, <1>t, <2>1
<1>4. ASSUME NEW t \in Thread, BumpPid(t) PROVE IsQueue(q)'
  <2>1. QuietMove(t, "c_pidcnt", "c_tail")
    BY <1>4 DEF BumpPid
  <2> QED BY <1>0, <1>t, <2>1
<1>5. ASSUME NEW t \in Thread, CountUp(t) PROVE IsQueue(q)'
  <2>1. count' > 0
    BY <1>5, SchedulerAssumption DEF CountUp, TypeOK, SchedulerAssumption
  <2>2. QuietMove(t, "c_count", "c_ticks")
    BY <1>5, <2>1 DEF CountUp
  <2> QED BY <1>0, <1>t, <2>2
<1>6. ASSUME NEW t \in Thread, FirstTicks(t) PROVE IsQueue(q)'
  <2>1. \A r \in Proc : ticks'[r] = ticks[r] \/ ticks'[r] \in {0, Slice}
    BY <1>6 DEF FirstTicks, TypeOK
  <2>2. QuietMove(t, "c_ticks", "c_parent")
    BY <1>6, <2>1 DEF FirstTicks
  <2> QED BY <1>0, <1>t, <2>2
<1>7. ASSUME NEW t \in Thread, SetParent(t) PROVE IsQueue(q)'
  <2>1. \A u \in Thread : newproc'[u] = newproc[u] \/ u = t
    BY <1>7 DEF SetParent, TypeOK
  <2>2. QuietMove(t, "c_parent", "user")
    BY <1>7, <2>1 DEF SetParent
  <2> QED BY <1>0, <1>t, <2>2
<1>8. ASSUME NEW p \in Proc, SetTimeout(p) PROVE IsQueue(q)'
  <2>1. QuietMove(p, "s_timeout", "s_ticks")
    BY <1>8 DEF SetTimeout
  <2> QED BY <1>0, <1>t, <2>1
<1>9. ASSUME NEW p \in Proc, DropTicks(p) PROVE IsQueue(q)'
  <2>1. /\ \A r \in Proc : ticks'[r] = ticks[r] \/ ticks'[r] \in {0, Slice}
        /\ ticks'[p] = 0
    BY <1>9 DEF DropTicks, TypeOK
  <2>2. QuietMove(p, "s_ticks", "s_expire") \/ QuietMove(p, "e_ticks", "e_expire")
    BY <1>9, <2>1 DEF DropTicks
  <2> QED BY <1>0, <1>t, <2>2
<1>10. ASSUME NEW p \in Proc, ExpireReturn(p) PROVE IsQueue(q)'
  <2>1. pc[p] # "e_return"
    BY <1>10 DEF ExpireReturn, IsQueue, OnCpu, Threads, Alive, InCall, CreatePc, SleepPc
  <2>2. QuietMove(p, "s_return", "user")
    BY <1>10, <2>1 DEF ExpireReturn
  <2> QED BY <1>0, <1>t, <2>2
<1> QED BY <1>1, <1>2, <1>3, <1>4, <1>5, <1>6, <1>7, <1>8, <1>9, <1>10

-----------------------------------------------------------------------------
(***************************************************************************)
(* What the statements of list_add_tail() and list_del() before the one    *)
(* that changes the queue leave alone.                                     *)
(***************************************************************************)
ListMove(t, l, m) ==
  /\ <<l, m>> \in {<<"c_tail", "c_headprev">>, <<"c_headprev", "c_node">>,
                   <<"c_node", "c_publish">>, <<"user", "e_relink">>,
                   <<"e_relink", "e_unlink">>}
  /\ m \in {"e_relink", "e_unlink"} => t \in Proc
  /\ m = "e_relink" => t \in Enders
  /\ current = t /\ pc[t] = l /\ pc' = [pc EXCEPT ![t] = m]
  /\ UNCHANGED <<fields, newproc, mem, current, count, kernel_preempt>>

(***************************************************************************)
(* The statements of list_add_tail() and list_del() that no walk notices   *)
(* are list moves: they change one thread, one back link and the node that *)
(* is not published yet.                                                   *)
(***************************************************************************)
LEMMA ListMoves ==
  ASSUME NEW q \in Seq(Proc), TypeOK, IsQueue(q),
         NEW t, t \in Thread, NEW l, NEW m, ListMove(t, l, m)
  PROVE  /\ Blocks(q)' /\ Threads(q)' /\ OnCpu(q)' /\ Booted(q)'
         /\ \A u \in Thread \ {t} : pc'[u] = pc[u]
         /\ pc'[t] = m
<1> USE QueueNodes DEF ListMove, fields
<1>1. \A u \in Thread \ {t} : pc'[u] = pc[u]
  BY DEF TypeOK
<1>2. pc'[t] = m
  BY DEF TypeOK
<1>3. /\ m \in Filling <=> l \in Filling
      /\ l # "c_setup" /\ m # "c_setup"
      /\ m \in InCall /\ l \in InCall \cup {"user"} /\ l \notin SleepPc \cup {"findproc"}
      /\ m \notin {"e_free", "e_ticks", "findproc", "e_expire", "s_expire", "c_count"}
      /\ l \notin {"e_free", "e_ticks", "findproc", "e_expire", "s_expire", "c_count"}
      /\ m \in CreatePc \cup {"user", "s_return"} => l \in CreatePc
      /\ l \in BootPc \cup CreatePc => m \in CreatePc
      /\ l \notin {"c_ticks", "c_parent"}
      /\ m \in CreatePc => l \in CreatePc
      /\ m = "e_unlink" => l = "e_relink"
      /\ m \in CreatePc \cup {"e_relink", "e_unlink"}
      /\ m \in CreatePc => m \notin {"e_relink", "e_unlink"}
  BY DEF Filling, InCall, CreatePc, SleepPc, BootPc
<1>4. Blocks(q)'
  <2>1. \A u \in Thread : /\ pc'[u] \in Filling <=> pc[u] \in Filling
                          /\ pc'[u] = "c_setup" <=> pc[u] = "c_setup"
    BY <1>1, <1>2, <1>3
  <2> QED BY <2>1 DEF IsQueue, Blocks
<1>5. Threads(q)'
  <2> SUFFICES ASSUME NEW r \in Proc
               PROVE  /\ pc'[r] \in InCall => Alive(q, r)
                      /\ Alive(q, r) => pc'[r] \in InCall \cup {"user", "findproc"}
                      /\ state[r] = SLEEPING => r \in Members(q) /\ pc'[r] \in SleepPc \cup {"findproc"}
    BY DEF Threads, Alive
  <2>1. CASE r = t
    <3>1. Alive(q, r)
      BY <1>3, <2>1 DEF IsQueue, OnCpu, Alive
    <3> QED BY <1>2, <1>3, <2>1, <3>1 DEF IsQueue, Threads
  <2>2. CASE r # t
    BY <1>1, <2>2 DEF IsQueue, Threads, Alive, Thread
  <2> QED BY <2>1, <2>2
<1>6. OnCpu(q)'
  <2> SUFFICES ASSUME t \in Proc PROVE OnCpu(q)'
    BY DEF OnCpu
  <2>1. kernel_preempt' /\ count' > 0 /\ state'[t] # ZEROED
    BY DEF IsQueue, OnCpu
  <2>2. t \in Members(q)
    BY <1>3 DEF IsQueue, OnCpu
  <2>3. m \in CreatePc \cup {"user", "s_return"} => state'[t] = RUNNING
    BY <1>3 DEF IsQueue, OnCpu
  <2> QED BY <1>2, <1>3, <2>1, <2>2, <2>3 DEF OnCpu
<1>7. Booted(q)'
  <2>1. None \in Thread /\ Core \in Proc /\ Core \in Thread /\ None # Core /\ None \notin Proc
    BY SchedulerAssumption DEF SchedulerAssumption, Thread, Link
  <2>2. Core \notin Enders /\ pc[Core] \notin {"e_relink", "e_unlink"}
          => pc'[Core] \notin {"e_relink", "e_unlink"}
    BY <1>1, <1>2, <1>3, <2>1
  <2>3. pc'[None] = "c_count" => pc[None] = "c_count"
    BY <1>1, <1>2, <1>3, <2>1
  <2>4. CASE t = None
    BY <1>2, <1>3, <2>1, <2>2, <2>3, <2>4 DEF IsQueue, Booted
  <2>5. CASE t # None
    BY <1>1, <1>3, <2>1, <2>2, <2>3, <2>5 DEF IsQueue, Booted
  <2> QED BY <2>4, <2>5
<1> QED BY <1>1, <1>2, <1>4, <1>5, <1>6, <1>7

(***************************************************************************)
(* list_add_tail() up to the store that publishes the new node.            *)
(***************************************************************************)
LEMMA AddQueue ==
  ASSUME NEW q \in Seq(Proc), TypeOK, IsQueue(q), TypeOK', OneListOp',
         NEW t \in Thread, ReadTail(t) \/ LinkHead(t) \/ LinkNode(t)
  PROVE  IsQueue(q)'
<1> USE QueueNodes
<1> DEFINE l == pc[t]
           m == pc'[t]
           n == newproc[t]
<1>1. ListMove(t, l, m)
  <2>1. /\ current = t /\ pc' = [pc EXCEPT ![t] = m]
        /\ <<l, m>> \in {<<"c_tail", "c_headprev">>, <<"c_headprev", "c_node">>,
                         <<"c_node", "c_publish">>}
    BY DEF ReadTail, LinkHead, LinkNode, Step, At, TypeOK
  <2>2. UNCHANGED <<fields, newproc, mem, current, count, kernel_preempt>>
    BY DEF ReadTail, LinkHead, LinkNode, links, fields, ids, locals, cpu, globals
  <2> QED BY <2>1, <2>2 DEF ListMove
<1>2. /\ Blocks(q)' /\ Threads(q)' /\ OnCpu(q)' /\ Booted(q)'
      /\ \A u \in Thread \ {t} : pc'[u] = pc[u]
  BY <1>1, ListMoves
<1>3. /\ m \in {"c_headprev", "c_node", "c_publish"}
      /\ m = "c_headprev" <=> l = "c_tail"
      /\ m = "c_node" <=> l = "c_headprev"
      /\ m = "c_publish" <=> l = "c_node"
  BY DEF ReadTail, LinkHead, LinkNode, Step, At, TypeOK
<1>4. \A u \in Thread \ {t} : pc[u] \notin ListOpPc /\ pc'[u] \notin ListOpPc
  BY <1>2, <1>3 DEF OneListOp, ListOpPc
<1>5. n \in Proc /\ n \in mem /\ n \notin Members(q) /\ n # ListHead /\ UNCHANGED newproc
  <2>1. l \in {"c_tail", "c_headprev", "c_node"}
    BY <1>1, <1>3 DEF ListMove
  <2>2. n \in Proc /\ n \in mem /\ n \notin Members(q)
    BY <2>1 DEF IsQueue, Blocks, Filling, TypeOK, CreatePc
  <2> QED BY <1>1, <2>2, SchedulerAssumption DEF SchedulerAssumption, ListMove
<1>6. /\ \A i \in 0 .. Len(q) : i \in Int /\ i + 1 \in Int /\ Node(q, i) # n /\ Node(q, i + 1) # n
      /\ \A i \in 0 .. Len(q) : i # Len(q) => Node(q, i + 1) # ListHead
      /\ Len(q) \in 0 .. Len(q)
  BY <1>5, SchedulerAssumption DEF SchedulerAssumption, Node
<1>7. \A i \in 0 .. Len(q) : prev[Node(q, i + 1)] = Node(q, i) \/ (i = Len(q) /\ l \in {"c_node", "c_publish"})
  <2> SUFFICES ASSUME NEW i \in 0 .. Len(q)
               PROVE  prev[Node(q, i + 1)] = Node(q, i) \/ (i = Len(q) /\ l \in {"c_node", "c_publish"})
    OBVIOUS
  <2>1. i > 0 => q[i] \in Thread
    BY DEF Thread
  <2>2. l # "e_unlink"
    BY <1>1, <1>3 DEF ListMove
  <2> QED BY <1>4, <2>1, <2>2 DEF IsQueue, Backward, ListOpPc
<1>8. Removing(q)'
  <2>1. \A p \in Proc : p \in Thread
    BY DEF Thread
  <2> QED BY <1>3, <1>4, <2>1 DEF Removing, ListOpPc
<1>9. \A u \in Thread \ {t} : pc'[u] \notin {"c_headprev", "c_node", "c_publish"}
  BY <1>4 DEF ListOpPc
<1>10. l \in {"c_headprev", "c_node", "c_publish"} => rprev[t] = Node(q, Len(q))
  BY DEF IsQueue, Adding
<1>11. CASE ReadTail(t)
  <2>1. UNCHANGED <<next, prev>> /\ rprev' = [rprev EXCEPT ![t] = prev[ListHead]] /\ l = "c_tail"
    BY <1>11 DEF ReadTail, Step, At, links
  <2>2. prev[ListHead] = Node(q, Len(q))
    BY <1>6, <1>7, <2>1
  <2>3. rprev'[t] = Node(q, Len(q))
    BY <2>1, <2>2 DEF TypeOK
  <2>4. Forward(q)' /\ Backward(q)'
    BY <1>7, <2>1 DEF IsQueue, Forward, Backward
  <2>5. Adding(q)'
    BY <1>3, <1>9, <2>1, <2>3 DEF Adding
  <2> QED BY <1>2, <1>8, <2>4, <2>5 DEF IsQueue
<1>12. CASE LinkHead(t)
  <2>1. UNCHANGED <<next, rprev>> /\ prev' = [prev EXCEPT ![ListHead] = n] /\ l = "c_headprev"
    BY <1>12 DEF LinkHead, Step, At, locals
  <2>2. prev'[ListHead] = n /\ \A k \in Link \ {ListHead} : prev'[k] = prev[k]
    BY <2>1 DEF TypeOK, Link
  <2>3. Forward(q)'
    BY <2>1 DEF IsQueue, Forward
  <2>4. Backward(q)'
    <3>1. \A i \in 0 .. Len(q) : Node(q, i + 1) \in Link
      BY <1>6 DEF Link
    <3> QED BY <1>3, <1>6, <1>7, <2>1, <2>2, <3>1 DEF Backward
  <2>5. Adding(q)'
    BY <1>3, <1>5, <1>9, <1>10, <2>1, <2>2 DEF Adding
  <2> QED BY <1>2, <1>8, <2>3, <2>4, <2>5 DEF IsQueue
<1>13. CASE LinkNode(t)
  <2>1. /\ UNCHANGED rprev /\ l = "c_node"
        /\ next' = [next EXCEPT ![n] = ListHead] /\ prev' = [prev EXCEPT ![n] = rprev[t]]
    BY <1>13 DEF LinkNode, Step, At, locals
  <2>2. /\ next'[n] = ListHead /\ prev'[n] = rprev[t]
        /\ \A k \in Link \ {n} : next'[k] = next[k] /\ prev'[k] = prev[k]
        /\ ListHead \in Link \ {n}
    BY <1>5, <2>1 DEF TypeOK, Link
  <2>3. \A i \in 0 .. Len(q) : Node(q, i) \in Link \ {n} /\ Node(q, i + 1) \in Link \ {n}
    BY <1>6 DEF Link
  <2>4. Forward(q)'
    BY <2>2, <2>3 DEF IsQueue, Forward
  <2>5. Backward(q)'
    BY <1>3, <1>7, <2>1, <2>2, <2>3 DEF Backward
  <2>6. Adding(q)'
    <3>1. prev[ListHead] = n
      BY <2>1 DEF IsQueue, Adding
    <3> QED BY <1>3, <1>5, <1>9, <1>10, <2>1, <2>2, <3>1 DEF Adding
  <2> QED BY <1>2, <1>8, <2>4, <2>5, <2>6 DEF IsQueue
<1> QED BY <1>11, <1>12, <1>13

(***************************************************************************)
(* list_del() up to the store that unlinks the node.                       *)
(***************************************************************************)
LEMMA RemoveQueue ==
  ASSUME NEW q \in Seq(Proc), TypeOK, IsQueue(q), TypeOK', OneListOp',
         NEW p \in Proc, ReadLinks(p) \/ Relink(p)
  PROVE  IsQueue(q)'
<1> USE QueueNodes
<1> DEFINE l == pc[p]
           m == pc'[p]
<1>t. p \in Thread
  BY DEF Thread
<1>1. ListMove(p, l, m) /\ current = p
  BY <1>t DEF ReadLinks, Relink, Step, At, TypeOK, links, fields, ids, locals, cpu,
         globals, ListMove
<1>2. /\ Blocks(q)' /\ Threads(q)' /\ OnCpu(q)' /\ Booted(q)'
      /\ \A u \in Thread \ {p} : pc'[u] = pc[u]
  BY <1>t, <1>1, ListMoves
<1>3. /\ m \in {"e_relink", "e_unlink"}
      /\ m = "e_relink" <=> l = "user"
      /\ m = "e_unlink" <=> l = "e_relink"
  BY <1>t DEF ReadLinks, Relink, Step, At, TypeOK
<1>4. \A u \in Thread \ {p} : pc[u] \notin ListOpPc /\ pc'[u] \notin ListOpPc
  BY <1>t, <1>2, <1>3 DEF OneListOp, ListOpPc
<1>5. PICK i \in 1 .. Len(q) : q[i] = p
  <2>1. p \in Members(q)
    BY <1>1, <1>3 DEF IsQueue, OnCpu
  <2> QED BY <2>1
<1>6. \A j \in 0 .. Len(q) : prev[Node(q, j + 1)] = Node(q, j)
  <2> SUFFICES ASSUME NEW j \in 0 .. Len(q) PROVE prev[Node(q, j + 1)] = Node(q, j)
    OBVIOUS
  <2>1. j > 0 => q[j] \in Thread
    BY DEF Thread
  <2>2. l \in {"user", "e_relink"}
    BY <1>3
  <2> QED BY <1>4, <2>1, <2>2 DEF IsQueue, Backward, ListOpPc
<1>7. Adding(q)'
  BY <1>3, <1>4 DEF Adding, ListOpPc
<1>8. \A r \in Proc \ {p} : pc'[r] \notin {"e_relink", "e_unlink"}
  BY <1>4 DEF ListOpPc, Thread
<1>9. i - 1 \in 0 .. Len(q) /\ i \in 0 .. Len(q) /\ (i - 1) + 1 = i /\ Node(q, i) = p
  BY <1>5
<1>10. Forward(q)'
  BY DEF ReadLinks, Relink, links, IsQueue, Forward
<1>11. CASE ReadLinks(p)
  <2>1. /\ UNCHANGED prev /\ m = "e_relink"
        /\ rprev'[p] = prev[p] /\ rnext'[p] = next[p]
    BY <1>t, <1>11 DEF ReadLinks, Step, links, TypeOK
  <2>2. rprev'[p] = Node(q, i - 1) /\ rnext'[p] = Node(q, i + 1)
    BY <1>6, <1>9, <2>1 DEF IsQueue, Forward
  <2>3. Removing(q)'
    BY <1>5, <1>8, <2>1, <2>2 DEF Removing
  <2>4. Backward(q)'
    BY <1>6, <2>1 DEF Backward
  <2> QED BY <1>2, <1>7, <1>10, <2>3, <2>4 DEF IsQueue
<1>12. CASE Relink(p)
  <2>1. /\ UNCHANGED <<rprev, rnext>> /\ l = "e_relink" /\ m = "e_unlink"
        /\ prev' = Store(prev, rnext[p], rprev[p])
    BY <1>t, <1>12 DEF Relink, Step, At, locals, TypeOK
  <2>2. rprev[p] = Node(q, i - 1) /\ rnext[p] = Node(q, i + 1)
    <3>1. PICK j \in 1 .. Len(q) :
            q[j] = p /\ rprev[p] = Node(q, j - 1) /\ rnext[p] = Node(q, j + 1)
      BY <2>1 DEF IsQueue, Removing
    <3>2. j = i
      BY <1>5, <3>1 DEF IsQueue, Forward
    <3> QED BY <3>1, <3>2
  <2>3. rnext[p] \in Link
    BY <1>9, <2>2 DEF Link
  <2>4. prev'[rnext[p]] = rprev[p] /\ \A k \in Link \ {rnext[p]} : prev'[k] = prev[k]
    BY <2>1, <2>3 DEF Store, TypeOK
  <2>5. Removing(q)'
    BY <1>5, <1>8, <2>1, <2>2, <2>4 DEF Removing
  <2>6. Backward(q)'
    <3> SUFFICES ASSUME NEW j \in 0 .. Len(q)
                 PROVE  prev'[Node(q, j + 1)] = Node(q, j) \/ (j > 0 /\ pc'[q[j]] = "e_unlink")
      BY DEF Backward
    <3>1. CASE j = i
      BY <1>5, <2>1, <3>1
    <3>2. CASE j # i
      <4>1. Node(q, j + 1) # Node(q, i + 1)
        <5>1. ListHead \notin Proc
          BY SchedulerAssumption DEF SchedulerAssumption
        <5> QED BY <1>5, <3>2, <5>1 DEF IsQueue, Forward, Node
      <4>2. Node(q, j + 1) \in Link
        BY DEF Link
      <4> QED BY <1>6, <2>2, <2>4, <4>1, <4>2
    <3> QED BY <3>1, <3>2
  <2> QED BY <1>2, <1>7, <1>10, <2>5, <2>6 DEF IsQueue
<1> QED BY <1>11, <1>12

(***************************************************************************)
(* The store that publishes a node puts it at the end of the queue.        *)
(***************************************************************************)
LEMMA PublishQueue ==
  ASSUME NEW q \in Seq(Proc), TypeOK, IsQueue(q), TypeOK', OneListOp,
         NEW t \in Thread, Publish(t),
         NEW n, n = newproc[t], NEW r, r = Append(q, n)
  PROVE  /\ n \in Proc \ Members(q) /\ state[n] = ZEROED
         /\ r \in Seq(Proc) /\ IsQueue(r)'
<1> USE QueueNodes
<1>1. /\ current = t /\ pc[t] = "c_publish" /\ pc' = [pc EXCEPT ![t] = "c_setup"]
      /\ next' = Store(next, rprev[t], n)
      /\ UNCHANGED <<prev, state, ticks, current, count, kernel_preempt, mem, newproc>>
  BY DEF Publish, Step, At, fields, cpu, globals
<1>2. pc'[t] = "c_setup" /\ \A u \in Thread \ {t} : pc'[u] = pc[u] /\ pc[u] \notin ListOpPc
  <2>1. pc'[t] = "c_setup" /\ \A u \in Thread \ {t} : pc'[u] = pc[u]
    BY <1>1 DEF TypeOK
  <2> QED BY <1>1, <2>1 DEF OneListOp, ListOpPc
<1>3. /\ n \in Proc /\ n \in mem /\ n \notin Members(q) /\ n # ListHead
      /\ state[n] = ZEROED
      /\ \A u \in Thread \ {t} : pc[u] \in Filling => newproc[u] # n
  <2>1. n \in Proc /\ n \in mem /\ n \notin Members(q) /\ state[n] = ZEROED
    BY <1>1 DEF IsQueue, Blocks, Filling, TypeOK, CreatePc
  <2>2. \A u \in Thread \ {t} : pc[u] \in Filling => newproc[u] # n
    <3>1. pc[t] \in Filling
      BY <1>1 DEF Filling
    <3> QED BY <3>1 DEF IsQueue, Blocks
  <2> QED BY <2>1, <2>2, SchedulerAssumption DEF SchedulerAssumption
<1>4. /\ r \in Seq(Proc) /\ Len(r) = Len(q) + 1
      /\ \A i \in 1 .. Len(q) : r[i] = q[i]
      /\ r[Len(q) + 1] = n
  BY <1>3
<1>5. /\ \A i \in 0 .. Len(q) : Node(r, i) = Node(q, i)
      /\ Node(r, Len(q) + 1) = n /\ Node(r, Len(q) + 2) = ListHead
      /\ Members(r) = Members(q) \cup {n}
  <2>1. \A i \in 0 .. Len(q) : Node(r, i) = Node(q, i)
    BY <1>4 DEF Node
  <2>2. Node(r, Len(q) + 1) = n /\ Node(r, Len(q) + 2) = ListHead
    BY <1>4 DEF Node
  <2>3. Members(r) = Members(q) \cup {n}
    <3>1. 1 .. Len(r) = (1 .. Len(q)) \cup {Len(q) + 1}
      BY <1>4
    <3> QED BY <1>4, <3>1 DEF Members
  <2> QED BY <2>1, <2>2, <2>3
<1>6. /\ rprev[t] = Node(q, Len(q)) /\ prev[ListHead] = n
      /\ next[n] = ListHead /\ prev[n] = Node(q, Len(q))
  BY <1>1 DEF IsQueue, Adding
<1>7. /\ next'[Node(q, Len(q))] = n
      /\ \A k \in Link \ {Node(q, Len(q))} : next'[k] = next[k]
  <2>1. Node(q, Len(q)) \in Link
    BY DEF Link
  <2> QED BY <1>1, <1>6, <2>1 DEF Store, TypeOK
<1>8. Forward(r)'
  <2>1. ASSUME NEW i \in 1 .. Len(r), NEW j \in 1 .. Len(r), r[i] = r[j] PROVE i = j
    <3>1. CASE i \in 1 .. Len(q) /\ j \in 1 .. Len(q)
      BY <1>4, <2>1, <3>1 DEF IsQueue, Forward
    <3>2. CASE i = Len(q) + 1 \/ j = Len(q) + 1
      BY <1>3, <1>4, <2>1, <3>2
    <3> QED BY <1>4, <3>1, <3>2
  <2>2. ASSUME NEW i \in 0 .. Len(r) PROVE next'[Node(r, i)] = Node(r, i + 1)
    <3>1. CASE i < Len(q)
      <4>1. i \in 0 .. Len(q) /\ i + 1 \in 0 .. Len(q)
        BY <1>4, <3>1
      <4>2. Node(q, i) # Node(q, Len(q)) /\ Node(q, i) \in Link
        <5>1. ListHead \notin Proc
          BY SchedulerAssumption DEF SchedulerAssumption
        <5> QED BY <3>1, <4>1, <5>1 DEF Node, IsQueue, Forward, Link
      <4> QED BY <1>5, <1>7, <4>1, <4>2 DEF IsQueue, Forward
    <3>2. CASE i = Len(q)
      BY <1>5, <1>7, <3>2
    <3>3. CASE i = Len(q) + 1
      <4>1. n # Node(q, Len(q)) /\ n \in Link
        BY <1>3 DEF Link
      <4> QED BY <1>5, <1>6, <1>7, <3>3, <4>1
    <3> QED BY <1>4, <3>1, <3>2, <3>3
  <2> QED BY <2>1, <2>2 DEF Forward
<1>9. Backward(r)'
  <2> SUFFICES ASSUME NEW i \in 0 .. Len(r) PROVE prev[Node(r, i + 1)] = Node(r, i)
    BY <1>1 DEF Backward
  <2>1. CASE i < Len(q)
    <3>1. i \in 0 .. Len(q) /\ i + 1 \in 0 .. Len(q)
      BY <1>4, <2>1
    <3>2. prev[Node(q, i + 1)] = Node(q, i) \/ (i > 0 /\ pc[q[i]] = "e_unlink")
      BY <2>1, <3>1 DEF IsQueue, Backward
    <3>3. i > 0 => pc[q[i]] # "e_unlink"
      BY <1>1, <1>2, <3>1 DEF Thread, ListOpPc
    <3> QED BY <1>5, <3>1, <3>2, <3>3
  <2>2. CASE i = Len(q)
    BY <1>5, <1>6, <2>2
  <2>3. CASE i = Len(q) + 1
    BY <1>5, <1>6, <2>3
  <2> QED BY <1>4, <2>1, <2>2, <2>3
<1>10. Adding(r)'
  BY <1>2 DEF Adding, ListOpPc
<1>11. Removing(r)'
  BY <1>2 DEF Removing, ListOpPc, Thread
<1>12. Blocks(r)'
  <2>1. Members(r) \subseteq mem
    BY <1>3, <1>5 DEF IsQueue, Blocks
  <2> SUFFICES ASSUME NEW u \in Thread, pc'[u] \in Filling
               PROVE  /\ newproc[u] \in mem /\ state[newproc[u]] = ZEROED
                      /\ newproc[u] \in Members(r) <=> pc'[u] = "c_setup"
                      /\ pc'[u] # "c_setup" => ticks[newproc[u]] \in {0, Slice}
                      /\ \A v \in Thread \ {u} : pc'[v] \in Filling => newproc[v] # newproc[u]
    BY <1>1, <2>1 DEF Blocks
  <2>2. \A v \in Thread : pc'[v] \in Filling => pc[v] \in Filling
    BY <1>1, <1>2 DEF Filling
  <2>3. CASE u = t
    BY <1>2, <1>3, <1>5, <2>2, <2>3
  <2>4. CASE u # t
    <3>1. pc'[u] = pc[u] /\ newproc[u] # n
      BY <1>2, <1>3, <2>2, <2>4
    <3> QED BY <1>5, <2>2, <3>1 DEF IsQueue, Blocks
  <2> QED BY <2>3, <2>4
<1>13. \A p \in Proc : Alive(r, p)' <=> Alive(q, p)
  BY <1>1, <1>3, <1>5 DEF Alive
<1>14. Threads(r)'
  <2> SUFFICES ASSUME NEW p \in Proc
               PROVE  /\ pc'[p] \in InCall => Alive(q, p)
                      /\ Alive(q, p) => pc'[p] \in InCall \cup {"user", "findproc"}
                      /\ state[p] = SLEEPING => p \in Members(r) /\ pc'[p] \in SleepPc \cup {"findproc"}
    BY <1>1, <1>13 DEF Threads
  <2>1. CASE p = t
    <3>1. state[p] = RUNNING /\ p \in Members(q)
      BY <1>1, <2>1 DEF IsQueue, OnCpu, CreatePc
    <3> QED BY <1>2, <2>1, <3>1 DEF Alive, RUNNING, SLEEPING, ZEROED, InCall, CreatePc
  <2>2. CASE p # t
    <3>1. pc'[p] = pc[p]
      BY <1>2, <2>2 DEF Thread
    <3> QED BY <1>5, <3>1 DEF IsQueue, Threads
  <2> QED BY <2>1, <2>2
<1>15. OnCpu(r)'
  <2> SUFFICES ASSUME t \in Proc PROVE OnCpu(r)'
    BY <1>1 DEF OnCpu
  <2>1. kernel_preempt' /\ count' > 0 /\ state'[t] = RUNNING /\ t \in Members(q)
    BY <1>1 DEF IsQueue, OnCpu, CreatePc
  <2> QED BY <1>1, <1>2, <1>5, <2>1 DEF OnCpu, RUNNING, ZEROED
<1>16. Booted(r)'
  <2>1. None \in Thread /\ Core \in Proc /\ Core \in Thread /\ None # Core /\ None \notin Proc
    BY SchedulerAssumption DEF SchedulerAssumption, Thread, Link
  <2>2. pc'[Core] \in {"e_relink", "e_unlink"} => pc[Core] \in {"e_relink", "e_unlink"}
    BY <1>2, <2>1
  <2>3. pc'[None] = "c_count" => pc[None] = "c_count"
    BY <1>2, <2>1
  <2>4. CASE t = None
    BY <1>1, <1>2, <1>5, <2>1, <2>2, <2>3, <2>4 DEF IsQueue, Booted, CreatePc
  <2>5. CASE t # None
    BY <1>1, <1>2, <1>5, <2>1, <2>2, <2>3, <2>5 DEF IsQueue, Booted
  <2> QED BY <2>4, <2>5
<1>17. IsQueue(r)'
  BY <1>8, <1>9, <1>10, <1>11, <1>12, <1>14, <1>15, <1>16 DEF IsQueue
<1> QED BY <1>3, <1>4, <1>17

\* The queue without its i-th process.
Without(q, i) == [j \in 1 .. Len(q) - 1 |-> IF j < i THEN q[j] ELSE q[j + 1]]

(***************************************************************************)
(* The store that unlinks a node takes it out of the queue.                *)
(***************************************************************************)
LEMMA UnlinkQueue ==
  ASSUME NEW q \in Seq(Proc), TypeOK, IsQueue(q), TypeOK', OneListOp,
         NEW p \in Proc, Unlink(p),
         NEW i \in 1 .. Len(q), q[i] = p, NEW r, r = Without(q, i)
  PROVE  r \in Seq(Proc) /\ IsQueue(r)' /\ Members(r) = Members(q) \ {p}
<1> USE QueueNodes
<1>t. p \in Thread
  BY DEF Thread
<1>1. /\ current = p /\ pc[p] = "e_unlink" /\ pc' = [pc EXCEPT ![p] = "e_free"]
      /\ next' = Store(next, rprev[p], rnext[p])
      /\ UNCHANGED <<prev, state, ticks, current, count, kernel_preempt, mem, newproc>>
  BY DEF Unlink, Step, At, fields, cpu, globals
<1>2. pc'[p] = "e_free" /\ \A u \in Thread \ {p} : pc'[u] = pc[u] /\ pc[u] \notin ListOpPc
  <2>1. pc'[p] = "e_free" /\ \A u \in Thread \ {p} : pc'[u] = pc[u]
    BY <1>t, <1>1 DEF TypeOK
  <2> QED BY <1>t, <1>1, <2>1 DEF OneListOp, ListOpPc
<1>3. /\ p \in Members(q) /\ state[p] # ZEROED /\ state[p] # SLEEPING
      /\ kernel_preempt /\ count > 0 /\ p # ListHead
  <2>1. p \in Members(q) /\ state[p] # ZEROED /\ kernel_preempt /\ count > 0
    BY <1>1 DEF IsQueue, OnCpu
  <2>2. state[p] # SLEEPING
    BY <1>1 DEF IsQueue, Threads, SleepPc
  <2> QED BY <2>1, <2>2, SchedulerAssumption DEF SchedulerAssumption
<1>4. r \in Seq(Proc) /\ Len(r) = Len(q) - 1
  BY DEF Without
<1>5. \A j \in 1 .. Len(q) - 1 : r[j] = IF j < i THEN q[j] ELSE q[j + 1]
  BY DEF Without
<1>6. \A j \in 0 .. Len(q) : Node(r, j) = IF j < i THEN Node(q, j) ELSE Node(q, j + 1)
  BY <1>4, <1>5 DEF Node
<1>7. Members(r) = Members(q) \ {p}
  <2>1. ASSUME NEW x \in Members(r) PROVE x \in Members(q) \ {p}
    <3>1. PICK j \in 1 .. Len(q) - 1 : r[j] = x
      BY <1>4 DEF Members
    <3>2. PICK k \in 1 .. Len(q) : q[k] = x /\ k # i
      <4>1. CASE j < i
        <5>1. j \in 1 .. Len(q) /\ j # i /\ q[j] = x
          BY <1>5, <3>1, <4>1
        <5> QED BY <5>1
      <4>2. CASE ~(j < i)
        <5>1. j + 1 \in 1 .. Len(q) /\ j + 1 # i /\ q[j + 1] = x
          BY <1>5, <3>1, <4>2
        <5> QED BY <5>1
      <4> QED BY <4>1, <4>2
    <3> QED BY <3>2 DEF IsQueue, Forward
  <2>2. ASSUME NEW x \in Members(q), x # p PROVE x \in Members(r)
    <3>1. PICK k \in 1 .. Len(q) : q[k] = x
      BY <2>2
    <3>2. k # i
      BY <2>2, <3>1
    <3>3. PICK j \in 1 .. Len(q) - 1 : r[j] = x
      <4>1. CASE k < i
        <5>1. k \in 1 .. Len(q) - 1
          BY <4>1
        <5> QED BY <1>5, <3>1, <4>1, <5>1
      <4>2. CASE k > i
        <5>1. k - 1 \in 1 .. Len(q) - 1 /\ ~(k - 1 < i) /\ (k - 1) + 1 = k
          BY <4>2
        <5> QED BY <1>5, <3>1, <5>1
      <4> QED BY <3>2, <4>1, <4>2
    <3> QED BY <1>4, <3>3 DEF Members
  <2> QED BY <2>1, <2>2
<1>8. /\ rprev[p] = Node(q, i - 1) /\ rnext[p] = Node(q, i + 1)
      /\ prev[Node(q, i + 1)] = Node(q, i - 1)
  <2>1. PICK j \in 1 .. Len(q) :
          /\ q[j] = p /\ rprev[p] = Node(q, j - 1) /\ rnext[p] = Node(q, j + 1)
          /\ prev[rnext[p]] = rprev[p]
    BY <1>1 DEF IsQueue, Removing
  <2>2. j = i
    BY <2>1 DEF IsQueue, Forward
  <2> QED BY <2>1, <2>2
<1>9. /\ next'[Node(q, i - 1)] = Node(q, i + 1)
      /\ \A k \in Link \ {Node(q, i - 1)} : next'[k] = next[k]
  <2>1. Node(q, i - 1) \in Link
    <3>1. i - 1 \in Int
      OBVIOUS
    <3> QED BY <3>1 DEF Link
  <2> QED BY <1>1, <1>8, <2>1 DEF Store, TypeOK
<1>10. Forward(r)'
  <2>1. ASSUME NEW j \in 1 .. Len(r), NEW k \in 1 .. Len(r), r[j] = r[k] PROVE j = k
    <3>1. \A a \in 1 .. Len(q), b \in 1 .. Len(q) : q[a] = q[b] => a = b
      BY DEF IsQueue, Forward
    <3>2. j \in 1 .. Len(q) - 1 /\ k \in 1 .. Len(q) - 1
      BY <1>4
    <3> QED BY <1>5, <2>1, <3>1, <3>2
  <2>2. ASSUME NEW j \in 0 .. Len(r) PROVE next'[Node(r, j)] = Node(r, j + 1)
    <3>0. j \in 0 .. Len(q) /\ j + 1 \in 0 .. Len(q)
      BY <1>4
    <3>1. CASE j = i - 1
      <4>1. Node(r, j) = Node(q, i - 1) /\ Node(r, j + 1) = Node(q, i + 1)
        BY <1>6, <3>0, <3>1
      <4> QED BY <1>9, <4>1
    <3>2. CASE j # i - 1
      <4>1. PICK k \in 0 .. Len(q) : k # i - 1 /\ k # i /\ Node(r, j) = Node(q, k) /\ Node(r, j + 1) = Node(q, k + 1)
        <5>1. CASE j < i
          BY <1>6, <3>0, <3>2, <5>1
        <5>2. CASE ~(j < i)
          BY <1>6, <3>0, <3>2, <5>2
        <5> QED BY <5>1, <5>2
      <4>2. Node(q, k) # Node(q, i - 1) /\ Node(q, k) \in Link
        <5>1. ListHead \notin Proc
          BY SchedulerAssumption DEF SchedulerAssumption
        <5> QED BY SMTT(30), <4>1, <5>1 DEF Node, IsQueue, Forward, Link
      <4> QED BY <1>9, <4>1, <4>2 DEF IsQueue, Forward
    <3> QED BY <3>1, <3>2
  <2> QED BY <2>1, <2>2 DEF Forward
<1>11. Backward(r)'
  <2> SUFFICES ASSUME NEW j \in 0 .. Len(r) PROVE prev[Node(r, j + 1)] = Node(r, j)
    BY <1>1 DEF Backward
  <2>0. j \in 0 .. Len(q) /\ j + 1 \in 0 .. Len(q)
    BY <1>4
  <2>1. CASE j = i - 1
    <3>1. Node(r, j) = Node(q, i - 1) /\ Node(r, j + 1) = Node(q, i + 1)
      BY <1>6, <2>0, <2>1
    <3> QED BY <1>8, <3>1
  <2>2. CASE j # i - 1
    <3>1. PICK k \in 0 .. Len(q) : k # i /\ Node(r, j) = Node(q, k) /\ Node(r, j + 1) = Node(q, k + 1)
      <4>1. CASE j < i
        BY <1>6, <2>0, <2>2, <4>1
      <4>2. CASE ~(j < i)
        BY <1>6, <2>0, <2>2, <4>2
      <4> QED BY <4>1, <4>2
    <3>2. \A u \in Thread : pc[u] \notin {"c_node", "c_publish"}
      BY <1>1, <1>2 DEF ListOpPc
    <3>3. k > 0 => pc[q[k]] # "e_unlink"
      <4> SUFFICES ASSUME k > 0 PROVE pc[q[k]] # "e_unlink"
        OBVIOUS
      <4>1. q[k] # p /\ q[k] \in Thread
        BY <3>1 DEF IsQueue, Forward, Thread
      <4> QED BY <1>2, <4>1 DEF ListOpPc
    <3> QED BY <3>1, <3>2, <3>3 DEF IsQueue, Backward
  <2> QED BY <2>1, <2>2
<1>12. Adding(r)'
  BY <1>2 DEF Adding, ListOpPc
<1>13. Removing(r)'
  BY <1>2 DEF Removing, ListOpPc, Thread
<1>14. Blocks(r)'
  <2>1. \A u \in Thread : pc'[u] \in Filling => pc'[u] = pc[u] /\ newproc[u] # p
    BY <1>2, <1>3 DEF IsQueue, Blocks, Filling
  <2> QED BY <1>1, <1>7, <2>1 DEF IsQueue, Blocks
<1>15. Threads(r)'
  <2> SUFFICES ASSUME NEW x \in Proc
               PROVE  /\ pc'[x] \in InCall => Alive(r, x)
                      /\ Alive(r, x) => pc'[x] \in InCall \cup {"user", "findproc"}
                      /\ state[x] = SLEEPING => x \in Members(r) /\ pc'[x] \in SleepPc \cup {"findproc"}
    BY <1>1 DEF Threads, Alive
  <2>1. CASE x = p
    BY <1>2, <1>3, <1>7, <2>1 DEF Alive, InCall, CreatePc, SleepPc
  <2>2. CASE x # p
    <3>1. pc'[x] = pc[x]
      BY <1>2, <2>2 DEF Thread
    <3> QED BY <1>7, <2>2, <3>1 DEF IsQueue, Threads, Alive
  <2> QED BY <2>1, <2>2
<1>16. OnCpu(r)'
  <2>1. p \in mem
    BY <1>3 DEF IsQueue, Blocks
  <2>2. kernel_preempt' /\ count' > 0
    BY <1>1, <1>3
  <2> QED BY <1>1, <1>2, <1>3, <2>1, <2>2 DEF OnCpu, CreatePc
<1>17. Booted(r)'
  <2>1. None \in Thread /\ Core \in Proc /\ Core \in Thread /\ None # Core /\ None # p
    BY SchedulerAssumption DEF SchedulerAssumption, Thread, Link
  <2>2. pc'[None] = pc[None]
    BY <1>2, <2>1
  <2>3. Core \notin Sleepers \cup Enders => Core # p
    BY <1>1 DEF IsQueue, Booted
  <2>4. Core # p => pc'[Core] = pc[Core]
    BY <1>2, <2>1
  <2> QED BY <1>1, <1>7, <2>1, <2>2, <2>3, <2>4 DEF IsQueue, Booted
<1> QED BY <1>4, <1>7, <1>10, <1>11, <1>12, <1>13, <1>14, <1>15, <1>16, <1>17 DEF IsQueue

-----------------------------------------------------------------------------
(***************************************************************************)
(* A new process becomes ready, with a stack that enters its program.      *)
(***************************************************************************)
LEMMA SetupQueue ==
  ASSUME NEW q \in Seq(Proc), TypeOK, IsQueue(q), TypeOK', NEW t \in Thread, Setup(t)
  PROVE  IsQueue(q)' /\ newproc[t] \in Members(q) /\ state[newproc[t]] = ZEROED
<1> USE QueueNodes
<1> DEFINE n == newproc[t]
<1>1. /\ current = t /\ pc[t] = "c_setup" /\ pc' = [pc EXCEPT ![n] = "user", ![t] = "c_count"]
      /\ state' = [state EXCEPT ![n] = READY]
      /\ UNCHANGED <<next, prev, ticks, current, count, kernel_preempt, mem, newproc, rprev, rnext>>
  BY DEF Setup, At, links, locals, globals
<1>2. n \in Proc /\ n \in Members(q) /\ state[n] = ZEROED
  BY <1>1 DEF IsQueue, Blocks, Filling, TypeOK, CreatePc
<1>3. t \in Proc => state[t] = RUNNING /\ t \in Members(q) /\ kernel_preempt /\ count > 0
  BY <1>1 DEF IsQueue, OnCpu, CreatePc
<1>4. n # t /\ n \in Thread
  BY <1>2, <1>3 DEF ZEROED, RUNNING, Thread
<1>5. /\ pc'[n] = "user" /\ pc'[t] = "c_count"
      /\ \A u \in Thread \ {n, t} : pc'[u] = pc[u]
  BY <1>1, <1>4 DEF TypeOK
<1>6. state'[n] = READY /\ \A r \in Proc \ {n} : state'[r] = state[r]
  BY <1>1, <1>2 DEF TypeOK
<1>7. pc[n] \notin InCall
  BY <1>2 DEF IsQueue, Threads, Alive
<1>8. Forward(q)' /\ Backward(q)' /\ Adding(q)' /\ Removing(q)'
  <2>1. \A k \in mem \cup {ListHead} : next'[k] = next[k] /\ prev'[k] = prev[k]
    BY <1>1
  <2>2. \A u \in Thread : pc[u] \in ListOpPc \/ pc'[u] \in ListOpPc => pc'[u] = pc[u]
    BY <1>1, <1>5, <1>7 DEF ListOpPc, InCall, CreatePc
  <2> QED BY <1>1, <2>1, <2>2, LinksKept
<1>9. Blocks(q)'
  <2>1. \A u \in Thread : pc'[u] \in Filling => pc'[u] = pc[u] /\ u # t /\ u # n
    BY <1>5 DEF Filling
  <2>2. \A u \in Thread \ {t} : pc[u] \in Filling => newproc[u] # n /\ newproc[u] \in Proc
    <3>1. pc[t] \in Filling
      BY <1>1 DEF Filling
    <3> QED BY <3>1 DEF IsQueue, Blocks, TypeOK, Filling, CreatePc
  <2> SUFFICES ASSUME NEW u \in Thread, pc'[u] \in Filling
               PROVE  /\ newproc[u] \in mem /\ state'[newproc[u]] = ZEROED
                      /\ newproc[u] \in Members(q) <=> pc'[u] = "c_setup"
                      /\ pc'[u] # "c_setup" => ticks[newproc[u]] \in {0, Slice}
                      /\ \A v \in Thread \ {u} : pc'[v] \in Filling => newproc[v] # newproc[u]
    BY <1>1 DEF Blocks, IsQueue
  <2>3. pc'[u] = pc[u] /\ state'[newproc[u]] = state[newproc[u]]
    BY <1>6, <2>1, <2>2
  <2> QED BY <2>1, <2>3 DEF IsQueue, Blocks
<1>10. Threads(q)'
  <2> SUFFICES ASSUME NEW r \in Proc
               PROVE  /\ pc'[r] \in InCall => Alive(q, r)'
                      /\ Alive(q, r)' => pc'[r] \in InCall \cup {"user", "findproc"}
                      /\ state'[r] = SLEEPING => r \in Members(q) /\ pc'[r] \in SleepPc \cup {"findproc"}
    BY DEF Threads
  <2>1. CASE r = n
    BY <1>2, <1>5, <1>6, <2>1 DEF InCall, CreatePc, SleepPc, READY, SLEEPING
  <2>2. CASE r = t
    BY <1>3, <1>4, <1>5, <1>6, <2>2 DEF Alive, InCall, CreatePc, RUNNING, ZEROED, SLEEPING
  <2>3. CASE r # n /\ r # t
    <3>1. pc'[r] = pc[r] /\ state'[r] = state[r]
      BY <1>5, <1>6, <2>3 DEF Thread
    <3> QED BY <3>1 DEF IsQueue, Threads, Alive
  <2> QED BY <2>1, <2>2, <2>3
<1>11. OnCpu(q)'
  <2> SUFFICES ASSUME t \in Proc PROVE OnCpu(q)'
    BY <1>1 DEF OnCpu
  <2>1. kernel_preempt' /\ count' > 0
    BY <1>1, <1>3
  <2>2. state'[t] = RUNNING /\ t \in Members(q)
    BY <1>3, <1>4, <1>6
  <2> QED BY <1>1, <1>5, <2>1, <2>2 DEF OnCpu, RUNNING, ZEROED
<1>12. Booted(q)'
  <2>1. None \in Thread /\ Core \in Proc /\ Core \in Thread /\ None # Core /\ None \notin Proc
    BY SchedulerAssumption DEF SchedulerAssumption, Thread, Link
  <2>2. None # n
    BY <1>2, <2>1
  <2>3. pc'[Core] \in {"e_relink", "e_unlink"} => pc[Core] \in {"e_relink", "e_unlink"}
    BY <1>5, <2>1
  <2>4. CASE t = None
    <3>1. n = Core /\ ~(count > 0)
      BY <1>1, <2>4 DEF IsQueue, Booted, CreatePc
    <3> QED BY <1>1, <1>2, <1>5, <1>6, <2>1, <2>3, <2>4, <3>1 DEF IsQueue, Booted, CreatePc
  <2>5. CASE t # None
    <3>1. pc'[None] = pc[None]
      BY <1>5, <2>1, <2>2, <2>5
    <3>2. Core # n => state'[Core] = state[Core]
      BY <1>6, <2>1
    <3> QED BY <1>1, <1>2, <1>6, <2>1, <2>3, <3>1, <3>2 DEF IsQueue, Booted
  <2> QED BY <2>4, <2>5
<1> QED BY <1>2, <1>8, <1>9, <1>10, <1>11, <1>12 DEF IsQueue

(***************************************************************************)
(* The running process sets PROC_SLEEPING, or frees its own block.         *)
(***************************************************************************)
LEMMA SleepQueue ==
  ASSUME NEW q \in Seq(Proc), TypeOK, IsQueue(q), TypeOK',
         NEW p \in Proc, FallAsleep(p)
  PROVE  IsQueue(q)' /\ p \in Members(q) /\ state[p] = RUNNING
<1> USE QueueNodes
<1>1. /\ current = p /\ pc[p] = "user" /\ pc' = [pc EXCEPT ![p] = "s_timeout"]
      /\ state' = [state EXCEPT ![p] = SLEEPING] /\ p \in Sleepers
      /\ UNCHANGED <<next, prev, ticks, current, count, kernel_preempt, mem, newproc, rprev, rnext>>
  BY DEF FallAsleep, Step, At, links, locals, cpu, globals
<1>2. state[p] = RUNNING /\ p \in Members(q) /\ kernel_preempt /\ count > 0
  BY <1>1 DEF IsQueue, OnCpu, CreatePc
<1>3. pc'[p] = "s_timeout" /\ \A u \in Thread \ {p} : pc'[u] = pc[u]
  BY <1>1 DEF TypeOK, Thread
<1>4. state'[p] = SLEEPING /\ \A r \in Proc \ {p} : state'[r] = state[r]
  BY <1>1 DEF TypeOK
<1>5. Forward(q)' /\ Backward(q)' /\ Adding(q)' /\ Removing(q)'
  <2>1. \A k \in mem \cup {ListHead} : next'[k] = next[k] /\ prev'[k] = prev[k]
    BY <1>1
  <2>2. \A u \in Thread : pc[u] \in ListOpPc \/ pc'[u] \in ListOpPc => pc'[u] = pc[u]
    BY <1>1, <1>3 DEF ListOpPc
  <2> QED BY <1>1, <2>1, <2>2, LinksKept
<1>6. Blocks(q)'
  <2>1. \A u \in Thread : pc'[u] \in Filling => pc'[u] = pc[u]
    BY <1>3 DEF Filling
  <2>2. \A u \in Thread : pc[u] \in Filling => newproc[u] # p /\ newproc[u] \in Proc
    BY <1>2 DEF IsQueue, Blocks, TypeOK, Filling, CreatePc, RUNNING, ZEROED
  <2> QED BY <1>1, <1>4, <2>1, <2>2 DEF IsQueue, Blocks
<1>7. Threads(q)'
  <2> SUFFICES ASSUME NEW r \in Proc
               PROVE  /\ pc'[r] \in InCall => Alive(q, r)'
                      /\ Alive(q, r)' => pc'[r] \in InCall \cup {"user", "findproc"}
                      /\ state'[r] = SLEEPING => r \in Members(q) /\ pc'[r] \in SleepPc \cup {"findproc"}
    BY DEF Threads
  <2>1. CASE r = p
    BY <1>2, <1>3, <1>4, <2>1 DEF Alive, InCall, SleepPc, ZEROED, SLEEPING
  <2>2. CASE r # p
    <3>1. pc'[r] = pc[r] /\ state'[r] = state[r]
      BY <1>3, <1>4, <2>2 DEF Thread
    <3> QED BY <3>1 DEF IsQueue, Threads, Alive
  <2> QED BY <2>1, <2>2
<1>8. OnCpu(q)'
  <2>1. kernel_preempt' /\ count' > 0
    BY <1>1, <1>2
  <2> QED BY <1>1, <1>2, <1>3, <1>4, <2>1 DEF OnCpu, SLEEPING, ZEROED, CreatePc
<1>9. Booted(q)'
  <2>1. None \in Thread /\ Core \in Proc /\ Core \in Thread /\ None # p
    BY SchedulerAssumption DEF SchedulerAssumption, Thread, Link
  <2>2. pc'[None] = pc[None] /\ (Core # p => pc'[Core] = pc[Core] /\ state'[Core] = state[Core])
    BY <1>3, <1>4, <2>1
  <2> QED BY <1>1, <2>2 DEF IsQueue, Booted
<1> QED BY <1>2, <1>5, <1>6, <1>7, <1>8, <1>9 DEF IsQueue

(***************************************************************************)
(* process_end() frees a block that is already off the queue.              *)
(***************************************************************************)
LEMMA FreeQueue ==
  ASSUME NEW q \in Seq(Proc), TypeOK, IsQueue(q), TypeOK',
         NEW p \in Proc, FreeProcess(p)
  PROVE  IsQueue(q)'
<1> USE QueueNodes
<1>1. /\ current = p /\ pc[p] = "e_free" /\ pc' = [pc EXCEPT ![p] = "e_ticks"]
      /\ mem' = mem \ {p}
      /\ UNCHANGED <<next, prev, state, ticks, current, count, kernel_preempt, newproc, rprev, rnext>>
  BY DEF FreeProcess, Step, At, links, fields, locals, cpu
<1>2. p \notin Members(q) /\ state[p] # ZEROED /\ kernel_preempt /\ count > 0
  BY <1>1 DEF IsQueue, OnCpu, Threads, Alive, InCall, CreatePc, SleepPc
<1>3. pc'[p] = "e_ticks" /\ \A u \in Thread \ {p} : pc'[u] = pc[u]
  BY <1>1 DEF TypeOK, Thread
<1>4. Forward(q)' /\ Backward(q)' /\ Adding(q)' /\ Removing(q)'
  <2>1. \A k \in mem \cup {ListHead} : next'[k] = next[k] /\ prev'[k] = prev[k]
    BY <1>1
  <2>2. \A u \in Thread : pc[u] \in ListOpPc \/ pc'[u] \in ListOpPc => pc'[u] = pc[u]
    BY <1>1, <1>3 DEF ListOpPc
  <2> QED BY <1>1, <2>1, <2>2, LinksKept
<1>5. Blocks(q)'
  <2>1. \A u \in Thread : pc'[u] \in Filling => pc'[u] = pc[u] /\ newproc[u] # p
    BY <1>2, <1>3 DEF Filling, IsQueue, Blocks
  <2> QED BY <1>1, <1>2, <2>1 DEF IsQueue, Blocks
<1>6. Threads(q)'
  <2> SUFFICES ASSUME NEW r \in Proc
               PROVE  /\ pc'[r] \in InCall => Alive(q, r)
                      /\ Alive(q, r) => pc'[r] \in InCall \cup {"user", "findproc"}
                      /\ state[r] = SLEEPING => r \in Members(q) /\ pc'[r] \in SleepPc \cup {"findproc"}
    BY <1>1 DEF Threads, Alive
  <2>1. CASE r = p
    BY <1>1, <1>2, <1>3, <2>1 DEF IsQueue, Threads, Alive, InCall, CreatePc, SleepPc
  <2>2. CASE r # p
    <3>1. pc'[r] = pc[r]
      BY <1>3, <2>2 DEF Thread
    <3> QED BY <3>1 DEF IsQueue, Threads, Alive
  <2> QED BY <2>1, <2>2
<1>7. OnCpu(q)'
  <2>1. kernel_preempt' /\ count' > 0
    BY <1>1, <1>2
  <2> QED BY <1>1, <1>2, <1>3, <2>1 DEF OnCpu, CreatePc
<1>8. Booted(q)'
  <2>1. None \in Thread /\ Core \in Proc /\ Core \in Thread /\ None # p
    BY SchedulerAssumption DEF SchedulerAssumption, Thread, Link
  <2>2. pc'[None] = pc[None] /\ (Core # p => pc'[Core] = pc[Core])
    BY <1>3, <2>1
  <2>3. Core = p => pc'[Core] \notin {"e_relink", "e_unlink"}
    BY <1>3
  <2> QED BY <1>1, <2>2, <2>3 DEF IsQueue, Booted
<1> QED BY <1>4, <1>5, <1>6, <1>7, <1>8 DEF IsQueue

-----------------------------------------------------------------------------
(***************************************************************************)
(* What schedule() does to a process's state, whatever it decides.         *)
(***************************************************************************)
LEMMA ScheduleStates ==
  ASSUME TypeOK, NEW pcs, NEW lines, Schedule(pcs, lines)
  PROVE  \A r \in Proc :
           /\ state'[r] = ZEROED <=> state[r] = ZEROED
           /\ state'[r] = SLEEPING => state[r] = SLEEPING
           /\ state[r] \in {READY, RUNNING} => state'[r] \in {READY, RUNNING}
<1> USE DEF ZEROED, READY, RUNNING, SLEEPING
<1>1. \A r \in Proc :
        /\ Woken[r] = ZEROED <=> state[r] = ZEROED
        /\ Woken[r] = SLEEPING => state[r] = SLEEPING
        /\ state[r] \in {READY, RUNNING} => Woken[r] = state[r]
  BY DEF Woken, Sleeping
<1>2. \A r \in Proc :
        /\ Released[r] = ZEROED <=> state[r] = ZEROED
        /\ Released[r] = SLEEPING => state[r] = SLEEPING
        /\ state[r] \in {READY, RUNNING} => Released[r] \in {READY, RUNNING}
  BY <1>1 DEF Released
<1>3. CASE ScheduleSwitch(pcs, lines)
  <2>1. PICK p \in Proc : Selected(p) /\ state' = [Released EXCEPT ![p] = RUNNING]
    BY <1>3 DEF ScheduleSwitch
  <2>2. Released[p] = READY
    BY <2>1 DEF Selected, Candidates, WithTicks, ReadyProcs
  <2>3. \A r \in Proc : state'[r] = IF r = p THEN RUNNING ELSE Released[r]
    BY <2>1, ScheduleFields
  <2> QED BY <1>2, <2>2, <2>3
<1>4. CASE ~ScheduleSwitch(pcs, lines)
  <2>1. state' \in {state, Woken, Released}
    BY <1>4 DEF Schedule, ScheduleOff, ScheduleLost, ScheduleKeep, ScheduleSpins, fields
  <2> QED BY <1>1, <1>2, <2>1
<1> QED BY <1>3, <1>4

\* The statement at which the caller of schedule() goes on.
AfterCall(pcs) ==
  \/ pcs = pc
  \/ pc[current] = "s_expire" /\ pcs = [pc EXCEPT ![current] = "s_return"]
  \/ pc[current] = "e_expire" /\ pcs = [pc EXCEPT ![current] = "e_return"]

(***************************************************************************)
(* schedule() keeps the queue, and never loses its way in it: it keeps the *)
(* process that runs, switches to a process that lives on the queue, or    *)
(* loops because nobody on the queue is ready.                             *)
(***************************************************************************)
LEMMA ScheduleQueue ==
  ASSUME NEW q \in Seq(Proc), TypeOK, IsQueue(q), TypeOK',
         NEW pcs, NEW lines, Schedule(pcs, lines), AfterCall(pcs),
         UNCHANGED <<next, prev, newproc, rprev, rnext, mem, count, kernel_preempt>>
  PROVE  IsQueue(q)' /\ ~ScheduleLost(pcs, lines)
<1> USE QueueNodes
<1>1. ListSound /\ Listed = Members(q)
  BY QueueFacts DEF IsQueue
<1>2. ~ScheduleLost(pcs, lines)
  BY <1>1 DEF ScheduleLost
<1>3. \A r \in Proc :
        /\ state'[r] = ZEROED <=> state[r] = ZEROED
        /\ state'[r] = SLEEPING => state[r] = SLEEPING
        /\ state[r] \in {READY, RUNNING} => state'[r] \in {READY, RUNNING}
  BY ScheduleStates
<1>4. /\ current \in Thread
      /\ current \in Proc => kernel_preempt /\ count > 0 /\ state[current] # ZEROED
      /\ count > 0 => pc[None] \in {"c_ticks", "c_parent", "user", "findproc"}
      /\ None \in Thread /\ Core \in Proc /\ Core \in Thread /\ None # Core /\ None \notin Proc
  BY ZenonT(30), SchedulerAssumption DEF SchedulerAssumption, Thread, Link, TypeOK, IsQueue, OnCpu, Booted
<1>5. \A u \in Thread :
        \/ pcs[u] = pc[u]
        \/ u = current /\ pc[u] = "s_expire" /\ pcs[u] = "s_return"
        \/ u = current /\ pc[u] = "e_expire" /\ pcs[u] = "e_return"
  BY <1>4 DEF AfterCall, TypeOK
<1>6. CASE ScheduleOff(pcs, lines)
  <2>1. current \notin Proc /\ current = None
    BY <1>4, <1>6 DEF ScheduleOff, Thread
  <2>2. pc[None] \in BootPc \cup CreatePc \cup {"user", "findproc"}
    BY DEF IsQueue, Booted
  <2>3. pcs = pc
    BY <2>1, <2>2 DEF AfterCall, BootPc, CreatePc
  <2>4. UNCHANGED <<pc, state, ticks, current>>
    BY <1>6, <2>3 DEF ScheduleOff, ScheduleReturns, fields
  <2>5. Forward(q)' /\ Backward(q)' /\ Adding(q)' /\ Removing(q)'
    BY <2>4 DEF IsQueue, Forward, Backward, Adding, Removing
  <2>6. Blocks(q)' /\ Threads(q)' /\ OnCpu(q)' /\ Booted(q)'
    BY <2>4 DEF IsQueue, Blocks, Threads, Alive, OnCpu, Booted
  <2> QED BY <1>2, <2>5, <2>6 DEF IsQueue
<1>7. ASSUME count > 0,
             \A u \in Thread : \/ pc'[u] = pcs[u]
                               \/ u = current /\ pc[u] \notin ListOpPc /\ pc'[u] = "findproc",
             \A r \in Proc : r # current /\ r \notin Members(q) => ticks'[r] = ticks[r]
      PROVE  /\ Forward(q)' /\ Backward(q)' /\ Adding(q)' /\ Removing(q)'
             /\ Blocks(q)' /\ Threads(q)' /\ Booted(q)'
  <2>1. \A u \in Thread : pc[u] \in ListOpPc \/ pc'[u] \in ListOpPc => pc'[u] = pc[u]
    BY <1>5, <1>7 DEF ListOpPc
  <2>2. Forward(q)' /\ Backward(q)' /\ Adding(q)' /\ Removing(q)'
    BY <2>1, LinksKept
  <2>3. Blocks(q)'
    <3>1. \A u \in Thread : pc'[u] \in Filling => pc'[u] = pc[u]
      BY <1>5, <1>7 DEF Filling
    <3>2. \A u \in Thread : pc[u] \in Filling => newproc[u] \in Proc /\ newproc[u] # current
      BY <1>4 DEF IsQueue, Blocks, TypeOK, Filling, CreatePc
    <3> SUFFICES ASSUME NEW u \in Thread, pc'[u] \in Filling
                 PROVE  /\ newproc[u] \in mem /\ state'[newproc[u]] = ZEROED
                        /\ newproc[u] \in Members(q) <=> pc'[u] = "c_setup"
                        /\ pc'[u] # "c_setup" => ticks'[newproc[u]] \in {0, Slice}
                        /\ \A v \in Thread \ {u} : pc'[v] \in Filling => newproc[v] # newproc[u]
      BY DEF Blocks, IsQueue
    <3>3. pc'[u] = pc[u] /\ newproc[u] \in Proc /\ newproc[u] # current
      BY <3>1, <3>2
    <3>4. /\ newproc[u] \in mem /\ state[newproc[u]] = ZEROED
          /\ newproc[u] \in Members(q) <=> pc'[u] = "c_setup"
          /\ pc'[u] # "c_setup" => ticks[newproc[u]] \in {0, Slice}
          /\ \A v \in Thread \ {u} : pc'[v] \in Filling => newproc[v] # newproc[u]
      BY <3>1, <3>3 DEF IsQueue, Blocks
    <3> QED BY <1>3, <1>7, <3>3, <3>4
  <2>4. Threads(q)'
    <3> SUFFICES ASSUME NEW r \in Proc
                 PROVE  /\ pc'[r] \in InCall => Alive(q, r)
                        /\ Alive(q, r) => pc'[r] \in InCall \cup {"user", "findproc"}
                        /\ state[r] = SLEEPING => r \in Members(q) /\ pc'[r] \in SleepPc \cup {"findproc"}
      BY <1>3 DEF Threads, Alive
    <3>1. \/ pc'[r] = pc[r] \/ pc'[r] = "findproc"
          \/ pc[r] = "s_expire" /\ pc'[r] = "s_return"
          \/ pc[r] = "e_expire" /\ pc'[r] = "e_return"
      BY <1>5, <1>7 DEF Thread
    <3>2. /\ pc[r] \in InCall => Alive(q, r)
          /\ Alive(q, r) => pc[r] \in InCall \cup {"user", "findproc"}
          /\ state[r] = SLEEPING => r \in Members(q) /\ pc[r] \in SleepPc \cup {"findproc"}
      BY DEF IsQueue, Threads
    <3> QED BY <3>1, <3>2 DEF InCall, CreatePc, SleepPc
  <2>5. Booted(q)'
    <3>1. pc'[None] = pc[None] \/ pc'[None] = "findproc"
      BY <1>4, <1>5, <1>7
    <3>2. pc'[Core] \in {"e_relink", "e_unlink"} => pc'[Core] = pc[Core]
      BY <1>4, <1>5, <1>7
    <3>3. state[Core] \in {READY, RUNNING} => state'[Core] \in {READY, RUNNING}
      BY <1>3, <1>4
    <3> QED BY <3>1, <3>2, <3>3 DEF IsQueue, Booted, CreatePc
  <2> QED BY <2>2, <2>3, <2>4, <2>5
<1>8. CASE ScheduleKeep(pcs, lines)
  <2>1. /\ current \in Proc /\ ticks[current] > 0 /\ count > 0 /\ pc' = pcs /\ current' = current
        /\ ticks' = [ticks EXCEPT ![current] = @ - 1]
        /\ state' = Woken
    BY <1>4, <1>8 DEF ScheduleKeep, HasTicks, ScheduleReturns, Thread
  <2>2. \A r \in Proc : r # current => ticks'[r] = ticks[r]
    BY <2>1 DEF TypeOK
  <2>3. state[current] = RUNNING => state'[current] = RUNNING
    BY <2>1 DEF Woken, Sleeping, RUNNING, SLEEPING
  <2>4. OnCpu(q)'
    <3>1. pc[current] # "e_expire" /\ (pc[current] = "s_expire" => state[current] = RUNNING)
      BY <2>1, SchedulerAssumption DEF IsQueue, OnCpu, TypeOK, SchedulerAssumption
    <3>2. pcs[current] = pc[current] \/ (pc[current] = "s_expire" /\ pcs[current] = "s_return")
      BY <1>5, <2>1, <3>1 DEF Thread
    <3>3. pcs[current] = "s_expire" => pc[current] = "s_expire"
      BY <3>2
    <3>4. kernel_preempt' /\ count' > 0 /\ state'[current] # ZEROED
      BY <1>3, <1>4, <2>1
    <3>5. current \in Members(q) \/ pcs[current] \in {"e_free", "e_ticks", "e_expire", "findproc"}
      BY <2>1, <3>2 DEF IsQueue, OnCpu
    <3>6. pcs[current] = "e_free" => current \in mem'
      BY <2>1, <3>2 DEF IsQueue, OnCpu
    <3>7. pcs[current] \in CreatePc \cup {"user", "s_return", "s_expire"} => state'[current] = RUNNING
      BY <2>1, <2>3, <3>1, <3>2 DEF IsQueue, OnCpu
    <3> QED BY <2>1, <3>1, <3>2, <3>4, <3>5, <3>6, <3>7 DEF OnCpu
  <2> QED BY <1>2, <1>7, <2>1, <2>2, <2>4 DEF IsQueue
<1>9. CASE ScheduleSpins(pcs, lines)
  <2>1. /\ ReadyProcs = {} /\ kernel_preempt /\ count > 0 /\ current' = current
        /\ pc' = [pcs EXCEPT ![current] = "findproc"]
        /\ ticks' = Refilled
    BY <1>9 DEF ScheduleSpins, ScheduleReturns, MustSwitch
  <2>2. \A r \in Proc : r \notin Members(q) => ticks'[r] = ticks[r]
    BY <1>1, <2>1 DEF Refilled
  <2>3. pc[current] \notin ListOpPc
    <3>1. CASE current = None
      BY <1>4, <2>1, <3>1 DEF ListOpPc
    <3>2. CASE current \in Proc
      <4> SUFFICES ASSUME pc[current] \in ListOpPc PROVE FALSE
        OBVIOUS
      <4>1. pc[current] \in InCall /\ pc[current] \notin SleepPc \cup {"findproc"}
        BY DEF ListOpPc, InCall, CreatePc, SleepPc
      <4>2. current \in Members(q) /\ state[current] # ZEROED /\ state[current] # SLEEPING
        BY <3>2, <4>1 DEF IsQueue, Threads, Alive
      <4>3. state[current] \in {READY, RUNNING}
        BY <3>2, <4>2 DEF TypeOK
      <4>4. Released[current] = READY
        BY <3>2, <4>3 DEF Released, Woken, Sleeping, READY, RUNNING, SLEEPING
      <4> QED BY <1>1, <2>1, <4>2, <4>4 DEF ReadyProcs
    <3> QED BY <1>4, <3>1, <3>2 DEF Thread
  <2>4. pc'[current] = "findproc" /\ \A u \in Thread \ {current} : pc'[u] = pcs[u]
    <3>0. "s_return" \in Pc /\ "e_return" \in Pc /\ pc \in [Thread -> Pc]
      BY DEF TypeOK, Pc, SleepPc, EndPc
    <3>1. pcs \in [Thread -> Pc]
      BY SMTT(30), <1>4, <3>0 DEF AfterCall
    <3> QED BY <1>4, <2>1, <3>1
  <2>5. OnCpu(q)'
    <3>1. current \in Proc => kernel_preempt' /\ count' > 0 /\ state'[current] # ZEROED
      BY <1>3, <1>4
    <3> QED BY <2>1, <2>4, <3>1 DEF OnCpu, CreatePc
  <2>6. \A u \in Thread : \/ pc'[u] = pcs[u]
                          \/ u = current /\ pc[u] \notin ListOpPc /\ pc'[u] = "findproc"
    BY <2>3, <2>4
  <2> QED BY <1>2, <1>7, <2>1, <2>2, <2>5, <2>6 DEF IsQueue
<1>10. CASE ScheduleSwitch(pcs, lines)
  <2>1. PICK p \in Proc :
          /\ Selected(p) /\ state' = [Released EXCEPT ![p] = RUNNING]
          /\ ticks' = [Refilled EXCEPT ![p] = @ - 1] /\ current' = p
    BY <1>10 DEF ScheduleSwitch
  <2>2. pc' = pcs /\ kernel_preempt /\ count > 0
    BY <1>10 DEF ScheduleSwitch, MustSwitch
  <2>3. p \in Members(q) /\ Released[p] = READY
    BY <1>1, <2>1 DEF Selected, Candidates, WithTicks, ReadyProcs
  <2>4. state'[p] = RUNNING
    BY <2>1, ScheduleFields
  <2>5. \A r \in Proc : r \notin Members(q) => ticks'[r] = ticks[r]
    BY <1>1, <2>1, <2>3 DEF Refilled
  <2>6. Threads(q)' /\ Alive(q, p)'
    BY <1>7, <2>2, <2>3, <2>4, <2>5 DEF Alive, RUNNING, ZEROED
  <2>7. pc'[p] \in InCall \cup {"user", "findproc"}
    BY <2>6 DEF Threads
  <2>8. OnCpu(q)'
    <3>1. kernel_preempt' /\ count' > 0
      BY <2>2
    <3> QED BY <2>1, <2>3, <2>4, <2>7, <3>1
            DEF OnCpu, InCall, CreatePc, SleepPc, RUNNING, ZEROED
  <2> QED BY <1>2, <1>7, <2>2, <2>5, <2>8 DEF IsQueue
<1> QED BY <1>2, <1>6, <1>8, <1>9, <1>10 DEF Schedule

-----------------------------------------------------------------------------
\* Some sequence of processes is the queue.
HasQueue == \E q \in Seq(Proc) : IsQueue(q)

(***************************************************************************)
(* At boot the list is empty.                                              *)
(***************************************************************************)
LEMMA EmptyQueue ==
  ASSUME Init
  PROVE  <<>> \in Seq(Proc) /\ Len(<<>>) = 0 /\ Members(<<>>) = {} /\ IsQueue(<<>>)
<1>1. Len(<<>>) = 0 /\ <<>> \in Seq(Proc) /\ Members(<<>>) = {}
  BY DEF Members
<1>2. \A i : Node(<<>>, i) = ListHead
  BY <1>1 DEF Node
<1>3. None \in Thread /\ None \notin Proc /\ Core \in Proc /\ ListHead \in Link
  BY SchedulerAssumption DEF SchedulerAssumption, Thread, Link
<1>4. pc[None] = "enable_preempt" /\ \A p \in Proc : pc[p] = "user" /\ state[p] = ZEROED
  BY <1>3 DEF Init, Thread
<1>5. \A t \in Thread : pc[t] \in {"enable_preempt", "user"}
  BY <1>3, <1>4 DEF Thread
<1>6. next[ListHead] = ListHead /\ prev[ListHead] = ListHead /\ current = None /\ count = 0
  BY <1>3 DEF Init
<1>7. Forward(<<>>) /\ Backward(<<>>)
  BY <1>1, <1>2, <1>6 DEF Forward, Backward
<1>8. Adding(<<>>)
  BY <1>5 DEF Adding
<1>9. Removing(<<>>)
  BY <1>4 DEF Removing
<1>10. Blocks(<<>>)
  BY <1>1, <1>5 DEF Blocks, Filling
<1>11. Threads(<<>>)
  BY <1>1, <1>4 DEF Threads, Alive, InCall, CreatePc, SleepPc, ZEROED, SLEEPING
<1>12. OnCpu(<<>>)
  BY <1>3, <1>6 DEF OnCpu
<1>13. Booted(<<>>)
  BY <1>3, <1>4, <1>6 DEF Booted, BootPc, CreatePc
<1> QED BY <1>1, <1>7, <1>8, <1>9, <1>10, <1>11, <1>12, <1>13 DEF IsQueue

(***************************************************************************)
(* Hence there is a queue at boot.                                         *)
(***************************************************************************)
LEMMA InitQueue == Init => HasQueue
BY EmptyQueue DEF HasQueue

(***************************************************************************)
(* Every step that no second list operation meets keeps a queue.           *)
(***************************************************************************)
LEMMA StepQueue ==
  ASSUME TypeOK, TypeOK', OneListOp, OneListOp', HasQueue, [Next]_vars
  PROVE  HasQueue'
<1>1. PICK q \in Seq(Proc) : IsQueue(q)
  BY DEF HasQueue
<1>2. SUFFICES ASSUME ~IsQueue(q)' PROVE HasQueue'
  BY DEF HasQueue
<1>3. ASSUME NEW i \in Irqs, Interrupt(i) PROVE FALSE
  <2>1. Schedule(pc, isr \cup {i}) /\ AfterCall(pc)
    BY <1>3 DEF Interrupt, AfterCall
  <2>2. UNCHANGED <<next, prev, newproc, rprev, rnext, mem, count, kernel_preempt>>
    BY <1>3 DEF Interrupt, links, locals, globals
  <2> QED BY <1>1, <1>2, <2>1, <2>2, ScheduleQueue
<1>4. ASSUME NEW p \in Proc, Expire(p) PROVE FALSE
  <2>1. UNCHANGED <<next, prev, newproc, rprev, rnext, mem, count, kernel_preempt>>
    BY <1>4 DEF Expire, links, locals, globals
  <2>2. PICK pcs : Schedule(pcs, isr) /\ AfterCall(pcs)
    BY <1>4 DEF Expire, At, AfterCall
  <2> QED BY <1>1, <1>2, <2>1, <2>2, ScheduleQueue
<1>5. ASSUME NEW t \in Thread, Publish(t) PROVE HasQueue'
  <2>1. PICK n, r : n = newproc[t] /\ r = Append(q, n)
    OBVIOUS
  <2>2. r \in Seq(Proc) /\ IsQueue(r)'
    BY <1>1, <1>5, <2>1, PublishQueue
  <2> QED BY <2>2 DEF HasQueue
<1>6. ASSUME NEW p \in Proc, Unlink(p) PROVE HasQueue'
  <2>1. PICK i \in 1 .. Len(q) : q[i] = p
    <3>1. pc[p] = "e_unlink" /\ current = p
      BY <1>6 DEF Unlink, Step, At
    <3> QED BY <1>1, <3>1 DEF IsQueue, Removing
  <2>2. PICK r : r = Without(q, i)
    OBVIOUS
  <2>3. r \in Seq(Proc) /\ IsQueue(r)'
    BY <1>1, <1>6, <2>1, <2>2, UnlinkQueue
  <2> QED BY <2>3 DEF HasQueue
<1>7. ASSUME NEW t \in Thread, CreateStep(t) PROVE HasQueue'
  BY <1>1, <1>2, <1>5, <1>7, QuietSteps, AddQueue, SetupQueue DEF CreateStep
<1>8. ASSUME NEW p \in Proc, BlockStep(p) PROVE HasQueue'
  BY <1>1, <1>2, <1>4, <1>6, <1>8, QuietSteps, RemoveQueue, FreeQueue DEF BlockStep
<1>9. ASSUME NEW t \in Thread, NEW p \in Proc, AllocProcess(t, p) PROVE FALSE
  BY <1>1, <1>2, <1>9, AllocQueue
<1>10. ASSUME Boot PROVE FALSE
  BY <1>1, <1>2, <1>9, <1>10, QuietSteps, SchedulerAssumption
  DEF Boot, Thread, SchedulerAssumption
<1>11. ASSUME NEW p \in Proc, Call(p) PROVE FALSE
  BY <1>1, <1>2, <1>9, <1>11, SleepQueue, RemoveQueue DEF Call, Thread
<1>12. ASSUME IrqReturn \/ UNCHANGED vars PROVE FALSE
  <2>1. UNCHANGED <<next, prev, newproc, rprev, rnext, mem, count, kernel_preempt,
                    pc, state, ticks, current>>
    BY <1>12 DEF IrqReturn, vars, links, fields, ids, locals, cpu, globals
  <2>2. Forward(q)' /\ Backward(q)' /\ Adding(q)' /\ Removing(q)'
    BY <1>1, <2>1 DEF IsQueue, Forward, Backward, Adding, Removing
  <2>3. Blocks(q)' /\ Threads(q)' /\ OnCpu(q)' /\ Booted(q)'
    BY <1>1, <2>1 DEF IsQueue, Blocks, Threads, Alive, OnCpu, Booted
  <2> QED BY <1>2, <2>2, <2>3 DEF IsQueue
<1>13. ASSUME NEW t \in Thread, Continue(t) PROVE HasQueue'
  BY <1>7, <1>8, <1>10, <1>13 DEF Continue, Thread
<1> QED BY <1>3, <1>11, <1>12, <1>13 DEF Next, Stuck

(***************************************************************************)
(* And there is one in every state, while list operations do not overlap.  *)
(***************************************************************************)
LEMMA QueueStays == Spec /\ []OneListOp => []HasQueue
<1>1. TypeOK /\ TypeOK' /\ OneListOp /\ OneListOp' /\ HasQueue /\ [Next]_vars => HasQueue'
  BY StepQueue
<1> QED BY <1>1, InitQueue, TypeCorrect, PTL DEF Spec

(***************************************************************************)
(* While list operations do not overlap, the forward walk is a queue that  *)
(* agrees with every call in progress.                                     *)
(***************************************************************************)
THEOREM QueueHolds == Spec /\ []OneListOp => []QueueIntact
<1>1. TypeOK /\ HasQueue => QueueIntact
  <2> SUFFICES ASSUME TypeOK, NEW q \in Seq(Proc), IsQueue(q) PROVE QueueIntact
    BY DEF HasQueue
  <2>1. ListSound /\ Queue = q
    BY QueueFacts DEF IsQueue
  <2> QED BY <2>1 DEF QueueIntact
<1> QED BY <1>1, TypeCorrect, QueueStays, PTL

(***************************************************************************)
(* The walk of schedule() comes back to the head and meets no freed block. *)
(***************************************************************************)
THEOREM ListStaysIntact == Spec /\ []OneListOp => []ListIntact
<1>1. TypeOK /\ HasQueue => ListIntact
  <2> SUFFICES ASSUME TypeOK, NEW q \in Seq(Proc), IsQueue(q) PROVE ListIntact
    BY DEF HasQueue
  <2> USE QueueNodes
  <2>1. ListSound /\ Listed = Members(q)
    BY QueueFacts DEF IsQueue
  <2>2. Listed \subseteq mem
    BY <2>1 DEF IsQueue, Blocks
  <2>3. ASSUME \A t \in Thread : pc[t] \notin ListOpPc, NEW l \in Listed \cup {ListHead}
        PROVE  prev[next[l]] = l
    <3>1. PICK i \in 0 .. Len(q) : l = Node(q, i)
      <4>1. CASE l = ListHead
        BY <4>1
      <4>2. CASE l \in Members(q)
        <5>1. PICK i \in 1 .. Len(q) : q[i] = l
          BY <4>2
        <5>2. i \in 0 .. Len(q) /\ l = Node(q, i)
          BY <5>1
        <5> QED BY <5>2
      <4> QED BY <2>1, <2>3, <4>1, <4>2
    <3>2. next[l] = Node(q, i + 1)
      BY <3>1 DEF IsQueue, Forward
    <3>3. i > 0 => q[i] \in Thread
      BY DEF Thread
    <3>4. prev[Node(q, i + 1)] = Node(q, i)
      BY <2>3, <3>3 DEF IsQueue, Backward, ListOpPc
    <3> QED BY <3>1, <3>2, <3>4
  <2> QED BY <2>1, <2>2, <2>3 DEF ListIntact
<1> QED BY <1>1, TypeCorrect, QueueStays, PTL

(***************************************************************************)
(* process_end() does not return.                                          *)
(***************************************************************************)
THEOREM EndIsFinal == Spec /\ []OneListOp => []EndNeverReturns
<1>1. TypeOK /\ HasQueue => EndNeverReturns
  <2> SUFFICES ASSUME TypeOK, NEW q \in Seq(Proc), IsQueue(q) PROVE pc[current] # "e_return"
    BY DEF HasQueue, EndNeverReturns
  <2>1. CASE current = None
    BY <2>1 DEF IsQueue, Booted, BootPc, CreatePc
  <2>2. CASE current \in Proc
    BY <2>2 DEF IsQueue, OnCpu, Threads, Alive, InCall, CreatePc, SleepPc
  <2> QED BY <2>1, <2>2 DEF TypeOK, Thread
<1> QED BY <1>1, TypeCorrect, QueueStays, PTL

(***************************************************************************)
(* A process whose program runs is PROC_RUNNING.                           *)
(***************************************************************************)
THEOREM ProgramsRun == Spec /\ []OneListOp => []ProgramIsRunning
<1>1. HasQueue => ProgramIsRunning
  BY DEF HasQueue, IsQueue, OnCpu, ProgramIsRunning
<1> QED BY <1>1, QueueStays, PTL

(***************************************************************************)
(* A core process that neither sleeps nor ends is there to be selected.    *)
(***************************************************************************)
LEMMA CoreIsReady ==
  ASSUME Core \notin Sleepers \cup Enders,
         NEW q \in Seq(Proc), TypeOK, RunningIsCurrent, IsQueue(q), NEW pcs, NEW lines
  PROVE  ~ScheduleSpins(pcs, lines)
<1> SUFFICES ASSUME count > 0, ReadyProcs = {} PROVE FALSE
  BY DEF ScheduleSpins, MustSwitch
<1>1. Core \in Members(q) /\ state[Core] \in {READY, RUNNING} /\ Core \in Proc
  BY SchedulerAssumption DEF IsQueue, Booted, SchedulerAssumption
<1>2. state[Core] = RUNNING => Core = current
  BY <1>1 DEF RunningIsCurrent
<1>3. Released[Core] = READY
  BY <1>1, <1>2 DEF Released, Woken, Sleeping, READY, RUNNING, SLEEPING
<1>4. Listed = Members(q)
  BY QueueFacts DEF IsQueue
<1> QED BY <1>1, <1>3, <1>4 DEF ReadyProcs

(***************************************************************************)
(* select_next_process() finds a process if the core process neither       *)
(* sleeps nor ends.                                                        *)
(***************************************************************************)
THEOREM NeverHangs ==
  ASSUME Core \notin Sleepers \cup Enders
  PROVE  Spec /\ []OneListOp => []NoHang
<1>1. Init => NoHang
  BY DEF Init, NoHang
<1>2. TypeOK /\ RunningIsCurrent /\ HasQueue /\ NoHang /\ [Next]_vars => NoHang'
  <2> SUFFICES ASSUME TypeOK, RunningIsCurrent, NEW q \in Seq(Proc), IsQueue(q), NoHang, [Next]_vars
               PROVE  NoHang'
    BY DEF HasQueue
  <2> USE DEF Step, At, links, fields, ids, locals, cpu, globals
  <2>1. ASSUME NEW pcs, NEW lines, Schedule(pcs, lines), AfterCall(pcs)
        PROVE  NoHang'
    <3>1. ListSound /\ Listed = Members(q)
      BY QueueFacts DEF IsQueue
    <3>2. ~ScheduleLost(pcs, lines)
      BY <3>1 DEF ScheduleLost
    <3>3. ~ScheduleSpins(pcs, lines)
      BY CoreIsReady
    <3>4. pc' = pcs
      BY <2>1, <3>2, <3>3
      DEF Schedule, ScheduleOff, ScheduleKeep, ScheduleSwitch, ScheduleReturns
    <3>5. \A t \in Thread : pcs[t] \in {pc[t], "s_return", "e_return"}
      BY <2>1 DEF AfterCall, TypeOK
    <3> QED BY <3>4, <3>5 DEF NoHang
  <2>2. ASSUME NEW i \in Irqs, Interrupt(i) PROVE NoHang'
    BY <2>1, <2>2 DEF Interrupt, AfterCall
  <2>3. ASSUME NEW p \in Proc, Expire(p) PROVE NoHang'
    BY <2>1, <2>3 DEF Expire, AfterCall
  <2>4. ASSUME NEW t, NEW l, l # "findproc", pc' = [pc EXCEPT ![t] = l] PROVE NoHang'
    BY <2>4 DEF NoHang, TypeOK
  <2>5. ASSUME NEW t \in Thread, CreateStep(t) PROVE NoHang'
    <3>1. CASE Setup(t)
      <4>1. pc' = [pc EXCEPT ![newproc[t]] = "user", ![t] = "c_count"]
        BY <3>1 DEF Setup
      <4> QED BY <4>1 DEF NoHang, TypeOK
    <3>2. CASE ~Setup(t)
      <4>1. \E l : l # "findproc" /\ pc' = [pc EXCEPT ![t] = l]
        BY <2>5, <3>2 DEF CreateStep, ReadPid, BumpPid, ReadTail, LinkHead, LinkNode,
                          Publish, CountUp, FirstTicks, SetParent
      <4> QED BY <2>4, <4>1
    <3> QED BY <3>1, <3>2
  <2>6. ASSUME NEW p \in Proc, FallAsleep(p) \/ ReadLinks(p) \/ BlockStep(p)
        PROVE  NoHang'
    <3>1. CASE ~Expire(p)
      <4>1. \E l : l # "findproc" /\ pc' = [pc EXCEPT ![p] = l]
        BY <2>6, <3>1 DEF FallAsleep, ReadLinks, BlockStep, SetTimeout, Relink, Unlink,
                          FreeProcess, DropTicks, ExpireReturn
      <4> QED BY <2>4, <4>1
    <3> QED BY <2>3, <3>1
  <2>7. ASSUME NEW t \in Thread, NEW p \in Proc, AllocProcess(t, p) PROVE NoHang'
    BY <2>4, <2>7 DEF AllocProcess
  <2>8. CASE EnablePreempt \/ EnableInts
    BY <2>4, <2>8 DEF EnablePreempt, EnableInts
  <2>9. CASE \E t \in Thread : Continue(t)
    BY <2>5, <2>6, <2>7, <2>8, <2>9, SchedulerAssumption
    DEF Continue, Boot, Thread, SchedulerAssumption
  <2>10. CASE \E p \in Proc : Call(p)
    BY <2>6, <2>7, <2>10 DEF Call, Thread
  <2>11. CASE IrqReturn \/ UNCHANGED vars
    BY <2>11 DEF IrqReturn, vars, NoHang
  <2> QED BY <2>2, <2>9, <2>10, <2>11 DEF Next, Stuck
<1> QED BY <1>1, <1>2, TypeCorrect, OneRunning, QueueStays, PTL DEF Spec

(***************************************************************************)
(* A sleeping process wakes only when its timeout runs out.                *)
(***************************************************************************)
THEOREM SleepersWakeOnTime == Spec /\ []OneListOp => WakesOnTimeout
<1> DEFINE OnTime == \A p \in Proc : state[p] = SLEEPING /\ state'[p] # SLEEPING
                                     => timeout[p] = 1 /\ timeout'[p] = 0
<1>1. TypeOK /\ TypeOK' /\ HasQueue /\ [Next]_vars => OnTime
  <2> SUFFICES ASSUME TypeOK, TypeOK', NEW q \in Seq(Proc), IsQueue(q), [Next]_vars,
                      NEW p \in Proc, state[p] = SLEEPING, state'[p] # SLEEPING
               PROVE  timeout[p] = 1 /\ timeout'[p] = 0
    BY DEF HasQueue
  <2> USE DEF links, fields, ids, locals, cpu, globals
  <2>1. p \in Members(q) /\ p \in mem
    BY DEF IsQueue, Threads, Blocks
  <2>2. ASSUME NEW pcs, NEW lines, Schedule(pcs, lines) PROVE timeout[p] = 1 /\ timeout'[p] = 0
    <3>1. Listed = Members(q)
      BY QueueFacts DEF IsQueue
    <3>2. Sleeping(p)
      BY <2>1, <3>1 DEF Sleeping
    <3>3. Woken[p] # SLEEPING => Timeouts[p] = 0
      BY DEF Woken
    <3>4. Released[p] # SLEEPING => Woken[p] # SLEEPING
      BY DEF Released, READY, SLEEPING, RUNNING
    <3>5. state'[p] # state[p]
      OBVIOUS
    <3>6. Timeouts[p] = 0 /\ timeout' = Timeouts
      <4>1. CASE ScheduleSwitch(pcs, lines)
        <5>1. PICK r \in Proc : Selected(r) /\ state' = [Released EXCEPT ![r] = RUNNING]
          BY <4>1 DEF ScheduleSwitch
        <5>2. Released[r] = READY /\ state'[p] = IF p = r THEN RUNNING ELSE Released[p]
          BY <5>1, ScheduleFields DEF Selected, Candidates, WithTicks, ReadyProcs
        <5>3. Released[p] # SLEEPING
          BY <5>2 DEF READY, SLEEPING
        <5> QED BY <3>3, <3>4, <4>1, <5>3 DEF ScheduleSwitch
      <4>2. CASE ~ScheduleSwitch(pcs, lines)
        BY <2>2, <3>3, <3>4, <3>5, <4>2
        DEF Schedule, ScheduleOff, ScheduleLost, ScheduleKeep, ScheduleSpins
      <4> QED BY <4>1, <4>2
    <3>7. Timeouts[p] = Countdown(timeout[p])
      BY <3>2 DEF Timeouts
    <3>8. timeout[p] = 1
      BY <3>6, <3>7, SchedulerAssumption DEF Countdown, TypeOK, SchedulerAssumption
    <3> QED BY <3>6, <3>8
  <2>3. ASSUME NEW t \in Thread, NEW r \in Proc, AllocProcess(t, r) PROVE FALSE
    <3>1. r # p /\ state' = [state EXCEPT ![r] = ZEROED]
      BY <2>1, <2>3 DEF AllocProcess
    <3> QED BY <3>1 DEF TypeOK
  <2>4. ASSUME NEW t \in Thread, CreateStep(t) PROVE FALSE
    <3>1. CASE Setup(t)
      <4>1. state[newproc[t]] = ZEROED /\ state' = [state EXCEPT ![newproc[t]] = READY]
        BY <3>1, SetupQueue DEF Setup
      <4> QED BY <4>1 DEF TypeOK, SLEEPING, ZEROED
    <3>2. CASE ~Setup(t)
      BY <2>4, <3>2 DEF CreateStep, ReadPid, BumpPid, ReadTail, LinkHead, LinkNode,
                        Publish, CountUp, FirstTicks, SetParent
    <3> QED BY <3>1, <3>2
  <2>5. ASSUME NEW r \in Proc, FallAsleep(r) PROVE FALSE
    BY <2>5 DEF FallAsleep, TypeOK
  <2>6. ASSUME NEW r \in Proc, ReadLinks(r) \/ BlockStep(r)
        PROVE  timeout[p] = 1 /\ timeout'[p] = 0
    BY <2>2, <2>6 DEF ReadLinks, BlockStep, SetTimeout, Relink, Unlink, FreeProcess,
                      DropTicks, ExpireReturn, Expire
  <2>7. CASE \E t \in Thread : Continue(t)
    BY <2>3, <2>4, <2>6, <2>7, SchedulerAssumption
    DEF Continue, Boot, EnablePreempt, EnableInts, Thread, SchedulerAssumption
  <2>8. CASE \E r \in Proc : Call(r)
    BY <2>3, <2>5, <2>6, <2>8 DEF Call, Thread
  <2>9. CASE \E i \in Irqs : Interrupt(i)
    BY <2>2, <2>9 DEF Interrupt
  <2>10. CASE IrqReturn \/ UNCHANGED vars
    BY <2>10 DEF IrqReturn, vars
  <2> QED BY <2>7, <2>8, <2>9, <2>10 DEF Next, Stuck
<1> QED BY <1>1, TypeCorrect, QueueStays, PTL DEF Spec, WakesOnTimeout

-----------------------------------------------------------------------------
(* The round robin *)

\* The mode of a process on the queue.
ModeOf(s) == CASE s = ZEROED  -> "new"
               [] s = READY   -> "ready"
               [] s = RUNNING -> "running"
               [] OTHER       -> "asleep"

(***************************************************************************)
(* The mode that each state of a process_t stands for.                     *)
(***************************************************************************)
LEMMA ModeOfEach ==
  /\ ModeOf(ZEROED) = "new" /\ ModeOf(READY) = "ready"
  /\ ModeOf(RUNNING) = "running" /\ ModeOf(SLEEPING) = "asleep"
BY DEF ModeOf, ZEROED, READY, RUNNING, SLEEPING

(***************************************************************************)
(* When q is the queue, the mapping gives q, the modes of its members, and *)
(* their credits and that of the current process.                          *)
(***************************************************************************)
LEMMA Mapped ==
  \A q \in Seq(Proc) : TypeOK /\ Forward(q) =>
    /\ Queue = q /\ Listed = Members(q)
    /\ Mode \in [Proc -> {"none", "new", "ready", "running", "asleep"}]
    /\ Credit \in [Proc -> 0 .. Slice]
    /\ \A p \in Proc :
         /\ Mode[p] = IF p \in Members(q) THEN ModeOf(state[p]) ELSE "none"
         /\ Credit[p] = IF p \in Members(q) \/ p = current THEN ticks[p] ELSE 0
<1> SUFFICES ASSUME NEW q \in Seq(Proc), TypeOK, Forward(q)
             PROVE  /\ Queue = q /\ Listed = Members(q)
                    /\ Mode \in [Proc -> {"none", "new", "ready", "running", "asleep"}]
                    /\ Credit \in [Proc -> 0 .. Slice]
                    /\ \A p \in Proc :
                         /\ Mode[p] = IF p \in Members(q) THEN ModeOf(state[p]) ELSE "none"
                         /\ Credit[p] = IF p \in Members(q) \/ p = current THEN ticks[p] ELSE 0
  OBVIOUS
<1>1. Queue = q /\ Listed = Members(q)
  BY QueueFacts
<1>2. \A s : ModeOf(s) \in {"new", "ready", "running", "asleep"}
  BY DEF ModeOf
<1>3. Mode = [p \in Proc |-> IF p \notin Listed THEN "none" ELSE ModeOf(state[p])]
  BY DEF Mode, ModeOf
<1>4. /\ Mode \in [Proc -> {"none", "new", "ready", "running", "asleep"}]
      /\ \A p \in Proc : Mode[p] = IF p \in Members(q) THEN ModeOf(state[p]) ELSE "none"
  BY <1>1, <1>2, <1>3
<1>5. /\ Credit \in [Proc -> 0 .. Slice]
      /\ \A p \in Proc : Credit[p] = IF p \in Members(q) \/ p = current THEN ticks[p] ELSE 0
  BY <1>1, SchedulerAssumption DEF Credit, TypeOK, SchedulerAssumption
<1> QED BY <1>1, <1>4, <1>5

(***************************************************************************)
(* The same of the next state.                                             *)
(***************************************************************************)
LEMMA MappedNext ==
  (\A q \in Seq(Proc) : TypeOK /\ Forward(q) =>
     /\ Queue = q /\ Listed = Members(q)
     /\ Mode \in [Proc -> {"none", "new", "ready", "running", "asleep"}]
     /\ Credit \in [Proc -> 0 .. Slice]
     /\ \A p \in Proc :
          /\ Mode[p] = IF p \in Members(q) THEN ModeOf(state[p]) ELSE "none"
          /\ Credit[p] = IF p \in Members(q) \/ p = current THEN ticks[p] ELSE 0)'
BY Mapped, PTL

(***************************************************************************)
(* The same of the two states of a step, for the queue q before and the    *)
(* queue r after it.                                                       *)
(***************************************************************************)
LEMMA MappedStep ==
  ASSUME NEW q \in Seq(Proc), TypeOK, IsQueue(q),
         NEW r \in Seq(Proc), TypeOK', IsQueue(r)'
  PROVE  /\ Queue = q /\ Queue' = r /\ Listed = Members(q)
         /\ Mode \in [Proc -> {"none", "new", "ready", "running", "asleep"}]
         /\ Mode' \in [Proc -> {"none", "new", "ready", "running", "asleep"}]
         /\ Credit \in [Proc -> 0 .. Slice] /\ Credit' \in [Proc -> 0 .. Slice]
         /\ \A p \in Proc :
              /\ Mode[p] = IF p \in Members(q) THEN ModeOf(state[p]) ELSE "none"
              /\ Mode'[p] = IF p \in Members(r) THEN ModeOf(state'[p]) ELSE "none"
              /\ Credit[p] = IF p \in Members(q) \/ p = current THEN ticks[p] ELSE 0
              /\ Credit'[p] = IF p \in Members(r) \/ p = current' THEN ticks'[p] ELSE 0
         /\ Sharing!InQueue = Members(q)
<1>1. Forward(q) /\ Forward(r)'
  BY DEF IsQueue
<1>2. Queue = q
  BY <1>1, Mapped
<1>3. Sharing!InQueue = Members(q)
  BY <1>2 DEF Sharing!InQueue, Members
<1> QED BY <1>1, <1>3, Mapped, MappedNext

(***************************************************************************)
(* A step that leaves the processes of the queue alone does not show.      *)
(***************************************************************************)
LEMMA Unseen ==
  ASSUME NEW q \in Seq(Proc), TypeOK, IsQueue(q), TypeOK', IsQueue(q)',
         current' = current,
         \A p \in Members(q) : state'[p] = state[p],
         \A p \in Proc : p \in Members(q) \/ p = current => ticks'[p] = ticks[p]
  PROVE  UNCHANGED Sharing!vars
<1>1. Queue' = Queue
  BY MappedStep
<1>2. Mode' = Mode
  <2>1. \A p \in Proc : Mode'[p] = Mode[p]
    BY MappedStep
  <2> QED BY <2>1, MappedStep
<1>3. Credit' = Credit
  <2>1. \A p \in Proc : Credit'[p] = Credit[p]
    BY MappedStep
  <2> QED BY <2>1, MappedStep
<1> QED BY <1>1, <1>2, <1>3 DEF Sharing!vars

(***************************************************************************)
(* The statements that show in the round robin: create_process() publishes *)
(* a process, makes it ready and gives it its first ticks.                 *)
(***************************************************************************)
LEMMA CreateShares ==
  ASSUME NEW q \in Seq(Proc), TypeOK, IsQueue(q), TypeOK', OneListOp, NEW t \in Thread
  PROVE  /\ Publish(t) => Sharing!Next
         /\ Setup(t) => Sharing!Next
         /\ FirstTicks(t) => [Sharing!Next]_(Sharing!vars)
<1> USE QueueNodes
<1>1. ASSUME Publish(t) PROVE Sharing!Next
  <2>1. PICK n, r : n = newproc[t] /\ r = Append(q, n)
    OBVIOUS
  <2>2. /\ n \in Proc \ Members(q) /\ state[n] = ZEROED /\ r \in Seq(Proc) /\ IsQueue(r)'
    BY <1>1, <2>1, PublishQueue
  <2>3. /\ UNCHANGED <<state, ticks, current>> /\ pc[t] = "c_publish" /\ current = t
    BY <1>1 DEF Publish, Step, At, fields, cpu
  <2>4. Members(r) = Members(q) \cup {n}
    <3>1. Len(r) = Len(q) + 1 /\ r[Len(q) + 1] = n /\ \A i \in 1 .. Len(q) : r[i] = q[i]
      BY <2>1, <2>2
    <3>2. 1 .. Len(r) = (1 .. Len(q)) \cup {Len(q) + 1}
      BY <3>1
    <3> QED BY <3>1, <3>2 DEF Members
  <2>5. n # current
    BY <2>2 DEF IsQueue, OnCpu
  <2>6. ticks[n] \in {0, Slice}
    BY <2>1, <2>3 DEF IsQueue, Blocks, Filling
  <2>7. Mode' = [Mode EXCEPT ![n] = "new"]
    <3>0. \A p \in Proc :
            /\ Mode[p] = IF p \in Members(q) THEN ModeOf(state[p]) ELSE "none"
            /\ Mode'[p] = IF p \in Members(r) THEN ModeOf(state'[p]) ELSE "none"
      BY <2>2, MappedStep
    <3>1. \A p \in Proc : Mode'[p] = IF p = n THEN "new" ELSE Mode[p]
      BY <2>2, <2>3, <2>4, <3>0, ModeOfEach
    <3> QED BY <2>2, <3>1, MappedStep
  <2>8. Credit' = [Credit EXCEPT ![n] = ticks[n]]
    <3>0. \A p \in Proc :
            /\ Credit[p] = IF p \in Members(q) \/ p = current THEN ticks[p] ELSE 0
            /\ Credit'[p] = IF p \in Members(r) \/ p = current' THEN ticks'[p] ELSE 0
      BY <2>2, MappedStep
    <3>1. \A p \in Proc : Credit'[p] = IF p = n THEN ticks[n] ELSE Credit[p]
      BY <2>2, <2>3, <2>4, <3>0
    <3> QED BY <2>2, <3>1, MappedStep
  <2>9. Queue' = Append(Queue, n) /\ n \notin Sharing!InQueue \cup {current}
    BY ZenonT(30), <2>1, <2>2, <2>5, MappedStep
  <2>10. Sharing!Join(n)
    BY <2>3, <2>6, <2>7, <2>8, <2>9 DEF Sharing!Join
  <2> QED BY <2>2, <2>10 DEF Sharing!Next
<1>2. ASSUME Setup(t) PROVE Sharing!Next
  <2> DEFINE n == newproc[t]
  <2>1. IsQueue(q)' /\ n \in Members(q) /\ n \in Proc /\ state[n] = ZEROED
    BY <1>2, SetupQueue
  <2>2. state' = [state EXCEPT ![n] = READY] /\ UNCHANGED <<ticks, current>>
    BY <1>2 DEF Setup
  <2>3. Mode' = [Mode EXCEPT ![n] = "ready"] /\ Mode[n] = "new"
    <3>1. \A p \in Proc : state'[p] = IF p = n THEN READY ELSE state[p]
      BY <2>1, <2>2 DEF TypeOK
    <3>0. \A p \in Proc :
            /\ Mode[p] = IF p \in Members(q) THEN ModeOf(state[p]) ELSE "none"
            /\ Mode'[p] = IF p \in Members(q) THEN ModeOf(state'[p]) ELSE "none"
      BY <2>1, MappedStep
    <3>2. Mode[n] = "new"
      BY <2>1, <3>0, ModeOfEach
    <3>3. \A p \in Proc : Mode'[p] = IF p = n THEN "ready" ELSE Mode[p]
      BY <2>1, <3>0, <3>1, ModeOfEach
    <3> QED BY <2>1, <3>2, <3>3, MappedStep
  <2>4. Credit' = Credit
    <3>1. \A p \in Proc : Credit'[p] = Credit[p]
      BY <2>1, <2>2, MappedStep
    <3> QED BY <2>1, <3>1, MappedStep
  <2>5. Queue' = Queue
    BY <2>1, MappedStep
  <2>6. Sharing!Admit(n)
    BY <2>2, <2>3, <2>4, <2>5 DEF Sharing!Admit
  <2> HIDE DEF n
  <2> QED BY <2>1, <2>6 DEF Sharing!Next
<1>3. ASSUME FirstTicks(t) PROVE [Sharing!Next]_(Sharing!vars)
  <2> DEFINE n == newproc[t]
  <2>1. IsQueue(q)'
    BY <1>3, QuietSteps
  <2>2. /\ ticks' = [ticks EXCEPT ![n] = Slice] /\ UNCHANGED <<state, current>>
        /\ current = t /\ pc[t] = "c_ticks"
    BY <1>3 DEF FirstTicks, Step, At, cpu
  <2>3. n \in Proc /\ (current \in Proc => current \in Members(q))
    BY <2>2 DEF TypeOK, CreatePc, IsQueue, OnCpu
  <2>4. \A p \in Proc : ticks'[p] = IF p = n THEN Slice ELSE ticks[p]
    BY <2>2, <2>3 DEF TypeOK
  <2>5. CASE n \notin Members(q)
    BY <2>1, <2>2, <2>3, <2>4, <2>5, Unseen
  <2>6. CASE n \in Members(q)
    <3>1. Credit' = [Credit EXCEPT ![n] = Slice]
      <4>0. \A p \in Proc :
              /\ Credit[p] = IF p \in Members(q) \/ p = current THEN ticks[p] ELSE 0
              /\ Credit'[p] = IF p \in Members(q) \/ p = current' THEN ticks'[p] ELSE 0
        BY <2>1, MappedStep
      <4>1. \A p \in Proc : Credit'[p] = IF p = n THEN Slice ELSE Credit[p]
        BY <2>1, <2>2, <2>4, <2>6, <4>0
      <4> QED BY <2>1, <2>3, <4>1, MappedStep
    <3>2. Mode' = Mode
      <4>1. \A p \in Proc : Mode'[p] = Mode[p]
        BY <2>1, <2>2, MappedStep
      <4> QED BY <2>1, <4>1, MappedStep
    <3>3. Queue' = Queue /\ n \in Sharing!InQueue
      BY <2>1, <2>6, MappedStep
    <3>4. Sharing!Endow(n)
      BY <2>2, <3>1, <3>2, <3>3 DEF Sharing!Endow
    <3> HIDE DEF n
    <3> QED BY <2>3, <3>4 DEF Sharing!Next
  <2> QED BY <2>5, <2>6
<1> QED BY <1>1, <1>2, <1>3

(***************************************************************************)
(* The running process falls asleep, gives up its ticks, or unlinks itself.*)
(***************************************************************************)
LEMMA BlockShares ==
  ASSUME NEW q \in Seq(Proc), TypeOK, IsQueue(q), TypeOK', OneListOp, NEW p \in Proc
  PROVE  /\ FallAsleep(p) => Sharing!Next
         /\ DropTicks(p) => Sharing!Next
         /\ Unlink(p) => Sharing!Next
<1> USE QueueNodes
<1>n. p # None
  BY SchedulerAssumption DEF SchedulerAssumption, Link
<1>1. ASSUME FallAsleep(p) PROVE Sharing!Next
  <2>1. IsQueue(q)' /\ p \in Members(q) /\ state[p] = RUNNING
    BY <1>1, SleepQueue
  <2>2. state' = [state EXCEPT ![p] = SLEEPING] /\ UNCHANGED <<ticks, current>> /\ current = p
    BY <1>1 DEF FallAsleep, Step, At, cpu
  <2>3. Mode' = [Mode EXCEPT ![p] = "asleep"] /\ Mode[p] = "running"
    <3>1. \A r \in Proc : state'[r] = IF r = p THEN SLEEPING ELSE state[r]
      BY <2>1, <2>2 DEF TypeOK
    <3>0. \A r \in Proc :
            /\ Mode[r] = IF r \in Members(q) THEN ModeOf(state[r]) ELSE "none"
            /\ Mode'[r] = IF r \in Members(q) THEN ModeOf(state'[r]) ELSE "none"
      BY <2>1, MappedStep
    <3>2. Mode[p] = "running"
      BY <2>1, <3>0, ModeOfEach
    <3>3. \A r \in Proc : Mode'[r] = IF r = p THEN "asleep" ELSE Mode[r]
      BY <2>1, <3>0, <3>1, ModeOfEach
    <3> QED BY <2>1, <3>2, <3>3, MappedStep
  <2>4. Credit' = Credit
    <3>1. \A r \in Proc : Credit'[r] = Credit[r]
      BY <2>1, <2>2, MappedStep
    <3> QED BY <2>1, <3>1, MappedStep
  <2>5. Queue' = Queue /\ p \in Sharing!InQueue
    BY <2>1, MappedStep
  <2>6. Sharing!Doze
    BY <2>2, <2>3, <2>4, <2>5 DEF Sharing!Doze
  <2> QED BY <2>6 DEF Sharing!Next
<1>2. ASSUME DropTicks(p) PROVE Sharing!Next
  <2>1. IsQueue(q)'
    BY <1>2, QuietSteps
  <2>2. ticks' = [ticks EXCEPT ![p] = 0] /\ UNCHANGED <<state, current>> /\ current = p
    BY <1>2 DEF DropTicks, Step, At, cpu
  <2>3. Mode' = Mode
    <3>1. \A r \in Proc : Mode'[r] = Mode[r]
      BY <2>1, <2>2, MappedStep
    <3> QED BY <2>1, <3>1, MappedStep
  <2>4. Credit' = [Credit EXCEPT ![p] = 0]
    <3>1. \A r \in Proc : ticks'[r] = IF r = p THEN 0 ELSE ticks[r]
      BY <2>2 DEF TypeOK
    <3>2. \A r \in Proc : Credit'[r] = IF r = p THEN 0 ELSE Credit[r]
      BY <2>1, <2>2, <3>1, MappedStep
    <3> QED BY <2>1, <3>2, MappedStep
  <2>5. Queue' = Queue
    BY <2>1, MappedStep
  <2>6. Sharing!Yield
    BY <1>n, <2>2, <2>3, <2>4, <2>5 DEF Sharing!Yield
  <2> QED BY <2>6 DEF Sharing!Next
<1>3. ASSUME Unlink(p) PROVE Sharing!Next
  <2>1. /\ UNCHANGED <<state, ticks, current>> /\ pc[p] = "e_unlink" /\ current = p
    BY <1>3 DEF Unlink, Step, At, fields, cpu
  <2>2. PICK i \in 1 .. Len(q) : q[i] = p
    BY <2>1 DEF IsQueue, Removing
  <2>3. PICK r : r = Without(q, i)
    OBVIOUS
  <2>4. r \in Seq(Proc) /\ IsQueue(r)' /\ Members(r) = Members(q) \ {p}
    BY <1>3, <2>2, <2>3, UnlinkQueue
  <2>5. Mode' = [Mode EXCEPT ![p] = "none"]
    <3>1. \A x \in Proc : Mode'[x] = IF x = p THEN "none" ELSE Mode[x]
      BY <2>1, <2>4, MappedStep
    <3> QED BY <2>4, <3>1, MappedStep
  <2>6. Credit' = Credit
    <3>0. \A x \in Proc :
            /\ Credit[x] = IF x \in Members(q) \/ x = current THEN ticks[x] ELSE 0
            /\ Credit'[x] = IF x \in Members(r) \/ x = current' THEN ticks'[x] ELSE 0
      BY <2>4, MappedStep
    <3>1. \A x \in Proc : Credit'[x] = Credit[x]
      BY <2>1, <2>4, <3>0
    <3> QED BY <2>4, <3>1, MappedStep
  <2>7. Queue = q /\ Queue' = [j \in 1 .. Len(q) - 1 |-> IF j < i THEN q[j] ELSE q[j+1]]
    BY <2>3, <2>4, MappedStep DEF Without
  <2>8. i \in DOMAIN q
    BY <2>2
  <2>9. Sharing!Leave
    BY <2>1, <2>2, <2>5, <2>6, <2>7, <2>8 DEF Sharing!Leave
  <2> QED BY <2>9 DEF Sharing!Next
<1> QED BY <1>1, <1>2, <1>3

\* The sleepers whose timeout runs out at this tick.
WakesNow(q) == {p \in Members(q) : state[p] = SLEEPING /\ Timeouts[p] = 0}

(***************************************************************************)
(* What update_timeouts() does to the states of the queue is what waking   *)
(* the sleepers of WakesNow does to their modes.                           *)
(***************************************************************************)
LEMMA WokenMode ==
  ASSUME NEW q \in Seq(Proc), TypeOK, IsQueue(q)
  PROVE  /\ WakesNow(q) \in SUBSET Proc /\ Sharing!Wakes(WakesNow(q))
         /\ \A p \in Members(q) :
              ModeOf(Woken[p]) = Sharing!After(WakesNow(q))[p]
         /\ \A p \in Proc \ Members(q) : Sharing!After(WakesNow(q))[p] = "none"
         /\ Listed = Members(q) /\ Queue = q /\ ListSound
         /\ \A i, j \in 1 .. Len(q) : Before(q[i], q[j]) <=> i < j
         /\ Sharing!InQueue = Members(q)
<1> USE QueueNodes
<1>1. Forward(q)
  BY DEF IsQueue
<1>2. /\ Listed = Members(q) /\ Queue = q /\ ListSound
      /\ \A i, j \in 1 .. Len(q) : Before(q[i], q[j]) <=> i < j
  BY <1>1, QueueFacts
<1>3. \A p \in Proc : Mode[p] = IF p \in Members(q) THEN ModeOf(state[p]) ELSE "none"
  BY <1>1, Mapped
<1>4. Sharing!InQueue = Members(q)
  BY <1>2 DEF Sharing!InQueue, Members
<1>5. WakesNow(q) \subseteq Proc /\ Members(q) \subseteq Proc
  BY DEF WakesNow, Members
<1>6. Sharing!Wakes(WakesNow(q))
  BY <1>3, <1>4, <1>5, ModeOfEach DEF Sharing!Wakes, WakesNow
<1>7. \A p \in Proc : Sharing!After(WakesNow(q))[p] = IF p \in WakesNow(q) THEN "ready" ELSE Mode[p]
  BY DEF Sharing!After
<1>8. \A p \in Members(q) : Woken[p] = IF p \in WakesNow(q) THEN READY ELSE state[p]
  BY <1>2, <1>5 DEF Woken, Sleeping, WakesNow
<1>9. \A p \in Members(q) : ModeOf(Woken[p]) = Sharing!After(WakesNow(q))[p]
  BY <1>3, <1>5, <1>7, <1>8, ModeOfEach
<1>10. \A p \in Proc \ Members(q) : Sharing!After(WakesNow(q))[p] = "none"
  BY <1>3, <1>7 DEF WakesNow
<1> QED BY <1>2, <1>4, <1>5, <1>6, <1>9, <1>10

(***************************************************************************)
(* schedule() keeps the process that runs, which is a tick of the round    *)
(* robin: the sleepers whose timeout runs out wake.                        *)
(***************************************************************************)
LEMMA KeepShares ==
  ASSUME NEW q \in Seq(Proc), TypeOK, IsQueue(q), TypeOK', IsQueue(q)',
         NEW pcs, NEW lines, ScheduleKeep(pcs, lines)
  PROVE  Sharing!Next
<1>1. /\ state' = Woken /\ ticks' = [ticks EXCEPT ![current] = @ - 1]
      /\ current' = current /\ current # None /\ ticks[current] > 0
  BY DEF ScheduleKeep, HasTicks, ScheduleReturns
<1>2. current \in Proc
  BY <1>1 DEF TypeOK, Thread
<1>3. PICK W : W = WakesNow(q)
  OBVIOUS
<1>4. /\ W \in SUBSET Proc /\ Sharing!Wakes(W)
      /\ \A p \in Members(q) : ModeOf(Woken[p]) = Sharing!After(W)[p]
      /\ \A p \in Proc \ Members(q) : Sharing!After(W)[p] = "none"
  BY <1>3, WokenMode
<1>5. \A p \in Proc :
        /\ Mode'[p] = IF p \in Members(q) THEN ModeOf(state'[p]) ELSE "none"
        /\ Credit[p] = IF p \in Members(q) \/ p = current THEN ticks[p] ELSE 0
        /\ Credit'[p] = IF p \in Members(q) \/ p = current' THEN ticks'[p] ELSE 0
  BY MappedStep
<1>6. Mode' = Sharing!After(W)
  <2>1. \A p \in Proc : Mode'[p] = Sharing!After(W)[p]
    BY <1>1, <1>4, <1>5
  <2>2. Sharing!After(W) = [p \in Proc |-> Sharing!After(W)[p]]
    BY DEF Sharing!After
  <2>3. Mode' = [p \in Proc |-> Mode'[p]]
    BY MappedStep
  <2> QED BY <2>1, <2>2, <2>3
<1>7. Credit' = [Credit EXCEPT ![current] = @ - 1]
  <2>1. \A p \in Proc : ticks'[p] = IF p = current THEN ticks[p] - 1 ELSE ticks[p]
    BY <1>1, <1>2 DEF TypeOK
  <2>2. \A p \in Proc : Credit'[p] = IF p = current THEN Credit[p] - 1 ELSE Credit[p]
    BY <1>1, <1>5, <2>1
  <2>3. Credit' \in [Proc -> 0 .. Slice] /\ Credit \in [Proc -> 0 .. Slice]
    BY MappedStep
  <2> QED BY <1>2, <2>2, <2>3
<1>8. Sharing!Spends
  BY <1>1, <1>2, <1>5 DEF Sharing!Spends
<1>9. Queue' = Queue
  BY MappedStep
<1>10. Sharing!Tick(W)
  BY <1>1, <1>4, <1>6, <1>7, <1>8, <1>9 DEF Sharing!Tick
<1> QED BY <1>4, <1>10 DEF Sharing!Next

(***************************************************************************)
(* schedule() switches to the first ready process that has ticks, or, if   *)
(* none has, to the first ready one after a refill.                        *)
(***************************************************************************)
LEMMA SwitchShares ==
  ASSUME NEW q \in Seq(Proc), TypeOK, IsQueue(q), TypeOK', IsQueue(q)',
         NEW pcs, NEW lines, ScheduleSwitch(pcs, lines)
  PROVE  Sharing!Next
<1> USE QueueNodes
<1>1. PICK p \in Proc : /\ Selected(p) /\ state' = [Released EXCEPT ![p] = RUNNING]
                        /\ ticks' = [Refilled EXCEPT ![p] = @ - 1] /\ current' = p
  BY DEF ScheduleSwitch
<1>2. PICK W : W = WakesNow(q)
  OBVIOUS
<1>3. /\ W \in SUBSET Proc /\ Sharing!Wakes(W)
      /\ \A x \in Members(q) : ModeOf(Woken[x]) = Sharing!After(W)[x]
      /\ \A x \in Proc \ Members(q) : Sharing!After(W)[x] = "none"
      /\ Listed = Members(q) /\ Queue = q /\ ListSound
      /\ \A i, j \in 1 .. Len(q) : Before(q[i], q[j]) <=> i < j
      /\ Sharing!InQueue = Members(q)
  BY <1>2, WokenMode
<1>4. \A x \in Proc :
        /\ Mode[x] = IF x \in Members(q) THEN ModeOf(state[x]) ELSE "none"
        /\ Mode'[x] = IF x \in Members(q) THEN ModeOf(state'[x]) ELSE "none"
        /\ Credit[x] = IF x \in Members(q) \/ x = current THEN ticks[x] ELSE 0
        /\ Credit'[x] = IF x \in Members(q) \/ x = current' THEN ticks'[x] ELSE 0
  BY MappedStep
<1>5. Queue' = Queue /\ Members(q) \subseteq Proc
  BY MappedStep DEF Members
<1> DEFINE m      == [x \in Proc |-> IF x = current /\ Mode[x] = "running" THEN "ready"
                                     ELSE Sharing!After(W)[x]]
           ready  == {x \in Sharing!InQueue : m[x] = "ready"}
           funded == {x \in ready : Credit[x] > 0}
           round  == IF funded = {} THEN ready ELSE funded
           purse  == [x \in Proc |-> IF x \notin Sharing!InQueue THEN 0
                                     ELSE IF funded = {} THEN Slice ELSE Credit[x]]
<1>6. \A x \in Members(q) : m[x] = ModeOf(Released[x])
  <2> SUFFICES ASSUME NEW x \in Members(q) PROVE m[x] = ModeOf(Released[x])
    OBVIOUS
  <2>1. x \in Proc /\ Released[x] = IF x = current /\ Woken[x] = RUNNING THEN READY ELSE Woken[x]
    BY <1>5 DEF Released
  <2>2. ModeOf(state[x]) = "running" <=> Woken[x] = RUNNING
    BY <2>1 DEF TypeOK, Woken, ModeOf, ZEROED, READY, RUNNING, SLEEPING, Sleeping
  <2>3. m[x] = IF x = current /\ ModeOf(state[x]) = "running" THEN "ready" ELSE ModeOf(Woken[x])
    BY <1>3, <1>4, <2>1
  <2> QED BY <2>1, <2>2, <2>3, ModeOfEach
<1> HIDE DEF m
<1>7. ready = ReadyProcs
  <2>1. \A x \in Members(q) : ModeOf(Released[x]) = "ready" <=> Released[x] = READY
    <3>1. \A x \in Members(q) : Released[x] \in {ZEROED, READY, RUNNING, SLEEPING}
      BY <1>5 DEF Released, Woken, TypeOK
    <3> QED BY <3>1 DEF ModeOf, ZEROED, READY, RUNNING, SLEEPING
  <2> QED BY <1>3, <1>6, <2>1 DEF ReadyProcs
<1>8. funded = WithTicks
  BY <1>3, <1>4, <1>5, <1>7 DEF WithTicks, ReadyProcs
<1>9. round = Candidates
  BY <1>7, <1>8 DEF Candidates
<1>10. \A x \in Proc : purse[x] = IF x \in Members(q) THEN Refilled[x] ELSE 0
  BY <1>3, <1>4, <1>8 DEF Refilled
<1>11. m = [x \in Proc |-> m[x]] /\ purse = [x \in Proc |-> purse[x]]
  BY DEF m
<1> HIDE DEF ready, funded, round, purse
<1>12. p \in Candidates /\ \A x \in Candidates \ {p} : Before(p, x)
  BY <1>1 DEF Selected
<1>13. Candidates \subseteq Members(q) /\ p \in Members(q)
  BY <1>3, <1>12 DEF Candidates, WithTicks, ReadyProcs
<1>14. PICK i \in 1 .. Len(q) : q[i] = p
  BY <1>13 DEF Members
<1>15. i \in DOMAIN q /\ q[i] \in round /\ \A j \in 1 .. i - 1 : q[j] \notin round
  <2> SUFFICES ASSUME NEW j \in 1 .. i - 1, q[j] \in Candidates PROVE FALSE
    BY <1>9, <1>12, <1>14
  <2>1. j \in 1 .. Len(q) /\ j < i
    BY <1>14
  <2>2. q[j] # p
    BY <1>14, <2>1 DEF IsQueue, Forward
  <2>3. Before(q[i], q[j])
    BY <1>12, <1>14, <2>2
  <2> QED BY <1>3, <2>1, <2>3
<1>16. Mode' = [m EXCEPT ![p] = "running"]
  <2>1. \A x \in Proc : state'[x] = IF x = p THEN RUNNING ELSE Released[x]
    BY <1>1 DEF Released
  <2>2. \A x \in Proc \ Members(q) : m[x] = "none"
    BY <1>3, <1>4 DEF m
  <2>3. \A x \in Proc : Mode'[x] = IF x = p THEN "running" ELSE m[x]
    BY <1>4, <1>6, <1>13, <2>1, <2>2, ModeOfEach
  <2>4. Mode' = [x \in Proc |-> Mode'[x]]
    BY MappedStep
  <2> QED BY <1>1, <1>11, <2>3, <2>4
<1>17. Credit' = [purse EXCEPT ![p] = @ - 1]
  <2>1. \A x \in Proc : ticks'[x] = IF x = p THEN Refilled[x] - 1 ELSE Refilled[x]
    BY <1>1 DEF Refilled
  <2>2. \A x \in Proc : Credit'[x] = IF x = p THEN purse[x] - 1 ELSE purse[x]
    BY <1>1, <1>4, <1>10, <1>13, <2>1
  <2>3. Credit' = [x \in Proc |-> Credit'[x]]
    BY MappedStep
  <2> QED BY <1>1, <1>11, <2>2, <2>3
<1>18. ~Sharing!Spends
  <2>1. current # None => current \in Proc /\ ~(ticks[current] > 0)
    BY DEF ScheduleSwitch, MustSwitch, HasTicks, TypeOK, Thread
  <2> QED BY <1>4, <2>1 DEF Sharing!Spends
<1>19. \E k \in DOMAIN Queue :
          /\ Queue[k] \in round /\ \A j \in 1 .. k - 1 : Queue[j] \notin round
          /\ current' = Queue[k]
          /\ Mode' = [m EXCEPT ![Queue[k]] = "running"]
          /\ Credit' = [purse EXCEPT ![Queue[k]] = @ - 1]
  BY <1>1, <1>3, <1>14, <1>15, <1>16, <1>17
<1>20. Sharing!Switch(W)
  BY <1>3, <1>5, <1>18, <1>19 DEF Sharing!Switch, m, ready, funded, round, purse
<1> QED BY <1>3, <1>20 DEF Sharing!Next

(***************************************************************************)
(* A call of schedule() is a tick or a switch of the round robin, or does  *)
(* not show because preemption is still off.                               *)
(***************************************************************************)
LEMMA ScheduleShares ==
  ASSUME Core \notin Sleepers \cup Enders,
         NEW q \in Seq(Proc), TypeOK, RunningIsCurrent, IsQueue(q), TypeOK',
         NEW pcs, NEW lines, Schedule(pcs, lines), AfterCall(pcs),
         UNCHANGED <<next, prev, newproc, rprev, rnext, mem, count, kernel_preempt>>
  PROVE  [Sharing!Next]_(Sharing!vars)
<1>1. IsQueue(q)' /\ ~ScheduleLost(pcs, lines)
  BY ScheduleQueue
<1>2. ~ScheduleSpins(pcs, lines)
  BY CoreIsReady
<1>3. CASE ScheduleOff(pcs, lines)
  <2>1. UNCHANGED <<state, ticks, current>>
    BY <1>3 DEF ScheduleOff, ScheduleReturns, fields
  <2> QED BY <1>1, <2>1, Unseen
<1>4. CASE ScheduleKeep(pcs, lines)
  BY <1>1, <1>4, KeepShares
<1>5. CASE ScheduleSwitch(pcs, lines)
  BY <1>1, <1>5, SwitchShares
<1> QED BY <1>1, <1>2, <1>3, <1>4, <1>5 DEF Schedule

(***************************************************************************)
(* Every step of the kernel is one of the round robin, or does not show.   *)
(***************************************************************************)
LEMMA StepShares ==
  ASSUME Core \notin Sleepers \cup Enders, NEW q \in Seq(Proc), IsQueue(q),
         TypeOK, TypeOK', RunningIsCurrent, OneListOp, OneListOp', [Next]_vars
  PROVE  [Sharing!Next]_(Sharing!vars)
<1>1. SUFFICES ASSUME ~[Sharing!Next]_(Sharing!vars) PROVE FALSE
  OBVIOUS
<1>2. ASSUME IsQueue(q)', UNCHANGED <<state, ticks, current>> PROVE FALSE
  BY <1>1, <1>2, Unseen
<1>3. ASSUME NEW i \in Irqs, Interrupt(i) PROVE FALSE
  <2>1. Schedule(pc, isr \cup {i}) /\ AfterCall(pc)
    BY <1>3 DEF Interrupt, AfterCall
  <2>2. UNCHANGED <<next, prev, newproc, rprev, rnext, mem, count, kernel_preempt>>
    BY <1>3 DEF Interrupt, links, locals, globals
  <2> QED BY <1>1, <2>1, <2>2, ScheduleShares
<1>4. ASSUME NEW p \in Proc, Expire(p) PROVE FALSE
  <2>1. UNCHANGED <<next, prev, newproc, rprev, rnext, mem, count, kernel_preempt>>
    BY <1>4 DEF Expire, links, locals, globals
  <2>2. PICK pcs : Schedule(pcs, isr) /\ AfterCall(pcs)
    BY <1>4 DEF Expire, At, AfterCall
  <2> QED BY <1>1, <2>1, <2>2, ScheduleShares
<1>5. ASSUME NEW t \in Thread, CreateStep(t) PROVE FALSE
  <2>1. CASE Publish(t) \/ Setup(t) \/ FirstTicks(t)
    BY <1>1, <2>1, CreateShares
  <2>2. CASE ReadPid(t) \/ BumpPid(t) \/ CountUp(t) \/ SetParent(t)
    <3>1. UNCHANGED <<state, ticks, current>>
      BY <2>2 DEF ReadPid, BumpPid, CountUp, SetParent, fields, cpu
    <3> QED BY <1>2, <2>2, <3>1, QuietSteps
  <2>3. CASE ReadTail(t) \/ LinkHead(t) \/ LinkNode(t)
    <3>1. UNCHANGED <<state, ticks, current>>
      BY <2>3 DEF ReadTail, LinkHead, LinkNode, fields, cpu
    <3> QED BY <1>2, <2>3, <3>1, AddQueue
  <2> QED BY <1>5, <2>1, <2>2, <2>3 DEF CreateStep
<1>6. ASSUME NEW p \in Proc, BlockStep(p) PROVE FALSE
  <2>1. CASE DropTicks(p) \/ Unlink(p)
    BY <1>1, <2>1, BlockShares
  <2>2. CASE SetTimeout(p) \/ ExpireReturn(p)
    <3>1. UNCHANGED <<state, ticks, current>>
      BY <2>2 DEF SetTimeout, ExpireReturn, fields, cpu
    <3> QED BY <1>2, <2>2, <3>1, QuietSteps
  <2>3. CASE Relink(p)
    <3>1. UNCHANGED <<state, ticks, current>>
      BY <2>3 DEF Relink, fields, cpu
    <3> QED BY <1>2, <2>3, <3>1, RemoveQueue
  <2>4. CASE FreeProcess(p)
    <3>1. UNCHANGED <<state, ticks, current>>
      BY <2>4 DEF FreeProcess, fields, cpu
    <3> QED BY <1>2, <2>4, <3>1, FreeQueue
  <2> QED BY <1>4, <1>6, <2>1, <2>2, <2>3, <2>4 DEF BlockStep
<1>7. ASSUME NEW t \in Thread, NEW p \in Proc, AllocProcess(t, p) PROVE FALSE
  <2>1. IsQueue(q)'
    BY <1>7, AllocQueue
  <2>2. /\ state' = [state EXCEPT ![p] = ZEROED] /\ ticks' = [ticks EXCEPT ![p] = 0]
        /\ current' = current /\ p \notin mem
        /\ current = t /\ pc[t] \in {"spawn_core", "user"}
    BY <1>7 DEF AllocProcess, MayCreate, At, cpu
  <2>3. p \notin Members(q)
    BY <2>2 DEF IsQueue, Blocks
  <2>4. current \in Proc => current \in Members(q)
    BY <2>2 DEF IsQueue, OnCpu
  <2>5. \A x \in Proc \ {p} : state'[x] = state[x] /\ ticks'[x] = ticks[x]
    BY <2>2 DEF TypeOK
  <2>6. Members(q) \subseteq Proc
    BY DEF Members
  <2> QED BY <1>1, <2>1, <2>2, <2>3, <2>4, <2>5, <2>6, Unseen
<1>8. ASSUME Boot PROVE FALSE
  <2>1. CASE EnablePreempt \/ EnableInts
    <3>1. UNCHANGED <<state, ticks, current>>
      BY <2>1 DEF EnablePreempt, EnableInts, fields, cpu
    <3> QED BY <1>2, <2>1, <3>1, QuietSteps
  <2> QED BY <1>7, <1>8, <2>1, SchedulerAssumption DEF Boot, Thread, SchedulerAssumption
<1>9. ASSUME NEW p \in Proc, Call(p) PROVE FALSE
  <2>1. CASE FallAsleep(p)
    BY <1>1, <2>1, BlockShares
  <2>2. CASE ReadLinks(p)
    <3>1. UNCHANGED <<state, ticks, current>>
      BY <2>2 DEF ReadLinks, fields, cpu
    <3> QED BY <1>2, <2>2, <3>1, RemoveQueue
  <2> QED BY <1>7, <1>9, <2>1, <2>2 DEF Call, Thread
<1>10. ASSUME IrqReturn \/ UNCHANGED vars PROVE FALSE
  <2>1. UNCHANGED <<next, prev, newproc, rprev, rnext, mem, count, kernel_preempt,
                    pc, state, ticks, current>>
    BY <1>10 DEF IrqReturn, vars, links, fields, ids, locals, cpu, globals
  <2>2. Forward(q)' /\ Backward(q)' /\ Adding(q)' /\ Removing(q)'
    BY <2>1 DEF IsQueue, Forward, Backward, Adding, Removing
  <2>3. Blocks(q)' /\ Threads(q)' /\ OnCpu(q)' /\ Booted(q)'
    BY <2>1 DEF IsQueue, Blocks, Threads, Alive, OnCpu, Booted
  <2>4. IsQueue(q)'
    BY <2>2, <2>3 DEF IsQueue
  <2> QED BY <1>2, <2>1, <2>4
<1>11. ASSUME NEW t \in Thread, Continue(t) PROVE FALSE
  BY <1>5, <1>6, <1>8, <1>11 DEF Continue, Thread
<1> QED BY <1>3, <1>9, <1>10, <1>11 DEF Next, Stuck

(***************************************************************************)
(* The kernel starts with an empty queue.                                  *)
(***************************************************************************)
LEMMA InitShares == Init /\ TypeOK => Sharing!Init
<1> SUFFICES ASSUME Init, TypeOK PROVE Sharing!Init
  OBVIOUS
<1>1. PICK q : q = << >>
  OBVIOUS
<1>2. q \in Seq(Proc) /\ IsQueue(q) /\ Members(q) = {}
  BY <1>1, EmptyQueue DEF Members
<1>3. /\ Queue = q
      /\ Mode \in [Proc -> {"none", "new", "ready", "running", "asleep"}]
      /\ Credit \in [Proc -> 0 .. Slice]
      /\ \A p \in Proc : Mode[p] = "none"
                         /\ Credit[p] = IF p = current THEN ticks[p] ELSE 0
  BY <1>2, Mapped DEF IsQueue
<1>4. current = None /\ None \notin Proc
  BY SchedulerAssumption DEF Init, SchedulerAssumption, Link
<1> QED BY <1>1, <1>3, <1>4 DEF Sharing!Init

(***************************************************************************)
(* While list operations do not overlap, and if the core process neither   *)
(* sleeps nor ends, the scheduler shares the CPU as the round robin does.  *)
(***************************************************************************)
THEOREM SharesCpu ==
  ASSUME Core \notin Sleepers \cup Enders
  PROVE  Spec /\ []OneListOp => SharesRoundRobin
<1>1. Init /\ TypeOK => Sharing!Init
  BY InitShares
<1>2. TypeOK /\ TypeOK' /\ RunningIsCurrent /\ OneListOp /\ OneListOp' /\ HasQueue /\ [Next]_vars
      => [Sharing!Next]_(Sharing!vars)
  BY StepShares DEF HasQueue
<1>3. Spec => []TypeOK /\ []RunningIsCurrent
  BY TypeCorrect, OneRunning
<1> QED BY <1>1, <1>2, <1>3, QueueStays, PTL DEF Spec, SharesRoundRobin, Sharing!Spec
=============================================================================
