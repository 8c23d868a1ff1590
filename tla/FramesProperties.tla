--------------------------- MODULE FramesProperties ---------------------------
(***************************************************************************)
(* What traps and context switches promise to the code they interrupt.     *)
(***************************************************************************)
EXTENDS Frames

\* What a word may be: a number, flags, a process_t, what a register holds while
\* a program runs, or an address in the kernel's code.
Kinds == {"number", "eflags", "process_t", "program"} \cup GpRegs
         \cup {"irq_handler", "irq_eoi", "irq_ret", "page_fault", "fault_handler", "isr_ret",
               "schedule", "switched", "expired", "expire_ret", "scratch", "esp", "regs"}
IsWord(w) == w[1] \in Thread /\ w[2] \in Kinds /\ w[3] \in Nat

\* The type of every variable; a word is <<owner, what, number>>.
TypeOK ==
  /\ current \in Thread /\ ready \subseteq Proc
  /\ DOMAIN reg = Reg /\ DOMAIN stack = Thread /\ DOMAIN kept = Thread
  /\ \A x \in Reg : IsWord(reg[x])
  /\ \A t \in Thread : \A i \in DOMAIN stack[t] : IsWord(stack[t][i])
  /\ esp \in [Thread -> Nat]
  /\ trap.vector \in 0 .. 47

\* Whenever interrupts are enabled, the CPU runs code of a thread and not of a
\* trap, and then all its registers and its stack are what this thread's own
\* code left, whatever interrupts, page faults, switches and other threads came
\* in between: the stubs of isr.asm and irq.asm, switchTo() and the frame of
\* setup_kernel_process() push and pop the same words in the same order.
ThreadsUndisturbed ==
  IntsOn => reg = kept[current].reg /\ stack[current] = kept[current].stack

\* The handlers in C find in struct regs (system.h) the vector and the registers
\* of the trap they handle: stubs of vectors with and without an error code
\* leave the same frame (comment of system.h: "what the stack looks like after
\* an ISR was running").
FrameReadable ==
  At("page_fault") \/ At("fault_handler") \/ (At("irq_handler") /\ trap.vector >= 32) =>
    /\ Field("int_no") = Lit(trap.vector)
    /\ \A x \in Reg : Field(x) = trap.reg[x]

\* A process that does not run has a whole frame on its stack, to which its
\* process_t.esp points: the frame of its last switch or of its creation.  It
\* comes back in schedule() with interrupts still disabled, or at its first
\* instruction with interrupts enabled.
FrameWaits ==
  \A p \in ready \ {current} :
    /\ esp[p] = Len(stack[p])
    /\ LET r == Popped(reg, stack[p], SwitchList)
       IN  \/ r["eip"] = Code("switched") /\ r["eflags"] = Flags(0)
           \/ r = Fresh(p).reg

\* Traps do not nest but for a page fault in press(): between two steps of a
\* program no stack ever holds more than what the program has pushed (a return
\* address into process_expire() and its own), one interrupt frame with its
\* calls, and one more frame.
StackBounded ==
  \A t \in Thread : Len(stack[t]) <= 2 + 19 + 19

\* Only a trap or process_expire() disables interrupts, and on every path back
\* to a program they are enabled again.
ProgramsAreInterruptible == InProgram => IntsOn
-----------------------------------------------------------------------------
(***************************************************************************)
(* The inductive invariant behind the proofs: from the words on its stack  *)
(* every thread, running or not, finds back to what its own code left.     *)
(***************************************************************************)

\* The frame of a trap v that interrupted the registers r (regs of system.h), and
\* the one switchTo() leaves of a thread that had the registers r; popad skips e.
Frame(r, v) ==
  <<r["eflags"], r["cs"], r["eip"], Lit(0), Lit(v),
    r["eax"], r["ecx"], r["edx"], r["ebx"], Code("esp"), r["ebp"], r["esi"], r["edi"],
    r["ds"], r["es"], r["fs"], r["gs"]>>
SwFrame(r, e) ==
  <<r["eflags"], r["cs"], r["eip"], r["es"], r["ds"], r["fs"], r["gs"],
    r["eax"], r["ecx"], r["edx"], r["ebx"], e, r["ebp"], r["esi"], r["edi"]>>

\* What a thread's own code may have left: it is in its program, or returns to it
\* from process_expire(), or waits there for schedule() to return.
InOwn(t, k) ==
  /\ k.reg["eip"][2] = "program" /\ k.reg["eflags"] = Flags(1)
  /\ Len(k.stack) = IF t = None THEN 0 ELSE 1
Returns(t, k) ==
  /\ t # None /\ k.reg["eip"] = Code("expire_ret") /\ k.reg["eflags"] = Flags(1)
  /\ Len(k.stack) = 2 /\ k.stack[2][2] = "program"
Expires(t, k) ==
  /\ t # None /\ k.reg["eip"] = Code("schedule") /\ k.reg["eflags"] = Flags(0)
  /\ Len(k.stack) = 3 /\ k.stack[2][2] = "program" /\ k.stack[3] = Code("expired")
Leftover(t, k) == InOwn(t, k) \/ Returns(t, k) \/ Expires(t, k)

\* The stack of a thread interrupted by v, at the first instruction of a handler.
Entered(k, v, ret) == (k.stack \o Frame(k.reg, v)) \o <<Code("regs"), Code(ret)>>
\* ... behind the call of the handler, and in the schedule() it calls.
Leaving(k, v) == (k.stack \o Frame(k.reg, v)) \o <<Code("regs")>>
Ticking(k, v) == Append(Entered(k, v, "irq_ret"), Code("irq_eoi"))
\* ... and of one in whose press() a page fault came.
Nested(k, v, q) == Entered(k, v, "irq_ret") \o Frame(q, 14)
InPress(q) == q["eip"] = Code("irq_handler") /\ q["eflags"] = Flags(0)

\* One more word on the stack s than on u.
OneMore(s, u) == Len(s) = Len(u) + 1 /\ Drop(s, 1) = u

InExpire(k, s, r) ==
  \/ r = [k.reg EXCEPT !["eip"] = Code("switched")] /\ OneMore(s, k.stack)
  \/ /\ r = [k.reg EXCEPT !["eip"] = Code("expired"), !["eax"] = Scratch,
                          !["ecx"] = Scratch, !["edx"] = Scratch]
     /\ s = Drop(k.stack, 1)

InTrap(k, s, r) ==
  \E v \in 0 .. 47 :
    \/ r["eip"] = Code("page_fault") /\ v = 14 /\ s = Entered(k, v, "isr_ret")
    \/ r["eip"] = Code("fault_handler") /\ v < 32 /\ v # 14 /\ s = Entered(k, v, "isr_ret")
    \/ r["eip"] = Code("isr_ret") /\ s = Leaving(k, v)
    \/ r["eip"] = Code("irq_ret") /\ s = Leaving(k, v)
    \/ /\ v >= 32
       /\ \/ r["eip"] \in {Code("irq_handler"), Code("irq_eoi")} /\ s = Entered(k, v, "irq_ret")
          \/ r["eip"] = Code("schedule") /\ s = Ticking(k, v)
          \/ r["eip"] = Code("switched") /\ OneMore(s, Ticking(k, v))

InInner(k, s, r) ==
  \E v \in 32 .. 47 :
    \/ /\ r["eip"] = Code("page_fault") /\ Len(s) >= 36
       /\ LET q == Popped(k.reg, Drop(s, 2), RestoreList)
          IN  InPress(q) /\ s = Nested(k, v, q) \o <<Code("regs"), Code("isr_ret")>>
    \/ /\ r["eip"] = Code("isr_ret") /\ Len(s) >= 36
       /\ LET q == Popped(k.reg, Drop(s, 1), RestoreList)
          IN  InPress(q) /\ s = Nested(k, v, q) \o <<Code("regs")>>

\* The stack s and the registers r of a thread whose own code left k.
Shape(t, k, s, r) ==
  \/ Leftover(t, k) /\ s = k.stack /\ r = k.reg
  \/ Expires(t, k) /\ InExpire(k, s, r)
  \/ /\ InOwn(t, k) \/ Returns(t, k)
     /\ r["eflags"] = Flags(0) /\ (InTrap(k, s, r) \/ InInner(k, s, r))

\* The stack s and the process_t.esp e of a thread that waits for the CPU.
Waiting(t, k, s, e) ==
  /\ Len(s) >= 15 /\ e = Len(s)
  /\ LET r == Popped(k.reg, s, SwitchList)
     IN  /\ s = Drop(s, 15) \o SwFrame(r, s[Len(s) - 3]) /\ Shape(t, k, Drop(s, 15), r)
         /\ (r["eip"] = Code("switched") /\ r["eflags"] = Flags(0)) \/ r = Fresh(t).reg

\* Wherever the threads are interrupted or switched, the running one is a given
\* number of words above the stack its own code left, with the registers of that
\* code in the frames between, and so is every thread that waits for schedule()
\* below the frame of its last switchTo() or of setup_kernel_process(): isr.asm,
\* irq.asm, switchto.asm and process.c agree on what lies where.
StacksIntact ==
  /\ Shape(current, kept[current], stack[current], reg)
  /\ \A p \in ready \ {current} : Waiting(p, kept[p], stack[p], esp[p])
  /\ At("irq_ret") \/ At("isr_ret") => trap.vector = 0
===============================================================================
