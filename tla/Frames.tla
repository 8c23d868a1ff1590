------------------------------- MODULE Frames -------------------------------
(***************************************************************************)
(* What a trap and a context switch of LineOS07 put on the stacks: the     *)
(* gates of cpu/interrupt.c and cpu/pic.c, the stubs of cpu/isr.asm and    *)
(* cpu/irq.asm, the handlers they call, switchTo() of                      *)
(* process/switchto.asm and the frame setup_kernel_process() builds.       *)
(*                                                                         *)
(* A stack is the sequence of its words, the top last, so that esp is its  *)
(* length.  A word is a triple <<owner, what, number>>.  Which process     *)
(* schedule() selects is left open here; module Scheduler decides it.      *)
(***************************************************************************)
EXTENDS Naturals, Sequences

CONSTANTS
  Proc,        \* the blocks of the processes
  Core,        \* the block of the core process
  None,        \* NULL, and the owner of the words that belong to no thread
  Points,      \* points of a program at which it is interrupted
  Exceptions,  \* exceptions a program may raise, other than the page fault
  Lines        \* interrupt lines that are raised

Thread == Proc \cup {None}

ASSUME FramesAssumption ==
  /\ Core \in Proc /\ None \notin Proc
  /\ Points \subseteq Nat /\ 0 \in Points
  /\ Exceptions \subseteq (0 .. 31) \ {14, 17}   \* 17 is raised in ring 3 only
  /\ Lines \subseteq 0 .. 15

VARIABLES
  current,   \* k_proclist.current: the thread that runs, None the boot thread
  ready,     \* the processes schedule() may select
  reg,       \* the registers of the CPU
  stack,     \* the words on each thread's stack
  esp,       \* process_t.esp
  trap,      \* history: vector and registers of the trap whose handler is called
  kept       \* history: registers and stack each thread's own code left

vars == <<current, ready, reg, stack, esp, trap, kept>>

Lit(n)    == <<None, "number", n>>
Code(l)   == <<None, l, 0>>             \* an address in the kernel's code
Flags(if) == <<None, "eflags", if>>
Block(p)  == <<p, "process_t", 0>>
Own(t, r, n) == <<t, r, n>>             \* what t's program has in r at point n
Scratch   == Code("scratch")            \* what compiled code leaves behind

Segs   == <<"ds", "es", "fs", "gs">>
Gp     == <<"eax", "ecx", "edx", "ebx", "esp", "ebp", "esi", "edi">>
GpRegs == {Gp[i] : i \in 1 .. 8} \ {"esp"}      \* esp is the length of the stack
Reg    == {Segs[i] : i \in 1 .. 4} \cup GpRegs \cup {"eip", "cs", "eflags"}

\* The words pushed for the registers of a list, first to last.
Pushed(r, list) ==
  [i \in 1 .. Len(list) |-> IF list[i] \in Reg THEN r[list[i]] ELSE Code("esp")]

\* The registers after popping a list, first to last; "-" skips a word, and
\* popad skips the word of esp.
Popped(r, s, list) ==
  [x \in Reg |-> IF \E i \in 1 .. Len(list) : list[i] = x
                   THEN s[Len(s) + 1 - CHOOSE i \in 1 .. Len(list) : list[i] = x]
                   ELSE r[x]]
Drop(s, n) == SubSeq(s, 1, Len(s) - n)

IretList  == <<"eip", "cs", "eflags">>
PopadList == <<"edi", "esi", "ebp", "-", "ebx", "edx", "ecx", "eax">>

\* The boot thread in main(), after enable_ints().
Boot == [x \in Reg |->
           CASE x = "eip" -> Own(None, "program", 0) [] x = "eflags" -> Flags(1)
             [] x = "cs" -> Lit(16)
             [] x \in {"ds", "es", "fs", "gs"} -> Lit(8)
             [] OTHER -> Own(None, x, 0)]
NoTrap == [vector |-> 0, reg |-> Boot]

IF0(r) == [r EXCEPT !["eflags"] = Flags(0)]
IntsOn == reg["eflags"] = Flags(1)
At(l)  == reg["eip"] = Code(l)
InProgram == reg["eip"][2] = "program"

-----------------------------------------------------------------------------
(* Traps *)

\* init_interrupts(), init_pic(): every gate is an interrupt gate (0x8E) of the
\* kernel's code segment.
IsrGates == [v \in 0 .. 31 |-> [sel |-> 16, flags |-> 142]]
\* Faulty variant: trap gates, which leave interrupts enabled.
MutIrqGates == [v \in 32 .. 47 |-> [sel |-> 16, flags |-> 143]]

IrqGates == [v \in 32 .. 47 |-> [sel |-> 16, flags |-> 142]]
Gate(v)  == IF v < 32 THEN IsrGates[v] ELSE IrqGates[v]

\* The CPU pushes an error code of its own for these vectors.
CpuCode == {8, 10, 11, 12, 13, 14, 17}

\* Faulty variant: the stubs of vectors 13 and 14 push an error code, too.
MutIsrWords(v) == IF v \in {8, 10, 11, 12} THEN <<Lit(v)>> ELSE <<Lit(0), Lit(v)>>

\* isr0 .. isr31: the two words every stub leaves under the registers, one of
\* them pushed by the CPU for the vectors 8 and 10 to 14.
IsrWords(v) == IF v \in {8, 10, 11, 12, 13, 14} THEN <<Lit(v)>> ELSE <<Lit(0), Lit(v)>>
IrqWords(v) == <<Lit(0), Lit(v)>>

\* The stubs save all registers, load the kernel's data segment and call the
\* handler with the address of the frame.
SaveList    == Gp \o Segs
Loaded(r)   == [x \in Reg |-> IF x \in {"ds", "es", "fs", "gs"} THEN Lit(8) ELSE r[x]]

\* Faulty variant: the stub drops the vector but not the error code.
MutRestoreList == <<"gs", "fs", "es", "ds">> \o PopadList \o <<"-">> \o IretList

RestoreList == <<"gs", "fs", "es", "ds">> \o PopadList \o <<"-", "-">> \o IretList

\* struct regs of system.h, from the top of the frame.
RegsLayout == <<"gs", "fs", "es", "ds", "edi", "esi", "ebp", "esp", "ebx", "edx",
                "ecx", "eax", "int_no", "err_code", "eip", "cs", "eflags">>
\* The field f of the frame whose handler has just been called.
Field(f) == LET s == stack[current]
            IN  s[Len(s) - 1 - CHOOSE i \in 1 .. 17 : RegsLayout[i] = f]

\* The CPU takes vector v and runs the stub up to the first instruction of the
\* C function; ret is where that function returns to.
Trap(v, words, handler, ret) ==
  LET code  == IF v \in CpuCode THEN <<Lit(0)>> ELSE <<>>
      saved == Pushed(reg, <<"eflags", "cs", "eip">>) \o code \o words \o Pushed(reg, SaveList)
  IN  /\ stack' = [stack EXCEPT ![current] = @ \o saved \o <<Code("regs"), Code(ret)>>]
      /\ reg' = [Loaded(reg) EXCEPT
                   !["eax"] = Code(handler), !["eip"] = Code(handler),
                   !["cs"] = Lit(Gate(v).sel),
                   !["eflags"] = IF Gate(v).flags = 142 THEN Flags(0) ELSE @]
      /\ trap' = [vector |-> v, reg |-> reg]
      /\ UNCHANGED <<current, ready, esp, kept>>

\* irq0 .. irq15
Irq(l) == IntsOn /\ Trap(32 + l, IrqWords(32 + l), "irq_handler", "irq_ret")

\* k_irq_routines[]: init_timer() sets entry 0, init_pic() entry 1.
Routine(l) == CASE l = 0 -> "timer_handler" [] l = 1 -> "press" [] OTHER -> "none"
Pending == Routine(Field("int_no")[3] - 32)

\* isr14: a program touches a page that is not mapped; so may the memcpy() of
\* press(), with interrupts disabled.
PageFault == /\ (IntsOn /\ InProgram) \/ (At("irq_handler") /\ Pending = "press")
             /\ Trap(14, IsrWords(14), "page_fault", "isr_ret")

\* isr0 .. isr31 by way of isr_common_stub.
Exception(v) == InProgram /\ Trap(v, IsrWords(v), "fault_handler", "isr_ret")

\* A step of compiled code that goes on at l with stack s.
Goto(l, s) ==
  /\ reg' = [reg EXCEPT !["eip"] = l, !["eax"] = Scratch, !["ecx"] = Scratch, !["edx"] = Scratch]
  /\ stack' = [stack EXCEPT ![current] = s]
  /\ trap' = NoTrap
  /\ UNCHANGED <<current, ready, esp, kept>>
Return == LET s == stack[current] IN Goto(s[Len(s)], Drop(s, 1))

\* irq_handler(): timer_handler() calls schedule(), press() for one key only.
IrqHandler ==
  /\ At("irq_handler")
  /\ \/ Pending # "none" /\ Goto(Code("schedule"), Append(stack[current], Code("irq_eoi")))
     \/ Pending # "timer_handler" /\ Goto(Code("irq_eoi"), stack[current])
IrqEoi == At("irq_eoi") /\ Return

\* page_fault() maps a page (module Pages) and returns.
FaultMapped == At("page_fault") /\ Return

\* fault_handler() prints the frame and loops for ever.
FaultHalts == /\ At("fault_handler") /\ Field("int_no")[3] # 14
              /\ UNCHANGED vars

\* irq_common_stub and isr14 behind the call: pop eax, the registers, add esp, iret.
TrapReturn ==
  /\ At("irq_ret") \/ At("isr_ret")
  /\ LET s == Drop(stack[current], 1)
     IN  /\ reg' = Popped(reg, s, RestoreList)
         /\ stack' = [stack EXCEPT ![current] = Drop(s, Len(RestoreList))]
  /\ UNCHANGED <<current, ready, esp, trap, kept>>

-----------------------------------------------------------------------------
(* The context switch *)

\* Faulty variant: the segments are popped first.
MutSwitchList == <<"gs", "fs", "ds", "es">> \o PopadList \o IretList

PushList   == <<"eflags", "cs", "eip", "es", "ds", "fs", "gs">> \o Gp
SwitchList == PopadList \o <<"gs", "fs", "ds", "es">> \o IretList

\* schedule() selects n and calls switchTo(n): the argument lies below the 15
\* words that are pushed, esp goes to the process_t of the old process, if any.
SwitchTo(n) ==
  LET from == [reg EXCEPT !["eip"] = Code("switched")]     \* pop eax, push eax
      old  == stack[current] \o <<Block(n)>> \o Pushed(from, PushList)
      to   == old[Len(old) - 15][1]                        \* [esp+60]
      mem  == [stack EXCEPT ![current] = old]
      top  == [esp EXCEPT ![current] = IF current # None THEN Len(old) ELSE @]
      s    == SubSeq(mem[to], 1, top[to])
  IN  /\ current' = to
      /\ esp' = top
      /\ reg' = Popped(reg, s, SwitchList)
      /\ stack' = [mem EXCEPT ![to] = Drop(s, Len(SwitchList))]
      /\ UNCHANGED <<ready, trap, kept>>

\* schedule() called by an interrupt while the process has ticks left.
StillTicks == /\ At("schedule") /\ stack[current][Len(stack[current])] = Code("irq_eoi")
              /\ Return
Switch     == At("schedule") /\ \E n \in ready : SwitchTo(n)
\* select_next_process() with no process left.
FindProc   == At("schedule") /\ ready = {} /\ UNCHANGED vars
\* Behind the call of switchTo(): drop the argument and return.
Switched   == /\ At("switched")
              /\ LET s == Drop(stack[current], 1) IN Goto(s[Len(s)], Drop(s, 1))

-----------------------------------------------------------------------------
(* What a thread does outside of traps; it leaves r in the registers and s on
   its stack, whatever happens in between. *)

Leaves(t, r, s) == kept' = [kept EXCEPT ![t] = [reg |-> r, stack |-> s]]
OwnStep(r, s) == /\ reg' = r /\ stack' = [stack EXCEPT ![current] = s]
                 /\ Leaves(current, r, s)
                 /\ UNCHANGED <<current, esp, trap>>

Compute(n) ==
  /\ InProgram
  /\ OwnStep([x \in Reg |-> IF x = "eip" THEN Own(current, "program", n)
                            ELSE IF x \in GpRegs THEN Own(current, x, n)
                            ELSE reg[x]], stack[current])
  /\ UNCHANGED ready

\* process_end() takes the process off the list and frees its block.
End == /\ InProgram /\ current \in ready /\ ready' = ready \ {current}
       /\ UNCHANGED <<current, reg, stack, esp, trap, kept>>

\* process_expire() up to its call of schedule().
Expire ==
  /\ InProgram /\ current # None
  /\ LET s == stack[current] \o <<reg["eip"], Code("expired")>>
     IN  OwnStep([IF0(reg) EXCEPT !["eip"] = Code("schedule")], s)
  /\ UNCHANGED ready

\* The end of process_expire(): enable_ints(), and its return.  The compiler's
\* convention keeps all registers but eax, ecx and edx.
EnableInts ==
  /\ At("expired")
  /\ reg' = [reg EXCEPT !["eip"] = Code("expire_ret"), !["eflags"] = Flags(1)]
  /\ Leaves(current, [kept[current].reg EXCEPT
                        !["eip"] = Code("expire_ret"), !["eflags"] = Flags(1),
                        !["eax"] = Scratch, !["ecx"] = Scratch, !["edx"] = Scratch],
            Drop(kept[current].stack, 1))
  /\ UNCHANGED <<current, ready, stack, esp, trap>>
ExpireReturns == /\ At("expire_ret")
                 /\ LET s == stack[current]
                    IN  OwnStep([reg EXCEPT !["eip"] = s[Len(s)]], Drop(s, 1))
                 /\ UNCHANGED ready

\* Faulty variant: the flags of the new frame are 0x002, not 0x202.
MutNewFrame(p) ==
  <<Block(p), Flags(0), Lit(16), Own(p, "program", 0),
    Lit(8), Lit(8), Lit(8), Lit(8),
    Lit(0), Lit(0), Lit(0), Lit(0), Lit(0), Lit(0), Lit(8), Lit(8)>>

\* Faulty variant: the entry point is pushed before the code segment.
MutNewFrameOrder(p) ==
  <<Block(p), Flags(1), Own(p, "program", 0), Lit(16),
    Lit(8), Lit(8), Lit(8), Lit(8),
    Lit(0), Lit(0), Lit(0), Lit(0), Lit(0), Lit(0), Lit(8), Lit(8)>>

\* setup_kernel_process(): the frame of a process that has not run yet.
NewFrame(p) ==
  <<Block(p), Flags(1), Lit(16), Own(p, "program", 0),
    Lit(8), Lit(8), Lit(8), Lit(8),
    Lit(0), Lit(0), Lit(0), Lit(0), Lit(0), Lit(0), Lit(8), Lit(8)>>
\* A process function starts with these registers, and with its process_t
\* where a called function finds its return address.
Fresh(p) ==
  [reg |-> [x \in Reg |->
              CASE x = "eip" -> Own(p, "program", 0) [] x = "eflags" -> Flags(1)
                [] x = "cs" -> Lit(16)
                [] x \in {"ds", "es", "fs", "gs", "esi", "edi"} -> Lit(8)
                [] OTHER -> Lit(0)],
   stack |-> <<Block(p)>>]

\* Faulty variant: the creator is made eligible, not the new process.
MutCreate(p) ==
  /\ InProgram /\ p \notin ready \cup {current}
  /\ IF current = None THEN p = Core /\ ready = {} ELSE current \in ready
  /\ stack' = [stack EXCEPT ![p] = NewFrame(p)]
  /\ esp' = [esp EXCEPT ![p] = Len(NewFrame(p))]
  /\ ready' = ready \cup {current}
  /\ kept' = [kept EXCEPT ![p] = Fresh(p)]
  /\ UNCHANGED <<current, reg, trap>>

\* create_process(): the process is eligible with the last store of
\* setup_kernel_process().  main() creates the core process only.
Create(p) ==
  /\ InProgram /\ p \notin ready \cup {current}
  /\ IF current = None THEN p = Core /\ ready = {} ELSE current \in ready
  /\ stack' = [stack EXCEPT ![p] = NewFrame(p)]
  /\ esp' = [esp EXCEPT ![p] = Len(NewFrame(p))]
  /\ ready' = ready \cup {p}
  /\ kept' = [kept EXCEPT ![p] = Fresh(p)]
  /\ UNCHANGED <<current, reg, trap>>

-----------------------------------------------------------------------------
Init ==
  /\ current = None /\ ready = {}
  /\ reg = Boot
  /\ stack = [t \in Thread |-> <<>>]
  /\ esp = [t \in Thread |-> 0]
  /\ trap = NoTrap
  /\ kept = [t \in Thread |-> [reg |-> Boot, stack |-> <<>>]]

Next ==
  \/ \E l \in Lines : Irq(l)
  \/ PageFault
  \/ \E v \in Exceptions : Exception(v)
  \/ IrqHandler \/ IrqEoi \/ FaultMapped \/ FaultHalts \/ TrapReturn
  \/ StillTicks \/ Switch \/ FindProc \/ Switched
  \/ \E n \in Points : Compute(n)
  \/ End \/ Expire \/ EnableInts \/ ExpireReturns
  \/ \E p \in Proc : Create(p)

Spec == Init /\ [][Next]_vars
=============================================================================
