------------------------- MODULE SchedulerProperties -------------------------
(***************************************************************************)
(* What the scheduler of LineOS07 should keep, and what its comments say.  *)
(***************************************************************************)
EXTENDS Scheduler, Sequences

(***************************************************************************)
(* Every variable holds a value its C declaration allows, and a thread in  *)
(* the middle of create_process() has a block to fill in.                  *)
(***************************************************************************)
TypeOK ==
  /\ next \in [Link -> Ptr] /\ prev \in [Link -> Ptr]
  /\ state \in [Proc -> {ZEROED, READY, RUNNING, SLEEPING}]
  /\ ticks \in [Proc -> 0 .. Slice]
  /\ timeout \in [Proc -> 0 .. Word - 1]
  /\ pid \in [Proc -> 0 .. PidWord - 1] /\ pidcnt \in 0 .. PidWord - 1
  /\ parent \in [Proc -> Thread]
  /\ current \in Thread
  /\ count \in 0 .. CountCap /\ kernel_preempt \in BOOLEAN
  /\ mem \subseteq Proc
  /\ pc \in [Thread -> Pc]
  /\ newproc \in [Thread -> Thread]
  /\ \A t \in Thread : pc[t] \in CreatePc => newproc[t] \in Proc
  /\ rprev \in [Thread -> Ptr] /\ rnext \in [Thread -> Ptr]
  /\ iflag \in BOOLEAN
  /\ inIrq \in [Thread -> BOOLEAN] /\ savedIF \in [Proc -> BOOLEAN]
  /\ isr \subseteq Irqs

(***************************************************************************)
(* At most one process is PROC_RUNNING, and it is k_proclist.current: the  *)
(* release and the selection in schedule() (process.c:375-384) agree with  *)
(* what switchTo() runs, however process_sleep() and process_end() were    *)
(* interrupted, and even when the run queue is damaged.                    *)
(***************************************************************************)
RunningIsCurrent == \A p \in Proc : state[p] = RUNNING => p = current

(***************************************************************************)
(* The end of interrupt that schedule() sends before it switches           *)
(* (process.c:387) and the one irq_handler() sends after it (handler.c:50) *)
(* together leave no line in service when the CPU takes interrupts again,  *)
(* whichever thread it then runs; otherwise the timer would be dead.  A    *)
(* line in service always has its handler's frame on the current stack.    *)
(***************************************************************************)
InterruptDiscipline ==
  /\ iflag => isr = {} /\ ~inIrq[current]
  /\ isr # {} => inIrq[current]
  /\ \A i, j \in isr : i = j
  /\ \A p \in Proc : p # current /\ savedIF[p] => ~inIrq[p]

(***************************************************************************)
(* select_next_process() never loops for ever with interrupts disabled.    *)
(***************************************************************************)
NoHang == \A t \in Thread : pc[t] # "findproc"

(***************************************************************************)
(* Whatever statement of list_add_tail() or list_del() the timer falls on, *)
(* the forward walk that schedule() makes comes back to the head and meets *)
(* no freed process; between list operations every link has its inverse.   *)
(***************************************************************************)
ListOpPc == {"c_headprev", "c_node", "c_publish", "e_relink", "e_unlink"}

ListIntact ==
  /\ ListSound /\ Listed \subseteq mem
  /\ (\A t \in Thread : pc[t] \notin ListOpPc) =>
        \A l \in Listed \cup {ListHead} : prev[next[l]] = l

(***************************************************************************)
(* What ListIntact and the properties below rest on while no two list      *)
(* operations overlap: q is the run queue, and how far the call of each    *)
(* thread has come.                                                        *)
(***************************************************************************)
OneListOp == \A t, u \in Thread : pc[t] \in ListOpPc /\ pc[u] \in ListOpPc => t = u

\* The queue as the forward walk finds it.
Queue ==
  LET n == CHOOSE i \in Steps : Walk[i] = ListHead /\ \A j \in 0 .. i - 1 : Walk[j] # ListHead
  IN  [i \in 1 .. n |-> Walk[i-1]]

Node(q, i)  == IF i \in 1 .. Len(q) THEN q[i] ELSE ListHead
Members(q)  == {q[i] : i \in 1 .. Len(q)}
Alive(q, p) == p \in Members(q) /\ state[p] # ZEROED

\* Every link leads to the next node, and every back link back, but for the one
\* that list_add_tail() or list_del() has already changed.
Forward(q) ==
  /\ \A i, j \in 1 .. Len(q) : q[i] = q[j] => i = j
  /\ \A i \in 0 .. Len(q) : next[Node(q, i)] = Node(q, i + 1)

Backward(q) ==
  \A i \in 0 .. Len(q) :
    \/ prev[Node(q, i + 1)] = Node(q, i)
    \/ i = Len(q) /\ \E t \in Thread : pc[t] \in {"c_node", "c_publish"}
    \/ i > 0 /\ pc[q[i]] = "e_unlink"

\* What the thread inside list_add_tail() or list_del() holds in registers.
Adding(q) ==
  \A t \in Thread :
    /\ pc[t] \in {"c_headprev", "c_node", "c_publish"} => rprev[t] = Node(q, Len(q))
    /\ pc[t] \in {"c_node", "c_publish"} => prev[ListHead] = newproc[t]
    /\ pc[t] = "c_publish" => next[newproc[t]] = ListHead /\ prev[newproc[t]] = rprev[t]

Removing(q) ==
  \A p \in Proc : pc[p] \in {"e_relink", "e_unlink"} =>
    \E i \in 1 .. Len(q) :
      /\ q[i] = p /\ rprev[p] = Node(q, i - 1) /\ rnext[p] = Node(q, i + 1)
      /\ pc[p] = "e_unlink" => prev[rnext[p]] = rprev[p]

\* A block that create_process() fills in is its creator's alone.
Filling == {"c_pid", "c_pidcnt", "c_tail", "c_headprev", "c_node", "c_publish", "c_setup"}

Blocks(q) ==
  /\ Members(q) \subseteq mem
  /\ \A t \in Thread : pc[t] \in Filling =>
       /\ newproc[t] \in mem /\ state[newproc[t]] = ZEROED
       /\ newproc[t] \in Members(q) <=> pc[t] = "c_setup"
       /\ pc[t] # "c_setup" => ticks[newproc[t]] \in {0, Slice}
       /\ \A u \in Thread \ {t} : pc[u] \in Filling => newproc[u] # newproc[t]

\* Only a process on the queue is in the middle of a call, or sleeps.
InCall == CreatePc \cup SleepPc \cup {"e_relink", "e_unlink"}

Threads(q) ==
  \A p \in Proc :
    /\ pc[p] \in InCall => Alive(q, p)
    /\ Alive(q, p) => pc[p] \in InCall \cup {"user", "findproc"}
    /\ state[p] = SLEEPING => p \in Members(q) /\ pc[p] \in SleepPc \cup {"findproc"}

\* The process on the CPU is on the queue until the store that unlinks it; in
\* its program, and when process_sleep() returns, it is PROC_RUNNING.
OnCpu(q) ==
  current \in Proc =>
    /\ kernel_preempt /\ count > 0 /\ state[current] # ZEROED
    /\ current \in Members(q) \/ pc[current] \in {"e_free", "e_ticks", "e_expire", "findproc"}
    /\ pc[current] = "e_free" => current \in mem
    /\ pc[current] = "e_expire" => ticks[current] = 0
    /\ pc[current] \in CreatePc \cup {"user", "s_return"} => state[current] = RUNNING
    /\ pc[current] = "s_expire" /\ ticks[current] > 0 => state[current] = RUNNING

\* The boot thread does not come back once its call of create_process() has
\* counted the core process, which stays unless its program blocks.
Booted(q) ==
  /\ pc[None] \in BootPc \cup CreatePc \cup {"user", "findproc"}
  /\ count > 0 => pc[None] \in {"c_ticks", "c_parent", "user", "findproc"}
  /\ pc[None] \in CreatePc => newproc[None] = Core
  /\ Core \notin Sleepers \cup Enders =>
       /\ pc[Core] \notin {"e_relink", "e_unlink"}
       /\ count > 0 \/ pc[None] = "c_count" =>
            Core \in Members(q) /\ state[Core] \in {READY, RUNNING}

IsQueue(q) ==
  /\ Forward(q) /\ Backward(q) /\ Adding(q) /\ Removing(q)
  /\ Blocks(q) /\ Threads(q) /\ OnCpu(q) /\ Booted(q)

(***************************************************************************)
(* The inductive invariant behind the proofs of ListIntact, of             *)
(* EndNeverReturns and of ProgramIsRunning: whichever statement of         *)
(* create_process(), process_sleep() and process_end() each process was    *)
(* interrupted at, the forward walk is a queue in this sense.              *)
(***************************************************************************)
QueueIntact == ListSound /\ IsQueue(Queue)

(***************************************************************************)
(* process_end() does not return: the thread has no caller to return to.   *)
(***************************************************************************)
EndNeverReturns == pc[current] # "e_return"

(***************************************************************************)
(* A process whose program runs is PROC_RUNNING.  process_sleep() sets     *)
(* PROC_SLEEPING long before it gives up the CPU, and the timer may wake   *)
(* the caller meanwhile; it must not get back to its program in a state in *)
(* which schedule() would not release it, or would count its timeout.      *)
(***************************************************************************)
ProgramIsRunning ==
  current \in Proc /\ pc[current] \in CreatePc \cup {"user", "s_return"}
    /\ ~inIrq[current]
  => state[current] = RUNNING

(***************************************************************************)
(* give_ticks() starts a new round only when the old one is used up: no    *)
(* process gets fresh ticks while another ready one still has some, except *)
(* a new process its first ones from create_process() (process.c:123).     *)
(***************************************************************************)
FirstOnes(p) == \E t \in Thread : At(t, "c_ticks") /\ newproc[t] = p

NewRoundWhenUsedUp ==
  [][ \A p \in Proc :
        ticks'[p] > ticks[p] /\ ~FirstOnes(p)
        => \A q \in Listed : state[q] = READY => ticks[q] = 0 ]_vars

(***************************************************************************)
(* A process leaves PROC_SLEEPING only when its timeout runs out.          *)
(***************************************************************************)
WakesOnTimeout ==
  [][ \A p \in Proc :
        state[p] = SLEEPING /\ state'[p] # SLEEPING
        => timeout[p] = 1 /\ timeout'[p] = 0 ]_vars

(***************************************************************************)
(* No starvation: a listed ready process gets the CPU.                     *)
(***************************************************************************)
ReadyRuns ==
  \A p \in Proc : (p \in Listed /\ state[p] = READY) ~> (current = p)

(***************************************************************************)
(* process_sleep() returns, unless all processes sleep at once: then       *)
(* select_next_process() loops for ever with interrupts disabled, and no   *)
(* timeout is counted any more (process.c:299).                            *)
(***************************************************************************)
SleepReturns ==
  \A p \in Proc : (pc[p] = "s_timeout") ~> (pc[p] = "user" \/ ~NoHang)

(***************************************************************************)
(* The scheduler shares the CPU like the round robin that knows a queue    *)
(* instead of links, and no interrupts: whatever statement of              *)
(* create_process(), process_sleep(), process_end() or process_expire() an *)
(* interrupt falls on, schedule() keeps, refills and selects as that does. *)
(* A process is in the queue from the store that publishes it to the one   *)
(* that unlinks it.                                                        *)
(***************************************************************************)
Mode == [p \in Proc |->
           IF p \notin Listed THEN "none"
           ELSE CASE state[p] = ZEROED  -> "new"
                  [] state[p] = READY   -> "ready"
                  [] state[p] = RUNNING -> "running"
                  [] OTHER              -> "asleep"]

Credit == [p \in Proc |-> IF p \in Listed \cup {current} THEN ticks[p] ELSE 0]

Sharing == INSTANCE RoundRobin
             WITH queue <- Queue, mode <- Mode, credit <- Credit, runs <- current

SharesRoundRobin == Sharing!Spec

-----------------------------------------------------------------------------
(* What comments of the code say, and the code does not keep.              *)

(***************************************************************************)
(* process.c:337 "Set timeout ticks": a process that is off the CPU and    *)
(* asleep counts down the number of ticks it was given.                    *)
(***************************************************************************)
SleepsAsAsked ==
  \A p \in Proc : state[p] = SLEEPING /\ p # current
                    => \E n \in SleepArgs : timeout[p] <= n

(***************************************************************************)
(* process.c:153 "Remove this process from the active process list": a     *)
(* process that has ended is off the list.                                 *)
(***************************************************************************)
EndedIsOffList == \A p \in Proc \ mem : p \notin Listed
=============================================================================
