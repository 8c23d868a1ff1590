------------------------------ MODULE RoundRobin ------------------------------
(***************************************************************************)
(* How a CPU is shared, without links, interrupts, frames or half done     *)
(* calls: processes stand in a queue in the order they were created, the   *)
(* one that runs keeps the CPU while it has credit, then the first one in  *)
(* the queue that is ready and has credit gets it, and only if none has is *)
(* everyone's credit renewed.                                              *)
(***************************************************************************)
EXTENDS Naturals, Sequences

CONSTANTS Proc, None, Slice

VARIABLES
  queue,    \* the processes, the oldest first
  mode,     \* of each in the queue: "new", "ready", "running" or "asleep"
  credit,   \* of each in the queue and of the one that runs
  runs      \* the process that has the CPU, or None

vars == <<queue, mode, credit, runs>>

InQueue == {queue[i] : i \in DOMAIN queue}

Init == /\ queue = <<>> /\ runs = None
        /\ mode = [p \in Proc |-> "none"] /\ credit = [p \in Proc |-> 0]

\* The block of a new process may be one that an earlier call of create_process()
\* has yet to give its first ticks (process.c:123), so it may come with credit.
Join(p)  == /\ p \notin InQueue \cup {runs}
            /\ queue' = Append(queue, p)
            /\ mode' = [mode EXCEPT ![p] = "new"]
            /\ \E c \in {0, Slice} : credit' = [credit EXCEPT ![p] = c]
            /\ UNCHANGED runs
Admit(p) == /\ mode[p] = "new"
            /\ mode' = [mode EXCEPT ![p] = "ready"]
            /\ UNCHANGED <<queue, credit, runs>>
Endow(p) == /\ p \in InQueue
            /\ credit' = [credit EXCEPT ![p] = Slice]
            /\ UNCHANGED <<queue, mode, runs>>

\* Only the process that runs falls asleep, gives up its credit or leaves.
Doze  == /\ runs \in InQueue /\ mode[runs] = "running"
         /\ mode' = [mode EXCEPT ![runs] = "asleep"]
         /\ UNCHANGED <<queue, credit, runs>>
Yield == /\ runs # None /\ credit' = [credit EXCEPT ![runs] = 0]
         /\ UNCHANGED <<queue, mode, runs>>
Leave == /\ \E i \in DOMAIN queue :
              /\ queue[i] = runs
              /\ queue' = [j \in 1 .. Len(queue) - 1 |-> IF j < i THEN queue[j] ELSE queue[j+1]]
         /\ mode' = [mode EXCEPT ![runs] = "none"]
         /\ UNCHANGED <<credit, runs>>

\* At a tick some sleepers wake.
Wakes(W) == W \subseteq {p \in InQueue : mode[p] = "asleep"}
After(W) == [p \in Proc |-> IF p \in W THEN "ready" ELSE mode[p]]

Spends  == runs # None /\ credit[runs] > 0
Tick(W) == /\ Wakes(W) /\ Spends
           /\ mode' = After(W)
           /\ credit' = [credit EXCEPT ![runs] = @ - 1]
           /\ UNCHANGED <<queue, runs>>

Switch(W) ==
  LET m      == [p \in Proc |-> IF p = runs /\ mode[p] = "running" THEN "ready" ELSE After(W)[p]]
      ready  == {p \in InQueue : m[p] = "ready"}
      funded == {p \in ready : credit[p] > 0}
      round  == IF funded = {} THEN ready ELSE funded
      purse  == [p \in Proc |-> IF p \notin InQueue THEN 0
                                ELSE IF funded = {} THEN Slice ELSE credit[p]]
  IN  /\ Wakes(W) /\ ~Spends
      /\ \E i \in DOMAIN queue :
           /\ queue[i] \in round /\ \A j \in 1 .. i - 1 : queue[j] \notin round
           /\ runs' = queue[i]
           /\ mode' = [m EXCEPT ![queue[i]] = "running"]
           /\ credit' = [purse EXCEPT ![queue[i]] = @ - 1]
      /\ UNCHANGED queue

Next == \/ \E p \in Proc : Join(p) \/ Admit(p) \/ Endow(p)
        \/ Doze \/ Yield \/ Leave
        \/ \E W \in SUBSET Proc : Tick(W) \/ Switch(W)

Spec == Init /\ [][Next]_vars
================================================================================
