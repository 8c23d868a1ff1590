---------------------------- MODULE FramesProofs ----------------------------
(***************************************************************************)
(* Proofs about traps and context switches, for any number of processes.   *)
(***************************************************************************)
EXTENDS FramesProperties, SequenceTheorems, TLAPS

\* Words, stacks and the contents of the registers.
Word  == Thread \X Kinds \X Nat
Words == Seq(Word)
Regs  == [Reg -> Word]

RegNames == {"ds", "es", "fs", "gs", "eax", "ecx", "edx", "ebx", "ebp", "esi", "edi",
             "eip", "cs", "eflags"}

\* The registers by name.
LEMMA RegIs == Reg = RegNames
BY DEF Reg, GpRegs, Segs, Gp, RegNames

\* A list is the concatenation of two if its words are theirs.
LEMMA Concat ==
  ASSUME NEW S, NEW s \in Seq(S), NEW t \in Seq(S), NEW u \in Seq(S),
         Len(u) = Len(s) + Len(t),
         \A i \in 1 .. Len(s) : u[i] = s[i],
         \A i \in 1 .. Len(t) : u[Len(s) + i] = t[i]
  PROVE  s \o t = u
<1>1. ASSUME NEW i \in 1 .. Len(u) PROVE (s \o t)[i] = u[i]
  <2>1. CASE i <= Len(s)
    BY <2>1, ConcatProperties
  <2>2. CASE i > Len(s)
    <3>1. i - Len(s) \in 1 .. Len(t)
      BY <2>2
    <3> QED BY <2>2, <3>1, ConcatProperties
  <2> QED BY <2>1, <2>2
<1>2. s \o t \in Seq(S) /\ Len(s \o t) = Len(u)
  BY ConcatProperties
<1> QED BY <1>1, <1>2, SeqEqual

\* The words above a stack, and the stack without them.
LEMMA Above ==
  ASSUME NEW s \in Words, NEW t \in Words
  PROVE  /\ s \o t \in Words /\ Len(s \o t) = Len(s) + Len(t)
         /\ Len(s) \in Nat /\ Len(t) \in Nat
         /\ \A i \in 1 .. Len(s) : (s \o t)[i] = s[i]
         /\ \A i \in 1 .. Len(t) : (s \o t)[Len(s) + i] = t[i]
         /\ Drop(s \o t, Len(t)) = s
<1> USE DEF Words
<1>1. Len(s) \in Nat /\ Len(t) \in Nat
  OBVIOUS
<1>2. /\ s \o t \in Words /\ Len(s \o t) = Len(s) + Len(t)
      /\ \A i \in 1 .. Len(s) : (s \o t)[i] = s[i]
      /\ \A i \in 1 .. Len(t) : (s \o t)[Len(s) + i] = t[i]
  BY <1>1, ConcatProperties
<1>3. Drop(s \o t, Len(t)) = s
  BY <1>1, <1>2 DEF Drop
<1> QED BY <1>1, <1>2, <1>3

\* Popping a register takes the word at its place in the list.
LEMMA PoppedAt ==
  ASSUME NEW list, NEW any, NEW u, NEW x \in Reg, NEW i \in 1 .. Len(list), list[i] = x,
         \A j \in 1 .. Len(list) : list[j] = x => j = i
  PROVE  Popped(any, u, list)[x] = u[Len(u) + 1 - i]
<1>1. (CHOOSE j \in 1 .. Len(list) : list[j] = x) = i
  OBVIOUS
<1> QED BY <1>1 DEF Popped

Names == RegNames \cup {"-"}
\* What switchTo() pops, written out.
LEMMA SwitchListIs ==
  SwitchList = <<"edi", "esi", "ebp", "-", "ebx", "edx", "ecx", "eax",
                 "gs", "fs", "ds", "es", "eip", "cs", "eflags">>
<1> DEFINE t == <<"gs", "fs", "ds", "es">>
           w == <<"edi", "esi", "ebp", "-", "ebx", "edx", "ecx", "eax", "gs", "fs", "ds", "es">>
           u == <<"edi", "esi", "ebp", "-", "ebx", "edx", "ecx", "eax",
                 "gs", "fs", "ds", "es", "eip", "cs", "eflags">>
           s == PopadList
           v == IretList
<1>1. /\ s \in Seq(Names) /\ t \in Seq(Names)  /\ u \in Seq(Names) /\ w \in Seq(Names)
      /\ v \in Seq(Names)
  BY DEF PopadList, IretList, Names, RegNames
<1>2. Len(s) = 8 /\ Len(t) = 4 /\ Len(w) = 12 /\ Len(v) = 3 /\ Len(u) = 15
  BY DEF PopadList, IretList
<1>3. Len(w) = Len(s) + Len(t) /\ Len(u) = Len(w) + Len(v)
  BY <1>2
<1>4. /\ \A i \in 1 .. Len(s) : w[i] = s[i]
      /\ \A i \in 1 .. Len(t) : w[Len(s)+i] = t[i]
  BY <1>2 DEF PopadList
<1>5. /\ \A i \in 1 .. Len(w) : u[i] = w[i]
      /\ \A i \in 1 .. Len(v) : u[Len(w)+i] = v[i]
  BY <1>2 DEF IretList
<1> HIDE DEF u, s, t, w, v
<1>6. s \o t = w
  BY <1>1, <1>3, <1>4, Concat
<1>7. w \o v = u
  BY <1>1, <1>3, <1>5, Concat
<1> QED BY <1>6, <1>7 DEF SwitchList, u, s, t, v


\* Popping a list that names every register once, and each where the word lies
\* that was pushed for it.
Lists(list, t, r) ==
  /\ Len(list) = Len(t)
  /\ \A x \in Reg : \E i \in 1 .. Len(t) :
       list[i] = x /\ t[Len(t) + 1 - i] = r[x] /\ \A j \in 1 .. Len(t) : list[j] = x => j = i

\* Popping a list of registers undoes pushing it.
LEMMA PopList ==
  ASSUME NEW r \in Regs, NEW s \in Words, NEW t \in Words, NEW any, NEW list, Lists(list, t, r)
  PROVE  /\ Popped(any, s \o t, list) = r
         /\ Drop(s \o t, Len(list)) = s
<1> DEFINE u == s \o t
<1>1. Len(list) = Len(t)
  BY DEF Lists
<1>2. /\ Len(s) \in Nat /\ Len(t) \in Nat /\ Len(u) = Len(s) + Len(t)
      /\ \A i \in 1 .. Len(t) : u[Len(s) + i] = t[i]
      /\ Drop(u, Len(t)) = s
  BY Above
<1> HIDE DEF u
<1>3. ASSUME NEW x \in Reg PROVE Popped(any, u, list)[x] = r[x]
  <2>1. PICK i \in 1 .. Len(t) :
          list[i] = x /\ t[Len(t) + 1 - i] = r[x] /\ \A j \in 1 .. Len(t) : list[j] = x => j = i
    BY DEF Lists
  <2>2. /\ i \in 1 .. Len(list) /\ list[i] = x
        /\ \A j \in 1 .. Len(list) : list[j] = x => j = i
    BY <1>1, <2>1
  <2>3. Popped(any, u, list)[x] = u[Len(u) + 1 - i]
    BY <2>2, PoppedAt
  <2>4. Len(u) + 1 - i = Len(s) + (Len(t) + 1 - i) /\ Len(t) + 1 - i \in 1 .. Len(t)
    BY <1>2
  <2>5. u[Len(u) + 1 - i] = t[Len(t) + 1 - i]
    BY <1>2, <2>4
  <2> QED BY <2>1, <2>3, <2>5
<1>4. Popped(any, u, list) = [x \in Reg |-> Popped(any, u, list)[x]]
  BY DEF Popped
<1>5. r = [x \in Reg |-> r[x]]
  BY DEF Regs
<1>6. Popped(any, u, list) = r
  BY <1>3, <1>4, <1>5
<1> QED BY <1>1, <1>2, <1>6 DEF u

\* switchTo() pops what it has pushed.
LEMMA SwitchLists ==
  ASSUME NEW r \in Regs, NEW e
  PROVE  Lists(SwitchList, SwFrame(r, e), r) /\ Len(SwitchList) = 15 /\ Len(SwFrame(r, e)) = 15
<1>1. Len(SwitchList) = 15 /\ Len(SwFrame(r, e)) = 15
  BY SwitchListIs DEF SwFrame
<1> DEFINE Match(i, x) == /\ i \in 1 .. 15 /\ SwitchList[i] = x /\ SwFrame(r, e)[16 - i] = r[x]
                          /\ \A j \in 1 .. 15 : SwitchList[j] = x => j = i
<1>2. \A i, j \in 1 .. 15 : SwitchList[i] = SwitchList[j] => i = j
  BY SwitchListIs
<1>3. /\ Match(1, "edi") /\ Match(2, "esi") /\ Match(3, "ebp") /\ Match(5, "ebx")
      /\ Match(6, "edx") /\ Match(7, "ecx") /\ Match(8, "eax") /\ Match(9, "gs")
      /\ Match(10, "fs") /\ Match(11, "ds") /\ Match(12, "es") /\ Match(13, "eip")
      /\ Match(14, "cs") /\ Match(15, "eflags")
  BY SwitchListIs DEF SwFrame
<1> HIDE DEF Match
<1>4. \A x \in Reg : \E i : Match(i, x)
  BY <1>3, RegIs DEF RegNames
<1> QED BY <1>1, <1>4 DEF Lists, Match

\* What the stubs of isr.asm and irq.asm pop, written out.
LEMMA RestoreListIs ==
  RestoreList = <<"gs", "fs", "es", "ds", "edi", "esi", "ebp", "-", "ebx", "edx", "ecx", "eax",
                  "-", "-", "eip", "cs", "eflags">>
<1> DEFINE t == <<"gs", "fs", "es", "ds">>
           w == <<"gs", "fs", "es", "ds", "edi", "esi", "ebp", "-", "ebx", "edx", "ecx", "eax">>
           x == <<"-", "-">>
           y == <<"gs", "fs", "es", "ds", "edi", "esi", "ebp", "-", "ebx", "edx", "ecx", "eax",
                  "-", "-">>
           u == <<"gs", "fs", "es", "ds", "edi", "esi", "ebp", "-", "ebx", "edx", "ecx", "eax",
                  "-", "-", "eip", "cs", "eflags">>
           s == PopadList
           v == IretList
<1>1. /\ s \in Seq(Names) /\ t \in Seq(Names)  /\ u \in Seq(Names) /\ w \in Seq(Names)
      /\ v \in Seq(Names) /\ x \in Seq(Names) /\ y \in Seq(Names)
  BY DEF PopadList, IretList, Names, RegNames
<1>2. /\ Len(s) = 8 /\ Len(t) = 4 /\ Len(w) = 12 /\ Len(x) = 2 /\ Len(y) = 14
      /\ Len(v) = 3 /\ Len(u) = 17
  BY DEF PopadList, IretList
<1>3. Len(w) = Len(t) + Len(s) /\ Len(y) = Len(w) + Len(x) /\ Len(u) = Len(y) + Len(v)
  BY <1>2
<1>4. /\ \A i \in 1 .. Len(t) : w[i] = t[i]
      /\ \A i \in 1 .. Len(s) : w[Len(t)+i] = s[i]
  BY <1>2 DEF PopadList
<1>5. /\ \A i \in 1 .. Len(w) : y[i] = w[i]
      /\ \A i \in 1 .. Len(x) : y[Len(w)+i] = x[i]
  BY <1>2
<1>6. /\ \A i \in 1 .. Len(y) : u[i] = y[i]
      /\ \A i \in 1 .. Len(v) : u[Len(y)+i] = v[i]
  BY <1>2 DEF IretList
<1> HIDE DEF u, s, t, w, v, x, y
<1>7. t \o s = w
  BY <1>1, <1>3, <1>4, Concat
<1>8. w \o x = y
  BY ZenonT(60), <1>1, <1>3, <1>5, Concat
<1>9. y \o v = u
  BY ZenonT(60), <1>1, <1>3, <1>6, Concat
<1> QED BY <1>7, <1>8, <1>9 DEF RestoreList, u, s, t, v, x

\* The stubs pop what they and the CPU have pushed.
LEMMA RestoreLists ==
  ASSUME NEW r \in Regs, NEW v
  PROVE  Lists(RestoreList, Frame(r, v), r) /\ Len(RestoreList) = 17 /\ Len(Frame(r, v)) = 17
<1>1. Len(RestoreList) = 17 /\ Len(Frame(r, v)) = 17
  BY RestoreListIs DEF Frame
<1> DEFINE Match(i, x) == /\ i \in 1 .. 17 /\ RestoreList[i] = x /\ Frame(r, v)[18 - i] = r[x]
                          /\ \A j \in 1 .. 17 : RestoreList[j] = x => j = i
<1>3. /\ Match(5, "edi") /\ Match(6, "esi") /\ Match(7, "ebp") /\ Match(9, "ebx")
      /\ Match(10, "edx") /\ Match(11, "ecx") /\ Match(12, "eax") /\ Match(1, "gs")
      /\ Match(2, "fs") /\ Match(4, "ds") /\ Match(3, "es") /\ Match(15, "eip")
      /\ Match(16, "cs") /\ Match(17, "eflags")
  BY RestoreListIs DEF Frame
<1> HIDE DEF Match
<1>4. \A x \in Reg : \E i : Match(i, x)
  BY <1>3, RegIs DEF RegNames
<1> QED BY <1>1, <1>4 DEF Lists, Match

\* The words of the kernel's code, of its data and of programs.
Labels == {"irq_handler", "irq_eoi", "irq_ret", "page_fault", "fault_handler", "isr_ret",
           "schedule", "switched", "expired", "expire_ret", "scratch", "esp", "regs"}

\* The constructors make words.
LEMMA WordsTyped ==
  /\ \A n \in Nat : Lit(n) \in Word /\ Flags(n) \in Word
  /\ \A l \in Labels : Code(l) \in Word
  /\ \A p \in Thread : Block(p) \in Word
  /\ \A p \in Thread, n \in Nat : Own(p, "program", n) \in Word
  /\ \A p \in Thread, n \in Nat, x \in GpRegs : Own(p, x, n) \in Word
<1>1. "number" \in Kinds /\ "eflags" \in Kinds /\ "process_t" \in Kinds /\ "program" \in Kinds
      /\ Labels \subseteq Kinds /\ GpRegs \subseteq Kinds
  BY DEF Kinds, Labels
<1>2. None \in Thread
  BY DEF Thread
<1> QED BY <1>1, <1>2 DEF Lit, Flags, Code, Block, Own, Word

\* Frames consist of words.
LEMMA FramesTyped ==
  ASSUME NEW r \in Regs, NEW v \in Nat, NEW e \in Word
  PROVE  Frame(r, v) \in Words /\ SwFrame(r, e) \in Words
<1>1. \A x \in RegNames : r[x] \in Word
  BY RegIs DEF Regs
<1>2. Lit(0) \in Word /\ Lit(v) \in Word /\ Code("esp") \in Word
  BY WordsTyped DEF Labels
<1> QED BY <1>1, <1>2 DEF Frame, SwFrame, Words, RegNames

\* Registers popped from a stack that is high enough are words.
LEMMA PoppedTyped ==
  ASSUME NEW any \in Regs, NEW s \in Words, NEW list, Len(list) \in Nat, Len(list) <= Len(s)
  PROVE  Popped(any, s, list) \in Regs
<1>1. Len(s) \in Nat /\ \A i \in 1 .. Len(s) : s[i] \in Word
  BY DEF Words
<1>2. ASSUME NEW x \in Reg PROVE Popped(any, s, list)[x] \in Word
  <2>1. CASE \E i \in 1 .. Len(list) : list[i] = x
    <3>1. PICK i \in 1 .. Len(list) : i = CHOOSE j \in 1 .. Len(list) : list[j] = x
      BY <2>1
    <3>2. Popped(any, s, list)[x] = s[Len(s) + 1 - i]
      BY <2>1, <3>1 DEF Popped
    <3>3. Len(s) + 1 - i \in 1 .. Len(s)
      BY <1>1
    <3> QED BY <1>1, <3>2, <3>3
  <2>2. CASE ~ \E i \in 1 .. Len(list) : list[i] = x
    BY <2>2 DEF Popped, Regs
  <2> QED BY <2>1, <2>2
<1>3. Popped(any, s, list) = [x \in Reg |-> Popped(any, s, list)[x]]
  BY DEF Popped
<1> QED BY <1>2, <1>3 DEF Regs

\* switchTo() pushes this frame.
LEMMA SwitchWords ==
  ASSUME NEW r \in Regs
  PROVE  Pushed(r, PushList) = SwFrame(r, Code("esp"))
BY RegIs DEF Pushed, PushList, SwFrame, Gp, RegNames

\* The words of a trap up to its vector: with or without an error code of the CPU.
LEMMA FiveWords ==
  ASSUME NEW r \in Regs, NEW n \in Nat
  PROVE  /\ <<r["eflags"], r["cs"], r["eip"]>> \o <<Lit(0), Lit(n)>> = <<r["eflags"], r["cs"], r["eip"], Lit(0), Lit(n)>>
         /\ (<<r["eflags"], r["cs"], r["eip"]>> \o <<Lit(0)>>) \o <<Lit(n)>> = <<r["eflags"], r["cs"], r["eip"], Lit(0), Lit(n)>>
         /\ <<r["eflags"], r["cs"], r["eip"]>> \o <<>> = <<r["eflags"], r["cs"], r["eip"]>>
<1> DEFINE s == <<r["eflags"], r["cs"], r["eip"]>>
           t == <<Lit(0), Lit(n)>>
           u == <<r["eflags"], r["cs"], r["eip"], Lit(0), Lit(n)>>
           v == <<r["eflags"], r["cs"], r["eip"], Lit(0)>>
           x == <<Lit(0)>>
           y == <<Lit(n)>>
<1>0. /\ r["eflags"] \in Word /\ r["cs"] \in Word /\ r["eip"] \in Word
      /\ r["eax"] \in Word /\ r["ecx"] \in Word /\ r["edx"] \in Word /\ r["ebx"] \in Word
      /\ r["ebp"] \in Word /\ r["esi"] \in Word /\ r["edi"] \in Word
      /\ r["ds"] \in Word /\ r["es"] \in Word /\ r["fs"] \in Word /\ r["gs"] \in Word
      /\ Lit(0) \in Word /\ Lit(n) \in Word /\ Code("esp") \in Word
  BY WordsTyped, RegIs DEF Regs, RegNames, Labels
<1>1. /\ s \in Words /\ t \in Words /\ u \in Words /\ v \in Words
      /\ x \in Words /\ y \in Words
  BY <1>0 DEF Words
<1>2. Len(s) = 3 /\ Len(t) = 2 /\ Len(u) = 5 /\ Len(v) = 4 /\ Len(x) = 1 /\ Len(y) = 1
  OBVIOUS
<1>3. /\ Len(u) = Len(s) + Len(t) /\ Len(u) = Len(v) + Len(y) /\ Len(v) = Len(s) + Len(x)
      /\ \A i \in 1 .. Len(s) : u[i] = s[i]
      /\ \A i \in 1 .. Len(t) : u[Len(s) + i] = t[i]
  BY <1>2
<1>4. /\ \A i \in 1 .. Len(v) : u[i] = v[i]
      /\ \A i \in 1 .. Len(y) : u[Len(v) + i] = y[i]
  BY <1>2
<1>5. /\ \A i \in 1 .. Len(s) : v[i] = s[i]
      /\ \A i \in 1 .. Len(x) : v[Len(s) + i] = x[i]
  BY <1>2
<1> HIDE DEF s, t, u, v, x, y
<1>6. s \o t = u
  BY <1>1, <1>3, Concat DEF Words
<1>7. v \o y = u
  BY <1>1, <1>3, <1>4, Concat DEF Words
<1>8. s \o x = v
  BY <1>1, <1>3, <1>5, Concat DEF Words
<1>9. s \o <<>> = s
  BY <1>1, ConcatEmptySeq DEF Words
<1> QED BY <1>6, <1>7, <1>8, <1>9 DEF s, t, u, x, y

\* ... and with the registers the stub pushes.
LEMMA SeventeenWords ==
  ASSUME NEW r \in Regs, NEW n \in Nat
  PROVE  <<r["eflags"], r["cs"], r["eip"], Lit(0), Lit(n)>> \o
         <<r["eax"], r["ecx"], r["edx"], r["ebx"], Code("esp"), r["ebp"], r["esi"], r["edi"],
           r["ds"], r["es"], r["fs"], r["gs"]>>
         = <<r["eflags"], r["cs"], r["eip"], Lit(0), Lit(n),
             r["eax"], r["ecx"], r["edx"], r["ebx"], Code("esp"), r["ebp"], r["esi"], r["edi"],
             r["ds"], r["es"], r["fs"], r["gs"]>>
<1> DEFINE s == <<r["eflags"], r["cs"], r["eip"], Lit(0), Lit(n)>>
           t == <<r["eax"], r["ecx"], r["edx"], r["ebx"], Code("esp"), r["ebp"], r["esi"],
                  r["edi"], r["ds"], r["es"], r["fs"], r["gs"]>>
           u == <<r["eflags"], r["cs"], r["eip"], Lit(0), Lit(n),
             r["eax"], r["ecx"], r["edx"], r["ebx"], Code("esp"), r["ebp"], r["esi"], r["edi"],
             r["ds"], r["es"], r["fs"], r["gs"]>>
<1>0. /\ r["eflags"] \in Word /\ r["cs"] \in Word /\ r["eip"] \in Word
      /\ r["eax"] \in Word /\ r["ecx"] \in Word /\ r["edx"] \in Word /\ r["ebx"] \in Word
      /\ r["ebp"] \in Word /\ r["esi"] \in Word /\ r["edi"] \in Word
      /\ r["ds"] \in Word /\ r["es"] \in Word /\ r["fs"] \in Word /\ r["gs"] \in Word
      /\ Lit(0) \in Word /\ Lit(n) \in Word /\ Code("esp") \in Word
  BY WordsTyped, RegIs DEF Regs, RegNames, Labels
<1>1. s \in Words /\ t \in Words /\ u \in Words
  BY <1>0 DEF Words
<1>2. Len(s) = 5 /\ Len(t) = 12 /\ Len(u) = 17
  OBVIOUS
<1>3. /\ Len(u) = Len(s) + Len(t)
      /\ \A i \in 1 .. Len(s) : u[i] = s[i]
  BY <1>2
<1>4. \A i \in 1 .. Len(t) : u[Len(s) + i] = t[i]
  BY <1>2
<1> HIDE DEF s, t, u
<1>6. s \o t = u
  BY <1>1, <1>3, <1>4, Concat DEF Words
<1> QED BY <1>6 DEF s, t, u

\* The CPU and the stub of vector v together push this frame, with an error code
\* of the CPU or a zero of the stub.
LEMMA TrapWords ==
  ASSUME NEW r \in Regs, NEW v \in 0 .. 47, v # 17, NEW w,
         w = IF v < 32 THEN IsrWords(v) ELSE IrqWords(v), NEW c,
         c = IF v \in CpuCode THEN <<Lit(0)>> ELSE <<>>
  PROVE  Pushed(r, <<"eflags", "cs", "eip">>) \o c \o w \o Pushed(r, SaveList) = Frame(r, v)
<1>2. v \in Nat
  OBVIOUS
<1>4. Pushed(r, <<"eflags", "cs", "eip">>) = <<r["eflags"], r["cs"], r["eip"]>>
  BY RegIs DEF Pushed, RegNames
<1>5. Pushed(r, SaveList) =
         <<r["eax"], r["ecx"], r["edx"], r["ebx"], Code("esp"), r["ebp"], r["esi"], r["edi"],
           r["ds"], r["es"], r["fs"], r["gs"]>>
  BY RegIs DEF Pushed, SaveList, Gp, Segs, RegNames
<1>6. (<<r["eflags"], r["cs"], r["eip"]>> \o c) \o w
      = <<r["eflags"], r["cs"], r["eip"], Lit(0), Lit(v)>>
  <2>1. CASE v \in CpuCode
    <3>1. c = <<Lit(0)>> /\ w = <<Lit(v)>>
      BY <2>1 DEF CpuCode, IsrWords
    <3>2. (<<r["eflags"], r["cs"], r["eip"]>> \o <<Lit(0)>>) \o <<Lit(v)>>
          = <<r["eflags"], r["cs"], r["eip"], Lit(0), Lit(v)>>
      BY <1>2, FiveWords
    <3> QED BY <3>1, <3>2
  <2>2. CASE v \notin CpuCode
    <3>1. c = <<>> /\ w = <<Lit(0), Lit(v)>>
      BY <2>2 DEF CpuCode, IsrWords, IrqWords
    <3>2. /\ <<r["eflags"], r["cs"], r["eip"]>> \o <<>> = <<r["eflags"], r["cs"], r["eip"]>>
          /\ <<r["eflags"], r["cs"], r["eip"]>> \o <<Lit(0), Lit(v)>>
             = <<r["eflags"], r["cs"], r["eip"], Lit(0), Lit(v)>>
      BY <1>2, FiveWords
    <3> QED BY <3>1, <3>2
  <2> QED BY <2>1, <2>2
<1>7. <<r["eflags"], r["cs"], r["eip"], Lit(0), Lit(v)>> \o
         <<r["eax"], r["ecx"], r["edx"], r["ebx"], Code("esp"), r["ebp"], r["esi"], r["edi"],
           r["ds"], r["es"], r["fs"], r["gs"]>> = Frame(r, v)
  BY <1>2, SeventeenWords DEF Frame
<1> QED BY <1>4, <1>5, <1>6, <1>7

\* The stack s holds the frame of a trap v above u, and two words on top.
Framed(s, u, r, v, x, y) == s = (u \o Frame(r, v)) \o <<x, y>>

\* The handler in C finds the frame in struct regs.
FieldAt(s, f) == s[Len(s) - 1 - CHOOSE i \in 1 .. 17 : RegsLayout[i] = f]

\* ... word by word.
LEMMA FieldWords ==
  ASSUME NEW u \in Words, NEW r \in Regs, NEW v \in Nat, NEW x \in Word, NEW y \in Word,
         NEW s, Framed(s, u, r, v, x, y)
  PROVE  FieldAt(s, "int_no") = Lit(v) /\ \A f \in Reg : FieldAt(s, f) = r[f]
<1>2. PICK w : w = Frame(r, v)
  OBVIOUS
<1>3. w \in Words /\ Len(w) = 17 /\ <<x, y>> \in Words /\ Len(<<x, y>>) = 2
  <2>1. w \in Words
    BY <1>2, FramesTyped, WordsTyped DEF Labels
  <2> QED BY <1>2, <2>1 DEF Frame, Words
<1>4. PICK a : a = u \o w
  OBVIOUS
<1>5. /\ a \in Words /\ Len(a) = Len(u) + 17 /\ Len(u) \in Nat
      /\ \A i \in 1 .. 17 : a[Len(u) + i] = w[i]
  <2>1. /\ u \o w \in Words /\ Len(u \o w) = Len(u) + Len(w) /\ Len(u) \in Nat
        /\ \A i \in 1 .. Len(w) : (u \o w)[Len(u) + i] = w[i]
    BY <1>3, Above, Zenon
  <2> QED BY <1>3, <1>4, <2>1
<1>6. /\ Len(s) = Len(a) + 2 /\ \A i \in 1 .. Len(a) : s[i] = a[i]
  <2>1. s = a \o <<x, y>>
    BY <1>2, <1>4 DEF Framed
  <2>2. /\ Len(a \o <<x, y>>) = Len(a) + Len(<<x, y>>)
        /\ \A i \in 1 .. Len(a) : (a \o <<x, y>>)[i] = a[i]
    BY <1>3, <1>5, Above, Zenon
  <2> QED BY <1>3, <2>1, <2>2
<1>7. ASSUME NEW i \in 1 .. 17 PROVE s[Len(s) - 1 - i] = w[18 - i]
  <2>1. Len(s) - 1 - i = Len(u) + (18 - i) /\ 18 - i \in 1 .. 17
    BY <1>5, <1>6
  <2>2. Len(u) + (18 - i) \in 1 .. Len(a)
    <3>1. PICK n \in Nat : n = Len(u) /\ Len(a) = n + 17
      BY <1>5
    <3>2. n + (18 - i) \in 1 .. n + 17
      OBVIOUS
    <3> QED BY <3>1, <3>2
  <2> QED BY <1>5, <1>6, <2>1, <2>2
<1> DEFINE Match(i, f, z) == /\ i \in 1 .. 17 /\ RegsLayout[i] = f /\ w[18 - i] = z
                             /\ \A j \in 1 .. 17 : RegsLayout[j] = f => j = i
<1>8. ASSUME NEW i, NEW f, NEW z, Match(i, f, z) PROVE FieldAt(s, f) = z
  <2>1. (CHOOSE j \in 1 .. 17 : RegsLayout[j] = f) = i
    BY <1>8
  <2> QED BY <1>7, <1>8, <2>1 DEF FieldAt
<1>9. /\ Match(5, "edi", r["edi"]) /\ Match(6, "esi", r["esi"]) /\ Match(7, "ebp", r["ebp"])
      /\ Match(9, "ebx", r["ebx"]) /\ Match(10, "edx", r["edx"]) /\ Match(11, "ecx", r["ecx"])
      /\ Match(12, "eax", r["eax"]) /\ Match(1, "gs", r["gs"]) /\ Match(2, "fs", r["fs"])
      /\ Match(3, "es", r["es"]) /\ Match(4, "ds", r["ds"]) /\ Match(15, "eip", r["eip"])
      /\ Match(16, "cs", r["cs"]) /\ Match(17, "eflags", r["eflags"])
      /\ Match(13, "int_no", Lit(v))
  BY <1>2 DEF Frame, RegsLayout
<1> HIDE DEF Match
<1>10. \A f \in Reg : \E i : Match(i, f, r[f])
  BY <1>9, RegIs DEF RegNames
<1>11. Match(13, "int_no", Lit(v))
  BY <1>9, Zenon
<1>12. \A i, f, z : Match(i, f, z) => FieldAt(s, f) = z
  BY <1>8, Zenon
<1> QED BY <1>10, <1>11, <1>12, Zenon

-----------------------------------------------------------------------------
(* Stacks word by word *)

\* The top word of a stack, and the stack without it.
LEMMA TopOfOne ==
  ASSUME NEW u \in Words, NEW x \in Word
  PROVE  /\ <<x>> \in Words /\ u \o <<x>> \in Words /\ Len(u \o <<x>>) = Len(u) + 1
         /\ (u \o <<x>>)[Len(u \o <<x>>)] = x /\ Drop(u \o <<x>>, 1) = u
         /\ Append(u, x) = u \o <<x>>
<1> DEFINE t == <<x>>
           s == u \o t
<1>1. t \in Words /\ Len(t) = 1 /\ t[1] = x
  BY DEF Words
<1>2. Append(u, x) = s
  BY <1>1, AppendProperties, ConcatProperties, Concat DEF Words
<1> HIDE DEF t
<1>3. /\ s \in Words /\ Len(s) = Len(u) + 1 /\ Len(u) \in Nat
      /\ s[Len(u) + 1] = x /\ Drop(s, 1) = u
  <2>1. /\ u \o t \in Words /\ Len(u \o t) = Len(u) + Len(t) /\ Len(u) \in Nat
        /\ \A i \in 1 .. Len(u) : (u \o t)[i] = u[i]
        /\ \A i \in 1 .. Len(t) : (u \o t)[Len(u) + i] = t[i]
        /\ Drop(u \o t, Len(t)) = u
    BY <1>1, Above, Zenon
  <2> QED BY <1>1, <2>1
<1> QED BY <1>1, <1>2, <1>3 DEF t

\* The two words above a frame: the address of the frame and the return address.
LEMMA TopOfTwo ==
  ASSUME NEW u \in Words, NEW x \in Word, NEW y \in Word
  PROVE  /\ u \o <<x, y>> \in Words /\ Len(u \o <<x, y>>) = Len(u) + 2
         /\ (u \o <<x, y>>)[Len(u \o <<x, y>>)] = y
         /\ Drop(u \o <<x, y>>, 1) = u \o <<x>>
         /\ Drop(u \o <<x, y>>, 2) = u
<1> DEFINE t == <<x, y>>
           w == <<x>>
           s == u \o t
           v == u \o w
<1>1. t \in Words /\ Len(t) = 2 /\ t[1] = x /\ t[2] = y
  BY DEF Words
<1>2. w \in Words /\ Len(w) = 1 /\ w[1] = x
  BY DEF Words
<1> HIDE DEF t, w
<1>3. /\ s \in Words /\ Len(s) = Len(u) + 2 /\ Len(u) \in Nat /\ Drop(s, 2) = u
      /\ \A i \in 1 .. Len(u) : s[i] = u[i]
      /\ s[Len(u) + 1] = x /\ s[Len(u) + 2] = y
  <2>1. /\ u \o t \in Words /\ Len(u \o t) = Len(u) + Len(t) /\ Len(u) \in Nat
        /\ \A i \in 1 .. Len(u) : (u \o t)[i] = u[i]
        /\ \A i \in 1 .. Len(t) : (u \o t)[Len(u) + i] = t[i]
        /\ Drop(u \o t, Len(t)) = u
    BY <1>1, Above, Zenon
  <2> QED BY <1>1, <2>1
<1>4. /\ v \in Words /\ Len(v) = Len(u) + 1
      /\ \A i \in 1 .. Len(u) : v[i] = u[i]
      /\ v[Len(u) + 1] = x
  <2>1. /\ u \o w \in Words /\ Len(u \o w) = Len(u) + Len(w) /\ Len(u) \in Nat
        /\ \A i \in 1 .. Len(u) : (u \o w)[i] = u[i]
        /\ \A i \in 1 .. Len(w) : (u \o w)[Len(u) + i] = w[i]
        /\ Drop(u \o w, Len(w)) = u
    BY <1>2, Above, Zenon
  <2> QED BY <1>2, <2>1
<1> HIDE DEF s, v
<1>5. Drop(s, 1) = v
  <2>1. Drop(s, 1) \in Words /\ Len(Drop(s, 1)) = Len(v)
        /\ \A i \in 1 .. Len(v) : Drop(s, 1)[i] = s[i]
    BY <1>3, <1>4 DEF Drop, Words
  <2>2. \A i \in 1 .. Len(v) : s[i] = v[i]
    BY <1>3, <1>4
  <2> QED BY <1>4, <2>1, <2>2, SeqEqual DEF Words
<1> QED BY <1>3, <1>5 DEF s, v, t, w

-----------------------------------------------------------------------------
(* Where a thread can be *)

Saved == [reg : Regs, stack : Words]
Traps == [vector : 0 .. 47, reg : Regs]

\* The type of every variable, with the stacks as sequences of words.
Typed ==
  /\ current \in Thread /\ ready \subseteq Proc
  /\ reg \in Regs
  /\ stack \in [Thread -> Words]
  /\ esp \in [Thread -> Nat]
  /\ trap \in Traps
  /\ kept \in [Thread -> Saved]

\* The thread of a trap: its own code was interrupted, with interrupts enabled.
Trapped(t, k, r) == (InOwn(t, k) \/ Returns(t, k)) /\ r["eflags"] = Flags(0)

\* Where the instruction pointer is tells which of the shapes a thread has.
LEMMA EipKinds ==
  ASSUME NEW t, NEW k \in Saved, NEW s, NEW r
  PROVE  /\ InOwn(t, k) => k.reg["eip"][2] = "program" /\ k.reg["eflags"] = Flags(1)
         /\ Returns(t, k) => k.reg["eip"][2] = "expire_ret" /\ k.reg["eflags"] = Flags(1)
         /\ Expires(t, k) => k.reg["eip"][2] = "schedule" /\ k.reg["eflags"] = Flags(0)
         /\ Expires(t, k) /\ InExpire(k, s, r) =>
              r["eip"][2] \in {"switched", "expired"} /\ r["eflags"] = Flags(0)
         /\ InTrap(k, s, r) => r["eip"][2] \in {"page_fault", "fault_handler", "isr_ret", "irq_ret",
                                 "irq_handler", "irq_eoi", "schedule", "switched"}
         /\ InInner(k, s, r) => r["eip"][2] \in {"page_fault", "isr_ret"}
         /\ \A l \in Labels : Code(l)[2] = l
         /\ Flags(0) # Flags(1)
<1>1. k.reg \in Regs /\ {"eip", "eflags", "eax", "ecx", "edx"} \subseteq Reg
  BY RegIs DEF Saved, RegNames
<1>2. \A l : Code(l)[2] = l
  BY DEF Code
<1>3. Flags(0)[3] = 0 /\ Flags(1)[3] = 1
  BY DEF Flags
<1>4. InTrap(k, s, r) => r["eip"][2] \in {"page_fault", "fault_handler", "isr_ret", "irq_ret",
                                 "irq_handler", "irq_eoi", "schedule", "switched"}
  BY <1>2 DEF InTrap
<1>5. InInner(k, s, r) => r["eip"][2] \in {"page_fault", "isr_ret"}
  BY <1>2 DEF InInner
<1>6. Expires(t, k) /\ InExpire(k, s, r) =>
              r["eip"][2] \in {"switched", "expired"} /\ r["eflags"] = Flags(0)
  BY <1>1, <1>2 DEF InExpire, Expires, Regs
<1>7. /\ InOwn(t, k) => k.reg["eip"][2] = "program" /\ k.reg["eflags"] = Flags(1)
      /\ Returns(t, k) => k.reg["eip"][2] = "expire_ret" /\ k.reg["eflags"] = Flags(1)
      /\ Expires(t, k) => k.reg["eip"][2] = "schedule" /\ k.reg["eflags"] = Flags(0)
  BY <1>2 DEF InOwn, Returns, Expires
<1> QED BY <1>2, <1>3, <1>4, <1>5, <1>6, <1>7

\* In a program, and wherever interrupts are enabled, nothing is on the stack
\* that the thread did not leave there.
LEMMA OutsideTraps ==
  ASSUME NEW t, NEW k \in Saved, NEW s, NEW r, Shape(t, k, s, r)
  PROVE  /\ r["eip"][2] = "program" => InOwn(t, k) /\ s = k.stack /\ r = k.reg
         /\ r["eip"][2] = "expire_ret" => Returns(t, k) /\ s = k.stack /\ r = k.reg
         /\ r["eflags"] = Flags(1) =>
              (InOwn(t, k) \/ Returns(t, k)) /\ s = k.stack /\ r = k.reg
         /\ r["eflags"] \in {Flags(0), Flags(1)}
BY EipKinds DEF Shape, Leftover

\* The frames on the stack of a thread that is in a trap.
LEMMA TrapStacks ==
  ASSUME NEW k, NEW s, NEW r, InTrap(k, s, r)
  PROVE  /\ r["eip"] = Code("page_fault") => s = Entered(k, 14, "isr_ret")
         /\ r["eip"] = Code("fault_handler") =>
              \E v \in 0 .. 31 : v # 14 /\ s = Entered(k, v, "isr_ret")
         /\ r["eip"] \in {Code("isr_ret"), Code("irq_ret")} =>
              \E v \in 0 .. 47 : s = Leaving(k, v)
         /\ r["eip"] \in {Code("irq_handler"), Code("irq_eoi")} =>
              \E v \in 32 .. 47 : s = Entered(k, v, "irq_ret")
         /\ r["eip"] = Code("schedule") =>
              \E v \in 32 .. 47 : s = Ticking(k, v)
         /\ r["eip"] = Code("switched") =>
              \E v \in 32 .. 47 : OneMore(s, Ticking(k, v))
<1>1. \A l : Code(l)[2] = l
  BY DEF Code
<1> QED BY <1>1 DEF InTrap

\* At the handlers in C and behind their calls.
LEMMA InHandlers ==
  ASSUME NEW t, NEW k \in Saved, NEW s, NEW r, Shape(t, k, s, r)
  PROVE  /\ r["eip"] = Code("page_fault") =>
              Trapped(t, k, r) /\ (s = Entered(k, 14, "isr_ret") \/ InInner(k, s, r))
         /\ r["eip"] = Code("fault_handler") =>
              Trapped(t, k, r) /\ \E v \in 0 .. 31 : v # 14 /\ s = Entered(k, v, "isr_ret")
         /\ r["eip"] = Code("isr_ret") =>
              /\ Trapped(t, k, r)
              /\ \/ \E v \in 0 .. 47 : s = Leaving(k, v)
                 \/ InInner(k, s, r)
         /\ r["eip"] = Code("irq_ret") =>
              /\ Trapped(t, k, r)
              /\ \E v \in 0 .. 47 : s = Leaving(k, v)
         /\ r["eip"] \in {Code("irq_handler"), Code("irq_eoi")} =>
              Trapped(t, k, r) /\ \E v \in 32 .. 47 : s = Entered(k, v, "irq_ret")
<1>1. \A l \in Labels : Code(l)[2] = l
  BY EipKinds
<1>2. ASSUME r["eip"][2] \in {"page_fault", "fault_handler", "isr_ret", "irq_ret", "irq_handler",
                              "irq_eoi"}
      PROVE  Trapped(t, k, r) /\ (InTrap(k, s, r) \/ InInner(k, s, r))
  BY <1>2, EipKinds DEF Shape, Leftover, Trapped
<1>5. InInner(k, s, r) => r["eip"] \in {Code("page_fault"), Code("isr_ret")}
  BY DEF InInner
<1>6. \A l \in {"page_fault", "fault_handler", "isr_ret", "irq_ret", "irq_handler", "irq_eoi"} :
        r["eip"] = Code(l) => Trapped(t, k, r) /\ (InTrap(k, s, r) \/ InInner(k, s, r))
  BY <1>1, <1>2 DEF Labels
<1>7. \A l \in {"fault_handler", "irq_ret", "irq_handler", "irq_eoi"} :
        r["eip"] = Code(l) => Trapped(t, k, r) /\ InTrap(k, s, r)
  <2>1. \A l \in {"fault_handler", "irq_ret", "irq_handler", "irq_eoi"} :
          Code(l) # Code("page_fault") /\ Code(l) # Code("isr_ret")
    BY <1>1 DEF Labels
  <2> QED BY <1>5, <1>6, <2>1
<1>8. /\ r["eip"] = Code("page_fault") => Trapped(t, k, r) /\ (InTrap(k, s, r) \/ InInner(k, s, r))
      /\ r["eip"] = Code("isr_ret") => Trapped(t, k, r) /\ (InTrap(k, s, r) \/ InInner(k, s, r))
      /\ r["eip"] = Code("fault_handler") => Trapped(t, k, r) /\ InTrap(k, s, r)
      /\ r["eip"] = Code("irq_ret") => Trapped(t, k, r) /\ InTrap(k, s, r)
      /\ r["eip"] \in {Code("irq_handler"), Code("irq_eoi")} => Trapped(t, k, r) /\ InTrap(k, s, r)
  BY <1>6, <1>7
<1> HIDE DEF Labels
<1> QED BY <1>8, TrapStacks

\* In schedule() and behind its call of switchTo().
LEMMA InSchedule ==
  ASSUME NEW t, NEW k \in Saved, NEW s, NEW r, Shape(t, k, s, r)
  PROVE  /\ r["eip"] = Code("schedule") =>
              \/ Expires(t, k) /\ s = k.stack /\ r = k.reg
              \/ /\ Trapped(t, k, r)
                 /\ \E v \in 32 .. 47 : s = Ticking(k, v)
         /\ r["eip"] = Code("switched") =>
              \/ /\ Expires(t, k) /\ OneMore(s, k.stack)
                 /\ r = [k.reg EXCEPT !["eip"] = Code("switched")]
              \/ /\ Trapped(t, k, r)
                 /\ \E v \in 32 .. 47 :
                      OneMore(s, Ticking(k, v))
         /\ r["eip"] = Code("expired") =>
              /\ Expires(t, k) /\ s = Drop(k.stack, 1)
              /\ r = [k.reg EXCEPT !["eip"] = Code("expired"), !["eax"] = Scratch,
                                   !["ecx"] = Scratch, !["edx"] = Scratch]
<1>1. \A l \in Labels : Code(l)[2] = l
  BY EipKinds
<1>3. k.reg \in Regs /\ {"eip", "eflags", "eax", "ecx", "edx"} \subseteq Reg
  BY RegIs DEF Saved, RegNames
<1>4. InExpire(k, s, r) =>
        \/ /\ r["eip"] = Code("switched") /\ OneMore(s, k.stack)
           /\ r = [k.reg EXCEPT !["eip"] = Code("switched")]
        \/ /\ r["eip"] = Code("expired") /\ s = Drop(k.stack, 1)
           /\ r = [k.reg EXCEPT !["eip"] = Code("expired"), !["eax"] = Scratch,
                                   !["ecx"] = Scratch, !["edx"] = Scratch]
  BY <1>3 DEF InExpire, Regs
<1>5. ASSUME r["eip"][2] \in {"schedule", "switched", "expired"}
      PROVE  \/ Expires(t, k) /\ s = k.stack /\ r = k.reg /\ r["eip"][2] = "schedule"
             \/ Expires(t, k) /\ InExpire(k, s, r)
             \/ Trapped(t, k, r) /\ InTrap(k, s, r)
  BY <1>5, EipKinds DEF Shape, Leftover, Trapped
<1>6. /\ Code("schedule")[2] = "schedule" /\ Code("switched")[2] = "switched"
      /\ Code("expired")[2] = "expired"
  BY <1>1 DEF Labels
<1>7. ~ InTrap(k, s, r) \/ r["eip"][2] # "expired"
  BY EipKinds
<1>8. CASE r["eip"] = Code("schedule")
  <2>1. r["eip"][2] = "schedule" /\ r["eip"] # Code("switched") /\ r["eip"] # Code("expired")
    BY <1>6, <1>8
  <2> QED BY <1>4, <1>5, <1>8, <2>1, TrapStacks
<1>9. CASE r["eip"] = Code("switched")
  <2>1. /\ r["eip"][2] = "switched" /\ r["eip"] # Code("schedule") /\ r["eip"] # Code("expired")
        /\ "switched" # "schedule"
    BY <1>6, <1>9
  <2> QED BY <1>4, <1>5, <1>9, <2>1, TrapStacks
<1>10. CASE r["eip"] = Code("expired")
  <2>1. /\ r["eip"][2] = "expired" /\ r["eip"] # Code("schedule") /\ r["eip"] # Code("switched")
        /\ "expired" # "schedule"
    BY <1>6, <1>10
  <2> QED BY <1>4, <1>5, <1>7, <1>10, <2>1, Zenon
<1> QED BY <1>8, <1>9, <1>10

\* The stacks of a thread in a trap, and their words from the top.
LEMMA TrapHeights ==
  ASSUME NEW k \in Saved, NEW v \in 0 .. 47, NEW ret \in Labels
  PROVE  /\ k.stack \in Words /\ Len(k.stack) \in Nat /\ k.reg \in Regs
         /\ k.stack \o Frame(k.reg, v) \in Words
         /\ Len(k.stack \o Frame(k.reg, v)) = Len(k.stack) + 17
         /\ Entered(k, v, ret) \in Words /\ Len(Entered(k, v, ret)) = Len(k.stack) + 19
         /\ Entered(k, v, ret)[Len(Entered(k, v, ret))] = Code(ret)
         /\ Drop(Entered(k, v, ret), 1) = Leaving(k, v)
         /\ Leaving(k, v) \in Words /\ Len(Leaving(k, v)) = Len(k.stack) + 18
         /\ Drop(Leaving(k, v), 1) = k.stack \o Frame(k.reg, v)
         /\ Ticking(k, v) \in Words /\ Len(Ticking(k, v)) = Len(k.stack) + 20
         /\ Ticking(k, v)[Len(Ticking(k, v))] = Code("irq_eoi")
         /\ Drop(Ticking(k, v), 1) = Entered(k, v, "irq_ret")
<1>1. k.stack \in Words /\ Len(k.stack) \in Nat /\ k.reg \in Regs
  BY DEF Saved, Words
<1>2. Code(ret) \in Word /\ Code("regs") \in Word /\ Code("irq_ret") \in Word
      /\ Code("irq_eoi") \in Word /\ Code("esp") \in Word
  BY WordsTyped DEF Labels
<1>3. v \in Nat
  OBVIOUS
<1>4. PICK f : f = Frame(k.reg, v)
  OBVIOUS
<1>5. f \in Words /\ Len(f) = 17
  <2>1. f \in Words
    BY <1>1, <1>2, <1>3, <1>4, FramesTyped
  <2>2. Len(f) = 17
    BY <1>1, <1>4, RestoreLists
  <2> QED BY <2>1, <2>2
<1>6. PICK u : u = k.stack \o f
  OBVIOUS
<1>7. u \in Words /\ Len(u) = Len(k.stack) + 17
  <2>1. k.stack \o f \in Words /\ Len(k.stack \o f) = Len(k.stack) + Len(f)
    BY <1>1, <1>5, Above, Zenon
  <2> QED BY <1>5, <1>6, <2>1
<1>8. \A x \in Word, y \in Word :
        /\ u \o <<x, y>> \in Words /\ Len(u \o <<x, y>>) = Len(u) + 2
        /\ (u \o <<x, y>>)[Len(u \o <<x, y>>)] = y /\ Drop(u \o <<x, y>>, 1) = u \o <<x>>
  BY <1>7, TopOfTwo
<1>9. \A x \in Word : /\ u \o <<x>> \in Words /\ Len(u \o <<x>>) = Len(u) + 1
                      /\ Drop(u \o <<x>>, 1) = u
  BY <1>7, TopOfOne
<1>10. \A l \in Labels : Entered(k, v, l) = u \o <<Code("regs"), Code(l)>>
  BY <1>4, <1>6 DEF Entered
<1>11. Leaving(k, v) = u \o <<Code("regs")>>
  BY <1>4, <1>6 DEF Leaving
<1>12. /\ Entered(k, v, ret) \in Words /\ Len(Entered(k, v, ret)) = Len(u) + 2
       /\ Entered(k, v, ret)[Len(Entered(k, v, ret))] = Code(ret)
       /\ Drop(Entered(k, v, ret), 1) = Leaving(k, v)
  <2>1. /\ u \o <<Code("regs"), Code(ret)>> \in Words
        /\ Len(u \o <<Code("regs"), Code(ret)>>) = Len(u) + 2
        /\ (u \o <<Code("regs"), Code(ret)>>)[Len(u \o <<Code("regs"), Code(ret)>>)] = Code(ret)
        /\ Drop(u \o <<Code("regs"), Code(ret)>>, 1) = u \o <<Code("regs")>>
    BY <1>2, <1>8, Zenon
  <2>2. Entered(k, v, ret) = u \o <<Code("regs"), Code(ret)>>
    BY <1>10
  <2> QED BY <1>11, <2>1, <2>2
<1>13. Entered(k, v, "irq_ret") \in Words /\ Len(Entered(k, v, "irq_ret")) = Len(u) + 2
  <2>1. "irq_ret" \in Labels
    BY DEF Labels
  <2>2. Entered(k, v, "irq_ret") = u \o <<Code("regs"), Code("irq_ret")>>
    BY <1>10, <2>1
  <2>3. /\ u \o <<Code("regs"), Code("irq_ret")>> \in Words
        /\ Len(u \o <<Code("regs"), Code("irq_ret")>>) = Len(u) + 2
    BY <1>2, <1>8, Zenon
  <2> QED BY <2>2, <2>3
<1>14. /\ Leaving(k, v) \in Words /\ Len(Leaving(k, v)) = Len(u) + 1
       /\ Drop(Leaving(k, v), 1) = u
  BY <1>2, <1>9, <1>11, Zenon
<1>15. /\ Ticking(k, v) \in Words /\ Len(Ticking(k, v)) = Len(Entered(k, v, "irq_ret")) + 1
       /\ Ticking(k, v)[Len(Ticking(k, v))] = Code("irq_eoi")
       /\ Drop(Ticking(k, v), 1) = Entered(k, v, "irq_ret")
  <2>1. PICK e \in Words : e = Entered(k, v, "irq_ret")
    BY <1>13
  <2>2. Ticking(k, v) = e \o <<Code("irq_eoi")>>
    BY <1>2, <2>1, TopOfOne DEF Ticking
  <2> QED BY <1>2, <2>1, <2>2, TopOfOne, Zenon
<1> HIDE DEF Labels
<1>16. /\ Len(Entered(k, v, ret)) = Len(k.stack) + 19
       /\ Len(Leaving(k, v)) = Len(k.stack) + 18
       /\ Len(Ticking(k, v)) = Len(k.stack) + 20
  BY <1>1, <1>7, <1>12, <1>13, <1>14, <1>15
<1>17. k.stack \o Frame(k.reg, v) \in Words /\ Len(k.stack \o Frame(k.reg, v)) = Len(k.stack) + 17
  BY <1>4, <1>6, <1>7
<1>18. Drop(Leaving(k, v), 1) = k.stack \o Frame(k.reg, v)
  BY <1>4, <1>6, <1>14
<1> QED BY <1>1, <1>12, <1>14, <1>15, <1>16, <1>17, <1>18, Zenon

\* The same for a page fault in press().
LEMMA InnerHeights ==
  ASSUME NEW k \in Saved, NEW v \in 32 .. 47, NEW q \in Regs
  PROVE  /\ Nested(k, v, q) \in Words /\ Len(Nested(k, v, q)) = Len(k.stack) + 36
         /\ Nested(k, v, q) \o <<Code("regs")>> \in Words
         /\ Nested(k, v, q) \o <<Code("regs"), Code("isr_ret")>> \in Words
         /\ Len(Nested(k, v, q) \o <<Code("regs")>>) = Len(k.stack) + 37
         /\ Len(Nested(k, v, q) \o <<Code("regs"), Code("isr_ret")>>) = Len(k.stack) + 38
         /\ Drop(Nested(k, v, q) \o <<Code("regs")>>, 1) = Nested(k, v, q)
         /\ Drop(Nested(k, v, q) \o <<Code("regs"), Code("isr_ret")>>, 2) = Nested(k, v, q)
         /\ Drop(Nested(k, v, q) \o <<Code("regs"), Code("isr_ret")>>, 1)
            = Nested(k, v, q) \o <<Code("regs")>>
         /\ LET s == Nested(k, v, q) \o <<Code("regs"), Code("isr_ret")>>
            IN  s[Len(s)] = Code("isr_ret")
         /\ \A any : Popped(any, Nested(k, v, q), RestoreList) = q
         /\ Drop(Nested(k, v, q), 17) = Entered(k, v, "irq_ret")
<1>1. Code("regs") \in Word /\ Code("isr_ret") \in Word /\ Code("esp") \in Word
      /\ "irq_ret" \in Labels /\ v \in 0 .. 47
  BY WordsTyped DEF Labels
<1>2. PICK e \in Words : e = Entered(k, v, "irq_ret") /\ Len(e) = Len(k.stack) + 19
                         /\ Len(k.stack) \in Nat
  BY <1>1, TrapHeights
<1>3. PICK f \in Words : f = Frame(q, 14) /\ Len(f) = 17
  BY <1>1, FramesTyped, RestoreLists
<1>4. PICK n : n = Nested(k, v, q)
  OBVIOUS
<1>5. n = e \o f
  BY <1>2, <1>3, <1>4 DEF Nested
<1>6. n \in Words /\ Len(n) = Len(k.stack) + 36 /\ Drop(n, 17) = e
  <2>1. /\ e \o f \in Words /\ Len(e \o f) = Len(e) + Len(f) /\ Drop(e \o f, Len(f)) = e
    BY Above, Zenon
  <2>2. n \in Words /\ Len(n) = Len(e) + 17 /\ Drop(n, 17) = e
    BY <1>3, <1>5, <2>1
  <2> QED BY <1>2, <2>2
<1>7. \A any : Popped(any, n, RestoreList) = q
  BY <1>2, <1>3, <1>5, PopList, RestoreLists
<1>8. /\ n \o <<Code("regs")>> \in Words /\ Len(n \o <<Code("regs")>>) = Len(n) + 1
      /\ Drop(n \o <<Code("regs")>>, 1) = n
  BY <1>1, <1>6, TopOfOne
<1>9. LET s == n \o <<Code("regs"), Code("isr_ret")>>
      IN  /\ s \in Words /\ Len(s) = Len(n) + 2 /\ s[Len(s)] = Code("isr_ret")
          /\ Drop(s, 1) = n \o <<Code("regs")>> /\ Drop(s, 2) = n
  BY SMTT(30), <1>1, <1>6, TopOfTwo
<1>10. /\ Len(n \o <<Code("regs")>>) = Len(k.stack) + 37
       /\ Len(n \o <<Code("regs"), Code("isr_ret")>>) = Len(k.stack) + 38
  BY <1>2, <1>6, <1>8, <1>9
<1> QED BY <1>2, <1>4, <1>6, <1>7, <1>8, <1>9, <1>10, Zenon

\* A page fault v in press(), whose handler runs or has returned.
PressFault(k, v, q, s, r) ==
  /\ InPress(q)
  /\ \/ /\ r["eip"] = Code("page_fault")
        /\ s = Nested(k, v, q) \o <<Code("regs"), Code("isr_ret")>>
     \/ r["eip"] = Code("isr_ret") /\ s = Nested(k, v, q) \o <<Code("regs")>>

\* What lies on the stack in a page fault of press().
LEMMA InnerIs ==
  ASSUME NEW k \in Saved, NEW s \in Words, NEW r, InInner(k, s, r)
  PROVE  \E v \in 32 .. 47, q \in Regs : PressFault(k, v, q, s, r)
<1>1. ASSUME NEW n \in 1 .. 2, Len(s) >= 36
      PROVE  Popped(k.reg, Drop(s, n), RestoreList) \in Regs
  <2>1. Drop(s, n) \in Words /\ 17 <= Len(Drop(s, n)) /\ 17 \in Nat
    BY <1>1 DEF Drop, Words
  <2>2. Len(RestoreList) = 17 /\ k.reg \in Regs
    BY RestoreListIs DEF Saved
  <2> QED BY <2>1, <2>2, PoppedTyped, Zenon
<1>2. PICK v \in 32 .. 47 :
        \/ /\ r["eip"] = Code("page_fault") /\ Len(s) >= 36
           /\ InPress(Popped(k.reg, Drop(s, 2), RestoreList))
           /\ s = Nested(k, v, Popped(k.reg, Drop(s, 2), RestoreList))
                  \o <<Code("regs"), Code("isr_ret")>>
        \/ /\ r["eip"] = Code("isr_ret") /\ Len(s) >= 36
           /\ InPress(Popped(k.reg, Drop(s, 1), RestoreList))
           /\ s = Nested(k, v, Popped(k.reg, Drop(s, 1), RestoreList)) \o <<Code("regs")>>
  BY Zenon DEF InInner
<1>3. 1 \in 1 .. 2 /\ 2 \in 1 .. 2
  OBVIOUS
<1> QED BY <1>1, <1>2, <1>3, Zenon DEF PressFault

\* ... and the converse.
LEMMA IsInner ==
  ASSUME NEW k \in Saved, NEW v \in 32 .. 47, NEW q \in Regs, NEW s, NEW r, PressFault(k, v, q, s, r)
  PROVE  InInner(k, s, r)
<1>1. Len(k.stack) \in Nat
  BY DEF Saved, Words
<1>2. CASE /\ r["eip"] = Code("page_fault")
           /\ s = Nested(k, v, q) \o <<Code("regs"), Code("isr_ret")>>
  <2>1. Len(s) = Len(k.stack) + 38 /\ Drop(s, 2) = Nested(k, v, q)
        /\ Popped(k.reg, Drop(s, 2), RestoreList) = q
    <3>1. PICK u : u = Nested(k, v, q) \o <<Code("regs"), Code("isr_ret")>>
      OBVIOUS
    <3>2. Len(u) = Len(k.stack) + 38 /\ Drop(u, 2) = Nested(k, v, q)
          /\ Popped(k.reg, Nested(k, v, q), RestoreList) = q
      BY <3>1, InnerHeights, Zenon
    <3> QED BY <1>2, <3>1, <3>2, Zenon
  <2>2. Len(s) >= 36
    BY <1>1, <2>1
  <2> QED BY <1>2, <2>1, <2>2, Zenon DEF InInner, PressFault
<1>3. CASE r["eip"] = Code("isr_ret") /\ s = Nested(k, v, q) \o <<Code("regs")>>
  <2>1. Len(s) = Len(k.stack) + 37 /\ Drop(s, 1) = Nested(k, v, q)
        /\ Popped(k.reg, Drop(s, 1), RestoreList) = q
    <3>1. PICK u : u = Nested(k, v, q) \o <<Code("regs")>>
      OBVIOUS
    <3>2. Len(u) = Len(k.stack) + 37 /\ Drop(u, 1) = Nested(k, v, q)
          /\ Popped(k.reg, Nested(k, v, q), RestoreList) = q
      BY <3>1, InnerHeights, Zenon
    <3> QED BY <1>3, <3>1, <3>2, Zenon
  <2>2. Len(s) >= 36
    BY <1>1, <2>1
  <2> QED BY <1>3, <2>1, <2>2, Zenon DEF InInner, PressFault
<1> QED BY <1>2, <1>3, Zenon DEF PressFault

\* No shape is higher than StackBounded allows, and there is room for switchTo().
LEMMA ShapeBound ==
  ASSUME NEW t, NEW k \in Saved, NEW s \in Words, NEW r, Shape(t, k, s, r)
  PROVE  Len(s) <= 40 /\ (r["eip"] = Code("schedule") => Len(s) <= 22)
<1>1. PICK n \in Nat, m \in Nat : n = Len(s) /\ m = Len(k.stack)
  BY DEF Saved, Words
<1> SUFFICES n <= 40 /\ (r["eip"] = Code("schedule") => n <= 22)
  BY <1>1
<1>2. /\ InOwn(t, k) => m <= 1
      /\ Returns(t, k) => m = 2
      /\ Expires(t, k) => m = 3
  BY <1>1 DEF InOwn, Returns, Expires
<1>3. CASE Leftover(t, k) /\ s = k.stack
  <2>1. n = m
    BY <1>1, <1>3
  <2>2. m <= 3
    BY <1>2, <1>3 DEF Leftover
  <2> QED BY <2>1, <2>2
<1>4. CASE Expires(t, k) /\ InExpire(k, s, r)
  <2>1. OneMore(s, k.stack) \/ s = Drop(k.stack, 1)
    BY <1>4 DEF InExpire
  <2>2. m = 3
    BY <1>2, <1>4
  <2>3. n = m + 1 \/ n = m - 1
    <3>1. CASE OneMore(s, k.stack)
      BY <1>1, <3>1 DEF OneMore
    <3>2. CASE s = Drop(k.stack, 1)
      <4>1. PICK u \in Words : u = k.stack /\ Len(u) = 3
        BY <1>1, <2>2 DEF Saved
      <4>2. Len(Drop(u, 1)) = 2
        BY <4>1 DEF Drop, Words
      <4> QED BY <1>1, <2>2, <3>2, <4>1, <4>2
    <3> QED BY <2>1, <3>1, <3>2
  <2> QED BY <2>2, <2>3
<1>5. CASE Trapped(t, k, r) /\ InTrap(k, s, r)
  <2>1. PICK v \in 0 .. 47 :
          \/ s = Entered(k, v, "isr_ret") \/ s = Entered(k, v, "irq_ret") \/ s = Leaving(k, v)
          \/ s = Ticking(k, v) \/ (r["eip"] = Code("switched") /\ OneMore(s, Ticking(k, v)))
    BY <1>5 DEF InTrap
  <2>2. "isr_ret" \in Labels /\ "irq_ret" \in Labels
    BY DEF Labels
  <2>3. /\ Len(Entered(k, v, "isr_ret")) = m + 19
        /\ Len(Entered(k, v, "irq_ret")) = m + 19
        /\ Len(Leaving(k, v)) = m + 18 /\ Len(Ticking(k, v)) = m + 20
    BY <1>1, <2>2, TrapHeights
  <2>4. Code("switched")[2] # Code("schedule")[2]
    BY DEF Code
  <2>5. n = m + 19 \/ n = m + 18 \/ n = m + 20 \/ (r["eip"] # Code("schedule") /\ n = m + 21)
    BY <1>1, <2>1, <2>3, <2>4 DEF OneMore
  <2>6. m <= 2
    BY <1>2, <1>5 DEF Trapped
  <2> QED BY <1>1, <2>5, <2>6
<1>6. CASE Trapped(t, k, r) /\ InInner(k, s, r)
  <2>1. PICK v \in 32 .. 47, q \in Regs :
           \/ s = Nested(k, v, q) \o <<Code("regs"), Code("isr_ret")>>
           \/ s = Nested(k, v, q) \o <<Code("regs")>>
    <3>1. PICK v \in 32 .. 47, q \in Regs : PressFault(k, v, q, s, r)
      BY <1>6, InnerIs
    <3> QED BY <3>1, Zenon DEF PressFault
  <2>2. /\ Len(Nested(k, v, q) \o <<Code("regs")>>) = m + 37
        /\ Len(Nested(k, v, q) \o <<Code("regs"), Code("isr_ret")>>) = m + 38
    BY <1>1, InnerHeights, Zenon
  <2>3. n = m + 37 \/ n = m + 38
    BY <1>1, <2>1, <2>2, Zenon
  <2>4. r["eip"] # Code("schedule")
    <3>1. Code("page_fault")[2] # Code("schedule")[2] /\ Code("isr_ret")[2] # Code("schedule")[2]
      BY DEF Code
    <3> QED BY <1>6, <3>1 DEF InInner
  <2>5. m <= 2
    BY <1>2, <1>6 DEF Trapped
  <2> QED BY <1>1, <2>3, <2>4, <2>5
<1> QED BY <1>3, <1>4, <1>5, <1>6 DEF Shape, Trapped

-----------------------------------------------------------------------------
(* The inductive invariant *)

Inv == Typed /\ StackBounded /\ StacksIntact /\ FrameReadable

\* A step of the thread that runs.  It may change what the thread's own code left.
LEMMA ThreadStep ==
  ASSUME Inv, current' = current, ready' \subseteq ready, reg' \in Regs,
         stack' \in [Thread -> Words], kept' \in [Thread -> Saved], esp' = esp, trap' \in Traps,
         \A p \in Thread \ {current} : stack'[p] = stack[p] /\ kept'[p] = kept[p],
         Shape(current, kept'[current], stack'[current], reg'),
         At("irq_ret")' \/ At("isr_ret")' => trap'.vector = 0,
         FrameReadable'
  PROVE  Inv'
<1>1. Typed'
  BY DEF Inv, Typed
<1>2. current \in Thread
  BY DEF Inv, Typed
<1>3. StackBounded'
  <2>1. Len(stack'[current]) <= 40
    BY <1>2, ShapeBound
  <2>2. \A p \in Thread : Len(stack[p]) <= 40
    BY DEF Inv, StackBounded
  <2>3. \A p \in Thread : Len(stack'[p]) <= 40
    BY <2>1, <2>2
  <2> QED BY <2>3 DEF StackBounded
<1>4. ready \subseteq Thread
  BY DEF Inv, Typed, Thread
<1>5. ASSUME NEW p \in ready' \ {current} PROVE Waiting(p, kept'[p], stack'[p], esp'[p])
  <2>1. Waiting(p, kept[p], stack[p], esp[p])
    BY DEF Inv, StacksIntact
  <2> QED BY <1>4, <2>1
<1>6. StacksIntact'
  BY <1>5 DEF StacksIntact
<1> QED BY <1>1, <1>3, <1>6 DEF Inv

\* Away from the handlers in C there is no frame to be read.
LEMMA NoHandler ==
  ASSUME \/ reg'["eip"][2] \notin {"page_fault", "fault_handler", "irq_handler"}
         \/ reg'["eip"] = Code("irq_handler") /\ trap'.vector = 0
  PROVE  FrameReadable'
BY DEF FrameReadable, At, Code

\* What the CPU and the stub of vector v do.
LEMMA TrapStep ==
  ASSUME Inv, NEW v \in 0 .. 47, v # 17, NEW w,
         w = IF v < 32 THEN IsrWords(v) ELSE IrqWords(v),
         NEW handler \in Labels, NEW ret \in Labels, Trap(v, w, handler, ret)
  PROVE  /\ current' = current /\ ready' = ready /\ esp' = esp /\ kept' = kept
         /\ trap' = [vector |-> v, reg |-> reg]
         /\ reg' \in Regs /\ reg'["eip"] = Code(handler) /\ reg'["eflags"] = Flags(0)
         /\ stack' \in [Thread -> Words]
         /\ stack'[current] = (stack[current] \o Frame(reg, v)) \o <<Code("regs"), Code(ret)>>
         /\ \A p \in Thread \ {current} : stack'[p] = stack[p]
         /\ FrameReadable'
<1>1. current \in Thread /\ reg \in Regs /\ stack \in [Thread -> Words] /\ v \in Nat
  BY DEF Inv, Typed
<1>2. stack[current] \in Words
  BY <1>1
<1>3. PICK f : f = Frame(reg, v)
  OBVIOUS
<1>4. f \in Words
  BY <1>1, <1>3, FramesTyped, WordsTyped DEF Labels
<1>5. Code("regs") \in Word /\ Code(ret) \in Word /\ Code(handler) \in Word
  BY WordsTyped DEF Labels
<1>6. /\ current' = current /\ ready' = ready /\ esp' = esp /\ kept' = kept
      /\ trap' = [vector |-> v, reg |-> reg]
  BY DEF Trap
<1>7. reg' \in Regs /\ reg'["eip"] = Code(handler) /\ reg'["eflags"] = Flags(0)
  <2>1. Gate(v).flags = 142 /\ Gate(v).sel = 16
    BY DEF Gate, IsrGates, IrqGates
  <2>2. Loaded(reg) \in Regs
    BY <1>1, WordsTyped DEF Loaded, Regs
  <2>3. Lit(16) \in Word /\ Flags(0) \in Word
    BY WordsTyped
  <2>4. reg' = [Loaded(reg) EXCEPT !["eax"] = Code(handler), !["eip"] = Code(handler),
                                   !["cs"] = Lit(16), !["eflags"] = Flags(0)]
    BY <2>1 DEF Trap
  <2>5. "eip" \in Reg /\ "eflags" \in Reg /\ "eax" \in Reg /\ "cs" \in Reg
    BY RegIs DEF RegNames
  <2> QED BY <1>5, <2>2, <2>3, <2>4, <2>5 DEF Regs
<1>8. Pushed(reg, <<"eflags", "cs", "eip">>) \o (IF v \in CpuCode THEN <<Lit(0)>> ELSE <<>>)
        \o w \o Pushed(reg, SaveList) = f
  BY <1>1, <1>3, TrapWords
<1>9. stack' = [stack EXCEPT ![current] = (stack[current] \o f) \o <<Code("regs"), Code(ret)>>]
  BY <1>8 DEF Trap
<1>10. PICK u : u = (stack[current] \o f) \o <<Code("regs"), Code(ret)>>
  OBVIOUS
<1>11. u \in Words
  <2>1. stack[current] \o f \in Words
    BY <1>2, <1>4, Above, Zenon
  <2> QED BY <1>5, <1>10, <2>1, TopOfTwo, Zenon
<1>12. /\ stack' \in [Thread -> Words] /\ stack'[current] = u
       /\ \A p \in Thread \ {current} : stack'[p] = stack[p]
  BY <1>1, <1>9, <1>10, <1>11
<1>13. stack'[current'] = (stack[current] \o Frame(reg, v)) \o <<Code("regs"), Code(ret)>>
  BY <1>3, <1>6, <1>10, <1>12
<1>14. Field("int_no")' = Lit(v) /\ \A x \in Reg : Field(x)' = reg[x]
  <2>1. Code("regs") \in Word /\ Code(ret) \in Word /\ v \in Nat
    BY <1>1, <1>5
  <2>2. FieldAt(stack'[current'], "int_no") = Lit(v)
        /\ \A x \in Reg : FieldAt(stack'[current'], x) = reg[x]
    <3>1. PICK s : s = stack'[current']
      OBVIOUS
    <3>2. s = (stack[current] \o Frame(reg, v)) \o <<Code("regs"), Code(ret)>>
      BY <1>13, <3>1
    <3>3. FieldAt(s, "int_no") = Lit(v) /\ \A x \in Reg : FieldAt(s, x) = reg[x]
      <4>1. Framed(s, stack[current], reg, v, Code("regs"), Code(ret))
        BY <3>2, Zenon DEF Framed
      <4> QED BY <1>1, <1>2, <2>1, <4>1, FieldWords
    <3> QED BY <3>1, <3>3, Zenon
  <2>3. \A y : Field(y)' = FieldAt(stack'[current'], y)
    BY Zenon DEF Field, FieldAt
  <2> QED BY <2>2, <2>3, Zenon
<1>15. FrameReadable'
  BY <1>6, <1>14 DEF FrameReadable
<1> QED BY <1>6, <1>7, <1>12, <1>13, <1>15

-----------------------------------------------------------------------------
(* Traps *)

\* An address in the kernel's code tells its label.
LEMMA CodeIs == \A l, m : Code(l) = Code(m) => l = m
<1>1. \A l : Code(l)[2] = l
  BY DEF Code
<1> QED BY <1>1

\* A trap that comes while interrupts are enabled.
LEMMA TrapComes ==
  ASSUME Inv, IntsOn, NEW v \in 0 .. 47, v # 17, NEW w,
         w = IF v < 32 THEN IsrWords(v) ELSE IrqWords(v),
         NEW handler, NEW ret, Trap(v, w, handler, ret),
         \/ handler = "irq_handler" /\ ret = "irq_ret" /\ v >= 32
         \/ handler = "page_fault" /\ ret = "isr_ret" /\ v = 14
         \/ handler = "fault_handler" /\ ret = "isr_ret" /\ v < 32 /\ v # 14
  PROVE  Inv'
<1>1. PICK k \in Saved : k = kept[current]
  BY DEF Inv, Typed
<1>2. handler \in Labels /\ ret \in Labels
  BY DEF Labels
<1>3. /\ current' = current /\ ready' = ready /\ esp' = esp /\ kept' = kept
      /\ trap' = [vector |-> v, reg |-> reg]
      /\ reg' \in Regs /\ reg'["eip"] = Code(handler) /\ reg'["eflags"] = Flags(0)
      /\ stack' \in [Thread -> Words]
      /\ stack'[current] = (stack[current] \o Frame(reg, v)) \o <<Code("regs"), Code(ret)>>
      /\ \A p \in Thread \ {current} : stack'[p] = stack[p]
      /\ FrameReadable'
  BY <1>2, TrapStep
<1>4. Shape(current, k, stack[current], reg)
  BY <1>1 DEF Inv, StacksIntact
<1>5. (InOwn(current, k) \/ Returns(current, k)) /\ stack[current] = k.stack /\ reg = k.reg
  BY <1>4, OutsideTraps DEF IntsOn
<1>6. stack'[current] = Entered(k, v, ret)
  BY <1>3, <1>5 DEF Entered
<1>7. InTrap(k, stack'[current], reg')
  BY <1>3, <1>6 DEF InTrap
<1>8. Shape(current, kept'[current], stack'[current], reg')
  BY <1>1, <1>3, <1>5, <1>7 DEF Shape
<1>9. ~ (At("irq_ret")' \/ At("isr_ret")')
  BY <1>3, CodeIs DEF At
<1>10. trap' \in Traps /\ kept' \in [Thread -> Saved]
  BY <1>3 DEF Inv, Typed, Traps
<1> QED BY <1>3, <1>8, <1>9, <1>10, ThreadStep

\* An interrupt comes.
LEMMA IrqKeeps == ASSUME Inv, NEW l \in Lines, Irq(l) PROVE Inv'
<1>1. l \in 0 .. 15
  BY FramesAssumption
<1>2. /\ 32 + l \in 0 .. 47 /\ 32 + l # 17 /\ 32 + l >= 32
      /\ IrqWords(32 + l) = IF 32 + l < 32 THEN IsrWords(32 + l) ELSE IrqWords(32 + l)
  BY <1>1
<1>3. IntsOn /\ Trap(32 + l, IrqWords(32 + l), "irq_handler", "irq_ret")
  BY DEF Irq
<1> QED BY <1>2, <1>3, TrapComes

\* A program raises an exception.
LEMMA ExceptionKeeps == ASSUME Inv, NEW v \in Exceptions, Exception(v) PROVE Inv'
<1>1. v \in 0 .. 31 /\ v # 14 /\ v # 17
  BY FramesAssumption
<1>2. v \in 0 .. 47 /\ v < 32 /\ IsrWords(v) = IF v < 32 THEN IsrWords(v) ELSE IrqWords(v)
  BY <1>1
<1>3. InProgram /\ Trap(v, IsrWords(v), "fault_handler", "isr_ret")
  BY DEF Exception
<1>4. IntsOn
  <2>1. PICK k \in Saved : k = kept[current]
    BY DEF Inv, Typed
  <2>2. Shape(current, k, stack[current], reg)
    BY <2>1 DEF Inv, StacksIntact
  <2>3. InOwn(current, k) /\ reg = k.reg
    BY <1>3, <2>2, OutsideTraps DEF InProgram
  <2> QED BY <2>3 DEF InOwn, IntsOn
<1> QED BY <1>1, <1>2, <1>3, <1>4, TrapComes

\* A page fault in press() puts a second frame above the one of the interrupt.
LEMMA PageFaultKeeps == ASSUME Inv, PageFault PROVE Inv'
<1>1. 14 \in 0 .. 47 /\ 14 # 17 /\ IsrWords(14) = IF 14 < 32 THEN IsrWords(14) ELSE IrqWords(14)
  OBVIOUS
<1>2. Trap(14, IsrWords(14), "page_fault", "isr_ret")
  BY DEF PageFault
<1>3. CASE IntsOn
  BY <1>1, <1>2, <1>3, TrapComes
<1>4. CASE At("irq_handler")
  <2>1. PICK k \in Saved : k = kept[current]
    BY DEF Inv, Typed
  <2>2. "page_fault" \in Labels /\ "isr_ret" \in Labels
    BY DEF Labels
  <2>3. /\ current' = current /\ ready' = ready /\ esp' = esp /\ kept' = kept
        /\ trap' = [vector |-> 14, reg |-> reg]
        /\ reg' \in Regs /\ reg'["eip"] = Code("page_fault") /\ reg'["eflags"] = Flags(0)
        /\ stack' \in [Thread -> Words]
        /\ stack'[current] = (stack[current] \o Frame(reg, 14)) \o <<Code("regs"), Code("isr_ret")>>
        /\ \A p \in Thread \ {current} : stack'[p] = stack[p]
        /\ FrameReadable'
    BY <1>1, <1>2, <2>2, TrapStep
  <2>4. Shape(current, k, stack[current], reg) /\ reg \in Regs
    BY <2>1 DEF Inv, StacksIntact, Typed
  <2>5. Trapped(current, k, reg) /\ \E v \in 32 .. 47 : stack[current] = Entered(k, v, "irq_ret")
    BY <1>4, <2>4, InHandlers DEF At
  <2>6. PICK v \in 32 .. 47 : stack[current] = Entered(k, v, "irq_ret")
    BY <2>5
  <2>7. stack'[current] = Nested(k, v, reg) \o <<Code("regs"), Code("isr_ret")>>
    BY <2>3, <2>6 DEF Nested
  <2>8. PressFault(k, v, reg, stack'[current], reg')
    BY <1>4, <2>3, <2>5, <2>7 DEF PressFault, InPress, At, Trapped
  <2>9. InInner(k, stack'[current], reg')
    BY <2>4, <2>8, IsInner
  <2>10. Shape(current, kept'[current], stack'[current], reg')
    BY <2>1, <2>3, <2>5, <2>9 DEF Shape, Trapped
  <2>11. ~ (At("irq_ret")' \/ At("isr_ret")')
    BY <2>3, CodeIs DEF At
  <2>12. trap' \in Traps /\ kept' \in [Thread -> Saved]
    BY <2>3, <2>4 DEF Inv, Typed, Traps
  <2> QED BY <2>3, <2>10, <2>11, <2>12, ThreadStep
<1> QED BY <1>3, <1>4 DEF PageFault

-----------------------------------------------------------------------------
(* Steps of compiled code *)

\* The registers the boot thread starts with, and the absence of a trap.
LEMMA BootTyped == Boot \in Regs /\ NoTrap \in Traps /\ NoTrap.vector = 0
<1>1. None \in Thread /\ 0 \in Nat /\ 1 \in Nat /\ 16 \in Nat /\ 8 \in Nat
  BY DEF Thread
<1>2. ASSUME NEW x \in Reg PROVE Boot[x] \in Word
  <2>1. CASE x \in {"eip", "eflags", "cs", "ds", "es", "fs", "gs"}
    BY <1>1, <2>1, WordsTyped DEF Boot
  <2>2. CASE x \notin {"eip", "eflags", "cs", "ds", "es", "fs", "gs"}
    <3>1. x \in GpRegs
      BY <2>2, RegIs DEF RegNames, GpRegs, Gp
    <3>2. Boot[x] = Own(None, x, 0)
      BY <2>2 DEF Boot
    <3> QED BY <1>1, <3>1, <3>2, WordsTyped
  <2> QED BY <2>1, <2>2
<1>3. Boot = [x \in Reg |-> Boot[x]]
  BY DEF Boot
<1>4. Boot \in Regs
  BY <1>2, <1>3 DEF Regs
<1> QED BY <1>4 DEF NoTrap, Traps

\* A step that goes on at l with the stack s keeps the flags and the registers that
\* the compiler's convention keeps.
LEMMA GotoStep ==
  ASSUME Inv, NEW l \in Word, NEW s \in Words, Goto(l, s),
         l[2] \notin {"page_fault", "fault_handler", "irq_handler"},
         reg' \in Regs /\ reg'["eip"] = l /\ reg'["eflags"] = reg["eflags"] =>
           Shape(current, kept[current], s, reg')
  PROVE  Inv'
<1>1. /\ current' = current /\ ready' = ready /\ esp' = esp /\ kept' = kept
      /\ trap' = NoTrap /\ stack' = [stack EXCEPT ![current] = s]
      /\ reg' = [reg EXCEPT !["eip"] = l, !["eax"] = Scratch, !["ecx"] = Scratch,
                            !["edx"] = Scratch]
  BY DEF Goto
<1>2. current \in Thread /\ reg \in Regs /\ stack \in [Thread -> Words]
      /\ kept \in [Thread -> Saved]
  BY DEF Inv, Typed
<1>3. Scratch \in Word /\ {"eip", "eax", "ecx", "edx", "eflags"} \subseteq Reg
  BY WordsTyped, RegIs DEF Scratch, Labels, RegNames
<1>4. reg' \in Regs /\ reg'["eip"] = l /\ reg'["eflags"] = reg["eflags"]
  BY <1>1, <1>2, <1>3 DEF Regs
<1>5. /\ stack' \in [Thread -> Words] /\ stack'[current] = s
      /\ \A p \in Thread \ {current} : stack'[p] = stack[p]
  BY <1>1, <1>2
<1>6. Shape(current, kept'[current], stack'[current], reg')
  BY <1>1, <1>4, <1>5
<1>7. trap' \in Traps /\ trap'.vector = 0
  BY <1>1, BootTyped
<1>8. FrameReadable'
  BY <1>4, NoHandler
<1> QED BY <1>1, <1>2, <1>4, <1>5, <1>6, <1>7, <1>8, ThreadStep

\* irq_handler(): the tick goes to schedule(), every other line to its end.
LEMMA IrqHandlerKeeps == ASSUME Inv, IrqHandler PROVE Inv'
<1>1. PICK k \in Saved : k = kept[current]
  BY DEF Inv, Typed
<1>2. Shape(current, k, stack[current], reg) /\ reg["eip"] = Code("irq_handler")
  BY <1>1 DEF Inv, StacksIntact, IrqHandler, At
<1>3. Trapped(current, k, reg) /\ \E v \in 32 .. 47 : stack[current] = Entered(k, v, "irq_ret")
  BY <1>2, InHandlers
<1>4. PICK v \in 32 .. 47 : stack[current] = Entered(k, v, "irq_ret")
  BY <1>3
<1>5. "irq_ret" \in Labels /\ v \in 0 .. 47
  BY DEF Labels
<1>6. /\ Code("schedule") \in Word /\ Code("schedule")[2] = "schedule"
      /\ Code("irq_eoi") \in Word /\ Code("irq_eoi")[2] = "irq_eoi"
  BY WordsTyped DEF Labels, Code
<1>7. Ticking(k, v) \in Words /\ Entered(k, v, "irq_ret") \in Words
  BY <1>5, TrapHeights
<1>8. CASE Goto(Code("schedule"), Append(stack[current], Code("irq_eoi")))
  <2>1. Goto(Code("schedule"), Ticking(k, v))
    BY <1>4, <1>8, Zenon DEF Ticking
  <2>2. ASSUME reg'["eip"] = Code("schedule"), reg'["eflags"] = reg["eflags"]
        PROVE  Shape(current, kept[current], Ticking(k, v), reg')
    <3>1. InTrap(k, Ticking(k, v), reg')
      BY <1>5, <2>2 DEF InTrap
    <3> QED BY <1>1, <1>3, <2>2, <3>1 DEF Shape, Trapped
  <2> QED BY <1>6, <1>7, <2>1, <2>2, GotoStep
<1>9. CASE Goto(Code("irq_eoi"), stack[current])
  <2>1. Goto(Code("irq_eoi"), Entered(k, v, "irq_ret"))
    BY <1>4, <1>9
  <2>2. ASSUME reg'["eip"] = Code("irq_eoi"), reg'["eflags"] = reg["eflags"]
        PROVE  Shape(current, kept[current], Entered(k, v, "irq_ret"), reg')
    <3>1. InTrap(k, Entered(k, v, "irq_ret"), reg')
      BY <1>5, <2>2 DEF InTrap
    <3> QED BY <1>1, <1>3, <2>2, <3>1 DEF Shape, Trapped
  <2> QED BY <1>6, <1>7, <2>1, <2>2, GotoStep
<1> QED BY <1>8, <1>9 DEF IrqHandler

\* The end of interrupt, then back to the stub.
LEMMA IrqEoiKeeps == ASSUME Inv, IrqEoi PROVE Inv'
<1>1. PICK k \in Saved : k = kept[current]
  BY DEF Inv, Typed
<1>2. Shape(current, k, stack[current], reg) /\ reg["eip"] = Code("irq_eoi")
  BY <1>1 DEF Inv, StacksIntact, IrqEoi, At
<1>3. Trapped(current, k, reg) /\ \E v \in 32 .. 47 : stack[current] = Entered(k, v, "irq_ret")
  BY <1>2, InHandlers
<1>4. PICK v \in 32 .. 47 : stack[current] = Entered(k, v, "irq_ret")
  BY <1>3
<1>5. "irq_ret" \in Labels /\ v \in 0 .. 47
  BY DEF Labels
<1>6. /\ Leaving(k, v) \in Words /\ Drop(Entered(k, v, "irq_ret"), 1) = Leaving(k, v)
      /\ Entered(k, v, "irq_ret")[Len(Entered(k, v, "irq_ret"))] = Code("irq_ret")
  BY <1>5, TrapHeights
<1>7. Goto(Code("irq_ret"), Leaving(k, v))
  BY <1>4, <1>6, Zenon DEF IrqEoi, Return
<1>8. ASSUME reg'["eip"] = Code("irq_ret"), reg'["eflags"] = reg["eflags"]
      PROVE  Shape(current, kept[current], Leaving(k, v), reg')
  <2>1. InTrap(k, Leaving(k, v), reg')
    BY <1>5, <1>8 DEF InTrap
  <2> QED BY <1>1, <1>3, <1>8, <2>1 DEF Shape, Trapped
<1>9. Code("irq_ret") \in Word /\ Code("irq_ret")[2] = "irq_ret"
  BY WordsTyped DEF Labels, Code
<1> QED BY <1>6, <1>7, <1>8, <1>9, GotoStep

\* page_fault() returns into isr14, in a program or in press().
LEMMA FaultMappedKeeps == ASSUME Inv, FaultMapped PROVE Inv'
<1>1. PICK k \in Saved : k = kept[current]
  BY DEF Inv, Typed
<1>2. /\ Shape(current, k, stack[current], reg) /\ reg["eip"] = Code("page_fault")
      /\ stack[current] \in Words
  BY <1>1 DEF Inv, StacksIntact, Typed, FaultMapped, At
<1>3. Trapped(current, k, reg)
      /\ (stack[current] = Entered(k, 14, "isr_ret") \/ InInner(k, stack[current], reg))
  BY <1>2, InHandlers
<1>4. Code("isr_ret") \in Word /\ Code("isr_ret")[2] = "isr_ret"
  BY WordsTyped DEF Labels, Code
<1>5. CASE stack[current] = Entered(k, 14, "isr_ret")
  <2>1. "isr_ret" \in Labels /\ 14 \in 0 .. 47
    BY DEF Labels
  <2>2. /\ Leaving(k, 14) \in Words /\ Drop(Entered(k, 14, "isr_ret"), 1) = Leaving(k, 14)
        /\ Entered(k, 14, "isr_ret")[Len(Entered(k, 14, "isr_ret"))] = Code("isr_ret")
    BY <2>1, TrapHeights
  <2>3. Goto(Code("isr_ret"), Leaving(k, 14))
    BY <1>5, <2>2, Zenon DEF FaultMapped, Return
  <2>4. ASSUME reg'["eip"] = Code("isr_ret"), reg'["eflags"] = reg["eflags"]
        PROVE  Shape(current, kept[current], Leaving(k, 14), reg')
    <3>1. InTrap(k, Leaving(k, 14), reg')
      BY <2>1, <2>4 DEF InTrap
    <3> QED BY <1>1, <1>3, <2>4, <3>1 DEF Shape, Trapped
  <2> QED BY <1>4, <2>2, <2>3, <2>4, GotoStep
<1>6. CASE InInner(k, stack[current], reg)
  <2>1. PICK v \in 32 .. 47, q \in Regs : PressFault(k, v, q, stack[current], reg)
    BY <1>2, <1>6, InnerIs
  <2>2. Code("page_fault") # Code("isr_ret")
    BY CodeIs
  <2>3. InPress(q) /\ stack[current] = Nested(k, v, q) \o <<Code("regs"), Code("isr_ret")>>
    BY <1>2, <2>1, <2>2, Zenon DEF PressFault
  <2>4. PICK u \in Words : u = Nested(k, v, q) \o <<Code("regs")>>
    BY InnerHeights
  <2>5. PICK s : s = stack[current]
    OBVIOUS
  <2>6. s[Len(s)] = Code("isr_ret") /\ Drop(s, 1) = u
    BY ZenonT(60), <2>3, <2>4, <2>5, InnerHeights
  <2>7. Goto(Code("isr_ret"), u)
    BY <2>5, <2>6, Zenon DEF FaultMapped, Return
  <2>8. ASSUME reg'["eip"] = Code("isr_ret"), reg'["eflags"] = reg["eflags"]
        PROVE  Shape(current, kept[current], u, reg')
    <3>1. PressFault(k, v, q, u, reg')
      BY <2>3, <2>4, <2>8, Zenon DEF PressFault
    <3>2. InInner(k, u, reg')
      BY <3>1, IsInner
    <3> QED BY <1>1, <1>3, <2>8, <3>2 DEF Shape, Trapped
  <2> QED BY <1>4, <2>7, <2>8, GotoStep
<1> QED BY <1>3, <1>5, <1>6

\* A timer interrupt in schedule() finds that the process has ticks left.
LEMMA StillTicksKeeps == ASSUME Inv, StillTicks PROVE Inv'
<1>1. PICK k \in Saved : k = kept[current]
  BY DEF Inv, Typed
<1>2. Shape(current, k, stack[current], reg) /\ reg["eip"] = Code("schedule")
  BY <1>1 DEF Inv, StacksIntact, StillTicks, At
<1>3. ~ (Expires(current, k) /\ stack[current] = k.stack)
  <2>1. Code("expired") # Code("irq_eoi")
    BY CodeIs
  <2> QED BY <2>1 DEF Expires, StillTicks
<1>4. Trapped(current, k, reg) /\ \E v \in 32 .. 47 : stack[current] = Ticking(k, v)
  BY SMTT(30), <1>2, <1>3, InSchedule
<1>5. PICK v \in 32 .. 47 : stack[current] = Ticking(k, v)
  BY <1>4
<1>6. "irq_ret" \in Labels /\ v \in 0 .. 47
  BY DEF Labels
<1>7. /\ Entered(k, v, "irq_ret") \in Words /\ Drop(Ticking(k, v), 1) = Entered(k, v, "irq_ret")
      /\ Ticking(k, v)[Len(Ticking(k, v))] = Code("irq_eoi")
  BY <1>6, TrapHeights
<1>8. Goto(Code("irq_eoi"), Entered(k, v, "irq_ret"))
  BY <1>5, <1>7, Zenon DEF StillTicks, Return
<1>9. ASSUME reg'["eip"] = Code("irq_eoi"), reg'["eflags"] = reg["eflags"]
      PROVE  Shape(current, kept[current], Entered(k, v, "irq_ret"), reg')
  <2>1. InTrap(k, Entered(k, v, "irq_ret"), reg')
    BY <1>6, <1>9 DEF InTrap
  <2> QED BY <1>1, <1>4, <1>9, <2>1 DEF Shape, Trapped
<1>10. Code("irq_eoi") \in Word /\ Code("irq_eoi")[2] = "irq_eoi"
  BY WordsTyped DEF Labels, Code
<1> QED BY <1>7, <1>8, <1>9, <1>10, GotoStep

\* Behind switchTo(), in the handler of an interrupt or in process_expire().
LEMMA SwitchedKeeps == ASSUME Inv, Switched PROVE Inv'
<1>1. PICK k \in Saved : k = kept[current]
  BY DEF Inv, Typed
<1>2. /\ Shape(current, k, stack[current], reg) /\ reg["eip"] = Code("switched")
      /\ stack[current] \in Words /\ k.reg \in Regs /\ k.stack \in Words
  BY <1>1 DEF Inv, StacksIntact, Typed, Switched, At, Saved
<1>3. PICK u : u = Drop(stack[current], 1)
  OBVIOUS
<1>4. Goto(u[Len(u)], Drop(u, 1))
  BY <1>3, Zenon DEF Switched
<1>5. CASE Trapped(current, k, reg) /\ \E v \in 32 .. 47 : OneMore(stack[current], Ticking(k, v))
  <2>1. PICK v \in 32 .. 47 : u = Ticking(k, v)
    BY <1>3, <1>5 DEF OneMore
  <2>2. "irq_ret" \in Labels /\ v \in 0 .. 47
    BY DEF Labels
  <2>3. /\ Entered(k, v, "irq_ret") \in Words /\ Drop(Ticking(k, v), 1) = Entered(k, v, "irq_ret")
        /\ Ticking(k, v)[Len(Ticking(k, v))] = Code("irq_eoi")
    BY <2>2, TrapHeights
  <2>4. Goto(Code("irq_eoi"), Entered(k, v, "irq_ret"))
    BY <1>4, <2>1, <2>3, Zenon
  <2>5. ASSUME reg'["eip"] = Code("irq_eoi"), reg'["eflags"] = reg["eflags"]
        PROVE  Shape(current, kept[current], Entered(k, v, "irq_ret"), reg')
    <3>1. InTrap(k, Entered(k, v, "irq_ret"), reg')
      BY <2>2, <2>5 DEF InTrap
    <3> QED BY <1>1, <1>5, <2>5, <3>1 DEF Shape, Trapped
  <2>6. Code("irq_eoi") \in Word /\ Code("irq_eoi")[2] = "irq_eoi"
    BY WordsTyped DEF Labels, Code
  <2> QED BY <2>3, <2>4, <2>5, <2>6, GotoStep
<1>6. CASE /\ Expires(current, k) /\ OneMore(stack[current], k.stack)
           /\ reg = [k.reg EXCEPT !["eip"] = Code("switched")]
  <2>1. u = k.stack /\ Len(u) = 3 /\ u[3] = Code("expired")
    BY <1>3, <1>6 DEF OneMore, Expires
  <2>2. Drop(u, 1) \in Words
    BY <1>2, <2>1 DEF Drop, Words
  <2>3. Goto(Code("expired"), Drop(u, 1))
    BY <1>4, <2>1, Zenon
  <2>4. reg' = [reg EXCEPT !["eip"] = Code("expired"), !["eax"] = Scratch, !["ecx"] = Scratch,
                           !["edx"] = Scratch]
    BY <2>3 DEF Goto
  <2>5. reg' = [k.reg EXCEPT !["eip"] = Code("expired"), !["eax"] = Scratch, !["ecx"] = Scratch,
                             !["edx"] = Scratch]
    BY <1>2, <1>6, <2>4 DEF Regs
  <2>6. InExpire(k, Drop(u, 1), reg')
    BY <2>1, <2>5 DEF InExpire
  <2>7. Shape(current, kept[current], Drop(u, 1), reg')
    BY <1>1, <1>6, <2>6 DEF Shape
  <2>8. Code("expired") \in Word /\ Code("expired")[2] = "expired"
    BY WordsTyped DEF Labels, Code
  <2> QED BY <2>2, <2>3, <2>7, <2>8, GotoStep
<1> QED BY <1>2, <1>5, <1>6, InSchedule

\* iret goes back to what was interrupted: the thread's own code, or press().
LEMMA TrapReturnKeeps == ASSUME Inv, TrapReturn PROVE Inv'
<1>1. PICK k \in Saved : k = kept[current]
  BY DEF Inv, Typed
<1>2. /\ Shape(current, k, stack[current], reg) /\ current \in Thread
      /\ stack \in [Thread -> Words] /\ stack[current] \in Words /\ kept \in [Thread -> Saved]
      /\ k.reg \in Regs /\ k.stack \in Words /\ trap \in Traps
  BY <1>1 DEF Inv, StacksIntact, Typed, Saved
<1>3. /\ At("irq_ret") \/ At("isr_ret")
      /\ current' = current /\ ready' = ready /\ esp' = esp /\ trap' = trap /\ kept' = kept
  BY DEF TrapReturn
<1>4. trap.vector = 0
  BY <1>3 DEF Inv, StacksIntact
<1>5. PICK s : s = Drop(stack[current], 1)
  OBVIOUS
<1>6. reg' = Popped(reg, s, RestoreList) /\ stack' = [stack EXCEPT ![current] = Drop(s, 17)]
  <2>1. Len(RestoreList) = 17
    BY RestoreListIs
  <2>2. reg' = Popped(reg, s, RestoreList)
        /\ stack' = [stack EXCEPT ![current] = Drop(s, Len(RestoreList))]
    BY <1>5, Zenon DEF TrapReturn
  <2> QED BY <2>1, <2>2
<1>7. CASE Trapped(current, k, reg) /\ \E v \in 0 .. 47 : stack[current] = Leaving(k, v)
  <2>1. PICK v \in 0 .. 47 : stack[current] = Leaving(k, v)
    BY <1>7
  <2>2. s = k.stack \o Frame(k.reg, v)
    <3>1. "irq_ret" \in Labels
      BY DEF Labels
    <3> QED BY <1>5, <2>1, <3>1, TrapHeights
  <2>3. Popped(reg, s, RestoreList) = k.reg /\ Drop(s, 17) = k.stack
    <3>1. PICK f : f = Frame(k.reg, v)
      OBVIOUS
    <3>2. f \in Words
      BY <1>2, <3>1, FramesTyped, WordsTyped DEF Labels
    <3>3. Lists(RestoreList, f, k.reg) /\ Len(RestoreList) = 17
      BY <1>2, <3>1, RestoreLists
    <3>4. Popped(reg, k.stack \o f, RestoreList) = k.reg
          /\ Drop(k.stack \o f, Len(RestoreList)) = k.stack
      <4>1. PICK r \in Regs, u \in Words : r = k.reg /\ u = k.stack
        BY <1>2
      <4>2. Lists(RestoreList, f, r)
        BY <3>3, <4>1
      <4>3. Popped(reg, u \o f, RestoreList) = r /\ Drop(u \o f, Len(RestoreList)) = u
        BY <3>2, <4>2, PopList
      <4> QED BY <4>1, <4>3, Zenon
    <3> QED BY <2>2, <3>1, <3>3, <3>4
  <2>4. reg' = k.reg /\ stack' \in [Thread -> Words] /\ stack'[current] = k.stack
        /\ \A p \in Thread \ {current} : stack'[p] = stack[p]
    BY <1>2, <1>6, <2>3
  <2>5. InOwn(current, k) \/ Returns(current, k)
    BY <1>7 DEF Trapped
  <2>6. Shape(current, kept'[current], stack'[current], reg')
    BY <1>1, <1>3, <2>4, <2>5 DEF Shape, Leftover
  <2>7. reg'["eip"][2] \in {"program", "expire_ret"}
    BY <2>4, <2>5, EipKinds
  <2>8. ~ (At("irq_ret")' \/ At("isr_ret")')
    BY <2>7 DEF At, Code
  <2>9. FrameReadable'
    BY <2>7, NoHandler
  <2> QED BY <1>2, <1>3, <2>4, <2>6, <2>8, <2>9, ThreadStep
<1>8. CASE Trapped(current, k, reg) /\ InInner(k, stack[current], reg)
  <2>1. PICK v \in 32 .. 47, q \in Regs : PressFault(k, v, q, stack[current], reg)
    BY <1>2, <1>8, InnerIs
  <2>2. reg["eip"] # Code("page_fault")
    BY <1>3, CodeIs DEF At
  <2>3. InPress(q) /\ stack[current] = Nested(k, v, q) \o <<Code("regs")>>
    BY <2>1, <2>2, Zenon DEF PressFault
  <2>4. s = Nested(k, v, q)
    BY <1>5, <2>3, InnerHeights
  <2>5. /\ Popped(reg, s, RestoreList) = q /\ Drop(s, 17) = Entered(k, v, "irq_ret")
    BY ZenonT(60), <2>4, InnerHeights
  <2>6. "irq_ret" \in Labels /\ v \in 0 .. 47
    BY DEF Labels
  <2>7. Entered(k, v, "irq_ret") \in Words
    BY <2>6, TrapHeights
  <2>8. reg' = q /\ stack' \in [Thread -> Words] /\ stack'[current] = Entered(k, v, "irq_ret")
        /\ \A p \in Thread \ {current} : stack'[p] = stack[p]
    BY <1>2, <1>6, <2>5, <2>7
  <2>9. reg'["eip"] = Code("irq_handler") /\ reg'["eflags"] = Flags(0)
    BY <2>3, <2>8 DEF InPress
  <2>10. InTrap(k, stack'[current], reg')
    BY <2>6, <2>8, <2>9 DEF InTrap
  <2>11. Shape(current, kept'[current], stack'[current], reg')
    BY <1>1, <1>3, <1>8, <2>9, <2>10 DEF Shape, Trapped
  <2>12. FrameReadable'
    BY <1>3, <1>4, <2>9, NoHandler
  <2> QED BY <1>2, <1>3, <1>4, <2>8, <2>11, <2>12, ThreadStep
<1> QED BY <1>2, <1>3, <1>7, <1>8, InHandlers DEF At

\* What fault_handler() and select_next_process() do for ever.
LEMMA StutterKeeps == ASSUME Inv, UNCHANGED vars PROVE Inv'
<1>1. Field("int_no")' = Field("int_no") /\ \A x \in Reg : Field(x)' = Field(x)
  BY DEF Field, vars
<1>2. FrameReadable'
  BY <1>1 DEF Inv, FrameReadable, At, vars
<1> QED BY <1>2 DEF Inv, Typed, StackBounded, StacksIntact, At, vars

-----------------------------------------------------------------------------
(* Steps of a thread's own code *)

\* A step after which the thread's own code has left r and s.
LEMMA OwnStepKeeps ==
  ASSUME Inv, NEW r \in Regs, NEW s \in Words, OwnStep(r, s), ready' = ready,
         Leftover(current, [reg |-> r, stack |-> s])
  PROVE  Inv'
<1>1. PICK k \in Saved : k = [reg |-> r, stack |-> s]
  BY DEF Saved
<1>2. /\ current' = current /\ esp' = esp /\ trap' = trap /\ reg' = r
      /\ stack' = [stack EXCEPT ![current] = s] /\ kept' = [kept EXCEPT ![current] = k]
  BY <1>1, Zenon DEF OwnStep, Leaves
<1>3. current \in Thread /\ stack \in [Thread -> Words] /\ kept \in [Thread -> Saved]
      /\ trap \in Traps
  BY DEF Inv, Typed
<1>4. /\ stack' \in [Thread -> Words] /\ kept' \in [Thread -> Saved]
      /\ stack'[current] = s /\ kept'[current] = k
      /\ \A p \in Thread \ {current} : stack'[p] = stack[p] /\ kept'[p] = kept[p]
  BY <1>2, <1>3
<1>5. k.reg = r /\ k.stack = s /\ Leftover(current, k)
  BY <1>1
<1>6. Shape(current, kept'[current], stack'[current], reg')
  BY <1>2, <1>4, <1>5 DEF Shape
<1>7. reg'["eip"][2] \in {"program", "expire_ret", "schedule"}
  BY <1>2, <1>5, EipKinds DEF Leftover
<1>8. ~ (At("irq_ret")' \/ At("isr_ret")')
  BY <1>7 DEF At, Code
<1>9. FrameReadable'
  BY <1>7, NoHandler
<1> QED BY <1>2, <1>3, <1>4, <1>6, <1>8, <1>9, ThreadStep

\* In a program the thread has what its own code left.
LEMMA ProgramState ==
  ASSUME Inv, InProgram
  PROVE  /\ InOwn(current, kept[current]) /\ kept[current] \in Saved
         /\ reg = kept[current].reg /\ stack[current] = kept[current].stack
         /\ current \in Thread /\ reg \in Regs /\ stack[current] \in Words
         /\ reg["eip"][2] = "program" /\ reg["eflags"] = Flags(1)
<1>1. PICK k \in Saved : k = kept[current]
  BY DEF Inv, Typed
<1>2. Shape(current, k, stack[current], reg) /\ reg["eip"][2] = "program"
  BY <1>1 DEF Inv, StacksIntact, InProgram
<1>3. InOwn(current, k) /\ stack[current] = k.stack /\ reg = k.reg
  BY <1>2, OutsideTraps
<1> QED BY <1>1, <1>2, <1>3 DEF Inv, Typed, InOwn

\* A program computes.
LEMMA ComputeKeeps == ASSUME Inv, NEW n \in Points, Compute(n) PROVE Inv'
<1>1. InProgram
  BY DEF Compute
<1>2. /\ InOwn(current, kept[current]) /\ stack[current] = kept[current].stack
      /\ current \in Thread /\ reg \in Regs /\ stack[current] \in Words
      /\ reg["eflags"] = Flags(1)
  BY <1>1, ProgramState
<1>3. PICK r : r = [x \in Reg |-> IF x = "eip" THEN Own(current, "program", n)
                                  ELSE IF x \in GpRegs THEN Own(current, x, n) ELSE reg[x]]
  OBVIOUS
<1>4. n \in Nat
  BY FramesAssumption
<1>5. r \in Regs
  BY <1>2, <1>3, <1>4, WordsTyped DEF Regs
<1>6. r["eip"][2] = "program" /\ r["eflags"] = Flags(1)
  <2>1. "eip" \in Reg /\ "eflags" \in Reg /\ "eflags" \notin GpRegs
    BY RegIs DEF RegNames, GpRegs, Gp
  <2> QED BY <1>2, <1>3, <2>1 DEF Own
<1>7. OwnStep(r, stack[current]) /\ ready' = ready
  BY <1>3, Zenon DEF Compute
<1>8. PICK s \in Words : s = stack[current]
  BY <1>2
<1>9. InOwn(current, [reg |-> r, stack |-> s])
  BY <1>2, <1>6, <1>8 DEF InOwn
<1> QED BY <1>5, <1>7, <1>8, <1>9, OwnStepKeeps DEF Leftover

\* process_end() touches no stack.
LEMMA EndKeeps == ASSUME Inv, End PROVE Inv'
<1>1. InProgram /\ ready' = ready \ {current}
      /\ current' = current /\ reg' = reg /\ stack' = stack /\ esp' = esp /\ trap' = trap
      /\ kept' = kept
  BY DEF End
<1>2. reg'["eip"][2] = "program"
  BY <1>1 DEF InProgram
<1>3. FrameReadable'
  BY <1>2, NoHandler
<1>4. ~ (At("irq_ret")' \/ At("isr_ret")')
  BY <1>2 DEF At, Code
<1>5. Shape(current, kept'[current], stack'[current], reg')
  BY <1>1 DEF Inv, StacksIntact
<1>6. /\ ready' \subseteq ready /\ reg' \in Regs /\ stack' \in [Thread -> Words]
      /\ kept' \in [Thread -> Saved] /\ trap' \in Traps
  BY <1>1 DEF Inv, Typed
<1> QED BY <1>1, <1>3, <1>4, <1>5, <1>6, ThreadStep

\* process_expire() calls schedule() with interrupts disabled.
LEMMA ExpireKeeps == ASSUME Inv, Expire PROVE Inv'
<1>1. InProgram /\ current # None
  BY DEF Expire
<1>2. /\ InOwn(current, kept[current]) /\ stack[current] = kept[current].stack
      /\ current \in Thread /\ reg \in Regs /\ stack[current] \in Words
      /\ reg["eip"][2] = "program"
  BY <1>1, ProgramState
<1>3. {"eip", "eflags"} \subseteq Reg
  BY RegIs DEF RegNames
<1>4. PICK u \in Words, x \in Word, y \in Word :
        u = stack[current] /\ Len(u) = 1 /\ x = reg["eip"] /\ y = Code("expired")
  BY <1>1, <1>2, <1>3, WordsTyped DEF InOwn, Regs, Labels
<1>5. PICK s : s = u \o <<x, y>>
  OBVIOUS
<1>6. s \in Words /\ Len(s) = 3 /\ s[3] = y /\ s[2] = x
  <2>1. /\ u \o <<x, y>> \in Words /\ Len(u \o <<x, y>>) = Len(u) + 2
        /\ (u \o <<x, y>>)[Len(u \o <<x, y>>)] = y
        /\ Drop(u \o <<x, y>>, 1) = u \o <<x>>
    BY TopOfTwo, Zenon
  <2>2. Len(u \o <<x>>) = Len(u) + 1 /\ (u \o <<x>>)[Len(u \o <<x>>)] = x
    BY TopOfOne, Zenon
  <2>3. PICK w : w = u \o <<x>>
    OBVIOUS
  <2>4. /\ s \in Words /\ Len(s) = Len(u) + 2 /\ s[Len(s)] = y /\ Drop(s, 1) = w
        /\ Len(w) = Len(u) + 1 /\ w[Len(w)] = x
    BY <1>5, <2>1, <2>2, <2>3, Zenon
  <2>5. Len(s) = 3 /\ Len(w) = 2
    BY <1>4, <2>4
  <2>6. s[3] = y /\ w[2] = x
    BY <2>4, <2>5
  <2>7. Drop(s, 1)[2] = s[2]
    BY <2>4, <2>5 DEF Drop, Words
  <2> QED BY <2>4, <2>5, <2>6, <2>7
<1>7. PICK r : r = [IF0(reg) EXCEPT !["eip"] = Code("schedule")]
  OBVIOUS
<1>8. r \in Regs /\ r["eip"] = Code("schedule") /\ r["eflags"] = Flags(0)
  <2>1. Code("schedule") \in Word /\ Flags(0) \in Word
    BY WordsTyped DEF Labels
  <2> QED BY <1>2, <1>3, <1>7, <2>1 DEF IF0, Regs
<1>9. OwnStep(r, s) /\ ready' = ready
  <2>1. s = stack[current] \o <<reg["eip"], Code("expired")>>
    BY <1>4, <1>5
  <2> QED BY <1>7, <2>1, Zenon DEF Expire
<1>10. Expires(current, [reg |-> r, stack |-> s])
  BY <1>1, <1>2, <1>4, <1>6, <1>8 DEF Expires
<1> QED BY <1>6, <1>8, <1>9, <1>10, OwnStepKeeps DEF Leftover

\* enable_ints() at its end ...
LEMMA EnableIntsKeeps == ASSUME Inv, EnableInts PROVE Inv'
<1>1. PICK k \in Saved : k = kept[current]
  BY DEF Inv, Typed
<1>2. /\ Shape(current, k, stack[current], reg) /\ reg["eip"] = Code("expired")
      /\ reg \in Regs /\ stack[current] \in Words /\ k.reg \in Regs /\ k.stack \in Words
      /\ current \in Thread
  BY <1>1 DEF Inv, StacksIntact, Typed, EnableInts, At, Saved
<1>3. /\ Expires(current, k) /\ stack[current] = Drop(k.stack, 1)
      /\ reg = [k.reg EXCEPT !["eip"] = Code("expired"), !["eax"] = Scratch,
                             !["ecx"] = Scratch, !["edx"] = Scratch]
  BY <1>2, InSchedule
<1>4. PICK r : r = [reg EXCEPT !["eip"] = Code("expire_ret"), !["eflags"] = Flags(1)]
  OBVIOUS
<1>5. {"eip", "eflags", "eax", "ecx", "edx"} \subseteq Reg
  BY RegIs DEF RegNames
<1>6. r \in Regs /\ r["eip"] = Code("expire_ret") /\ r["eflags"] = Flags(1)
  <2>1. Code("expire_ret") \in Word /\ Flags(1) \in Word
    BY WordsTyped DEF Labels
  <2> QED BY <1>2, <1>4, <1>5, <2>1 DEF Regs
<1>7. r = [k.reg EXCEPT !["eip"] = Code("expire_ret"), !["eflags"] = Flags(1),
                        !["eax"] = Scratch, !["ecx"] = Scratch, !["edx"] = Scratch]
  BY <1>2, <1>3, <1>4, <1>5 DEF Regs
<1>8. /\ reg' = r /\ kept' = [kept EXCEPT ![current] = [reg |-> r, stack |-> stack[current]]]
      /\ current' = current /\ ready' = ready /\ stack' = stack /\ esp' = esp /\ trap' = trap
  BY <1>1, <1>3, <1>4, <1>7, Zenon DEF EnableInts, Leaves
<1>9. OwnStep(r, stack[current]) /\ ready' = ready
  <2>1. stack' = [stack EXCEPT ![current] = stack[current]]
    BY <1>8 DEF Inv, Typed
  <2> QED BY <1>8, <2>1, Zenon DEF OwnStep, Leaves
<1>10. PICK u \in Words : u = k.stack /\ Len(u) = 3 /\ u[2][2] = "program"
  BY <1>2, <1>3 DEF Expires
<1>11. PICK s \in Words : s = stack[current]
  BY <1>2
<1>12. Len(s) = 2 /\ s[2][2] = "program"
  BY SMTT(30), <1>3, <1>10, <1>11 DEF Drop, Words
<1>13. Returns(current, [reg |-> r, stack |-> s])
  BY <1>3, <1>6, <1>12 DEF Returns, Expires
<1> QED BY <1>6, <1>9, <1>11, <1>13, OwnStepKeeps DEF Leftover

\* ... and its return.
LEMMA ExpireReturnsKeeps == ASSUME Inv, ExpireReturns PROVE Inv'
<1>1. PICK k \in Saved : k = kept[current]
  BY DEF Inv, Typed
<1>2. /\ Shape(current, k, stack[current], reg) /\ reg["eip"] = Code("expire_ret")
      /\ reg \in Regs /\ stack[current] \in Words /\ current \in Thread
  BY <1>1 DEF Inv, StacksIntact, Typed, ExpireReturns, At
<1>3. Returns(current, k) /\ stack[current] = k.stack /\ reg = k.reg
  BY <1>2, OutsideTraps DEF Code
<1>4. PICK u \in Words : u = stack[current] /\ Len(u) = 2 /\ u[2][2] = "program"
  BY <1>2, <1>3 DEF Returns
<1>5. PICK s : s = Drop(u, 1)
  OBVIOUS
<1>6. s \in Words /\ Len(s) = 1
  BY <1>4, <1>5 DEF Drop, Words
<1>7. PICK r : r = [reg EXCEPT !["eip"] = u[2]]
  OBVIOUS
<1>8. r \in Regs /\ r["eip"][2] = "program" /\ r["eflags"] = Flags(1)
  <2>1. u[2] \in Word /\ "eip" \in Reg /\ "eflags" \in Reg
    BY <1>4, RegIs DEF Words, RegNames
  <2> QED BY <1>2, <1>3, <1>4, <1>7, <2>1 DEF Regs, Returns
<1>9. OwnStep(r, s) /\ ready' = ready
  BY <1>4, <1>5, <1>7 DEF ExpireReturns
<1>10. InOwn(current, [reg |-> r, stack |-> s])
  BY <1>3, <1>6, <1>8 DEF InOwn, Returns
<1> QED BY <1>6, <1>8, <1>9, <1>10, OwnStepKeeps DEF Leftover

-----------------------------------------------------------------------------
(* The context switch *)

\* The stack u holds above s a frame of switchTo() with the registers r.
SwitchedOut(u, s, r, e) == u = s \o SwFrame(r, e)

\* The frame setup_kernel_process() builds is one switchTo() could have left.
LEMMA NewFrameIs ==
  ASSUME NEW p \in Proc
  PROVE  /\ Fresh(p) \in Saved /\ Fresh(p).reg \in Regs /\ <<Block(p)>> \in Words
         /\ Len(<<Block(p)>>) = 1 /\ NewFrame(p) \in Words
         /\ SwitchedOut(NewFrame(p), <<Block(p)>>, Fresh(p).reg, Lit(0))
<1>1. p \in Thread
  BY DEF Thread
<1>2. /\ Block(p) \in Word /\ Lit(0) \in Word /\ Lit(8) \in Word /\ Lit(16) \in Word
      /\ Flags(1) \in Word /\ Own(p, "program", 0) \in Word
  BY <1>1, WordsTyped
<1>3. PICK r : r = Fresh(p).reg
  OBVIOUS
<1>4. r = [x \in Reg |->
              CASE x = "eip" -> Own(p, "program", 0) [] x = "eflags" -> Flags(1)
                [] x = "cs" -> Lit(16)
                [] x \in {"ds", "es", "fs", "gs", "esi", "edi"} -> Lit(8)
                [] OTHER -> Lit(0)]
  BY <1>3 DEF Fresh
<1>5. r \in Regs
  <2>1. ASSUME NEW x \in Reg PROVE r[x] \in Word
    <3>1. CASE x \in {"eip", "eflags", "cs", "ds", "es", "fs", "gs", "esi", "edi"}
      BY <1>2, <1>4, <3>1
    <3>2. CASE x \notin {"eip", "eflags", "cs", "ds", "es", "fs", "gs", "esi", "edi"}
      BY <1>2, <1>4, <3>2
    <3> QED BY <3>1, <3>2
  <2> QED BY <1>4, <2>1 DEF Regs
<1>6. /\ r["eip"] = Own(p, "program", 0) /\ r["eflags"] = Flags(1) /\ r["cs"] = Lit(16)
      /\ r["ds"] = Lit(8) /\ r["es"] = Lit(8) /\ r["fs"] = Lit(8) /\ r["gs"] = Lit(8)
      /\ r["esi"] = Lit(8) /\ r["edi"] = Lit(8)
      /\ r["eax"] = Lit(0) /\ r["ecx"] = Lit(0) /\ r["edx"] = Lit(0) /\ r["ebx"] = Lit(0)
      /\ r["ebp"] = Lit(0)
  BY <1>4, RegIs DEF RegNames
<1>7. PICK t : t = SwFrame(r, Lit(0))
  OBVIOUS
<1>8. t = <<Flags(1), Lit(16), Own(p, "program", 0), Lit(8), Lit(8), Lit(8), Lit(8),
            Lit(0), Lit(0), Lit(0), Lit(0), Lit(0), Lit(0), Lit(8), Lit(8)>>
  BY <1>6, <1>7 DEF SwFrame
<1> DEFINE s == <<Block(p)>>
           u == NewFrame(p)
<1>9. /\ s \in Words /\ t \in Words /\ u \in Words
      /\ Len(s) = 1 /\ Len(t) = 15 /\ Len(u) = 16
  BY <1>2, <1>8 DEF NewFrame, Words
<1>10. /\ Len(u) = Len(s) + Len(t)
       /\ \A i \in 1 .. Len(s) : u[i] = s[i]
       /\ \A i \in 1 .. Len(t) : u[Len(s) + i] = t[i]
  BY <1>8, <1>9 DEF NewFrame
<1>11. Fresh(p) \in Saved
  <2>1. Fresh(p) = [reg |-> r, stack |-> s]
    BY <1>4, Zenon DEF Fresh
  <2>2. PICK w \in Words : w = s
    BY <1>9
  <2> QED BY <1>5, <2>1, <2>2 DEF Saved
<1> HIDE DEF s, u
<1>12. s \o t = u
  BY <1>9, <1>10, Concat DEF Words
<1>13. s \in Words /\ Len(s) = 1 /\ u \in Words
  BY <1>9
<1> QED BY <1>3, <1>5, <1>7, <1>11, <1>12, <1>13, Zenon DEF s, u, SwitchedOut

\* The frame of switchTo() gives back the stack and the registers it was pushed on.
LEMMA FrameOfSwitch ==
  ASSUME NEW s \in Words, NEW r \in Regs, NEW e \in Word, NEW u, SwitchedOut(u, s, r, e)
  PROVE  /\ u \in Words /\ Len(u) = Len(s) + 15 /\ Len(s) \in Nat
         /\ Drop(u, 15) = s /\ u[Len(u) - 3] = e
         /\ \A i \in 1 .. Len(s) : u[i] = s[i]
         /\ \A any : Popped(any, u, SwitchList) = r
<1>1. PICK f : f = SwFrame(r, e)
  OBVIOUS
<1>2. f \in Words /\ Len(f) = 15 /\ f[12] = e
  <2>1. 0 \in Nat
    OBVIOUS
  <2>2. SwFrame(r, e) \in Words
    BY <2>1, FramesTyped
  <2> QED BY <1>1, <2>2, SwitchLists DEF SwFrame
<1>3. /\ s \o f \in Words /\ Len(s \o f) = Len(s) + Len(f) /\ Len(s) \in Nat
      /\ \A i \in 1 .. Len(s) : (s \o f)[i] = s[i]
      /\ \A i \in 1 .. Len(f) : (s \o f)[Len(s) + i] = f[i]
      /\ Drop(s \o f, Len(f)) = s
  BY <1>2, Above, Zenon
<1>4. u = s \o f
  BY <1>1 DEF SwitchedOut
<1>5. /\ u \in Words /\ Len(u) = Len(s) + 15 /\ Len(s) \in Nat /\ Drop(u, 15) = s
      /\ \A i \in 1 .. Len(s) : u[i] = s[i]
      /\ \A i \in 1 .. 15 : u[Len(s) + i] = f[i]
  BY <1>2, <1>3, <1>4
<1>6. u[Len(u) - 3] = e
  <2>1. Len(u) - 3 = Len(s) + 12 /\ 12 \in 1 .. 15
    BY <1>5
  <2> QED BY <1>2, <1>5, <2>1
<1>7. \A any : Popped(any, u, SwitchList) = r
  <2>1. Lists(SwitchList, f, r)
    BY <1>1, SwitchLists
  <2> QED BY <1>2, <1>4, <2>1, PopList
<1> QED BY <1>5, <1>6, <1>7

\* A thread that has such a frame, and below it what its own code left or a switch.
LEMMA IsWaiting ==
  ASSUME NEW t, NEW k, NEW s \in Words, NEW r \in Regs, NEW e \in Word,
         NEW u, SwitchedOut(u, s, r, e), Shape(t, k, s, r),
         (r["eip"] = Code("switched") /\ r["eflags"] = Flags(0)) \/ r = Fresh(t).reg
  PROVE  Waiting(t, k, u, Len(u))
<1>1. /\ Len(u) = Len(s) + 15 /\ Len(s) \in Nat /\ Drop(u, 15) = s /\ u[Len(u) - 3] = e
      /\ Popped(k.reg, u, SwitchList) = r
  BY FrameOfSwitch
<1>2. Len(u) >= 15
  BY <1>1
<1>3. u = Drop(u, 15) \o SwFrame(r, u[Len(u) - 3])
  BY <1>1, Zenon DEF SwitchedOut
<1> QED BY <1>1, <1>2, <1>3, Zenon DEF Waiting

\* A new process waits with the frame that setup_kernel_process() builds.
LEMMA CreateKeeps == ASSUME Inv, NEW p \in Proc, Create(p) PROVE Inv'
<1>1. /\ InProgram /\ p \notin ready \cup {current}
      /\ stack' = [stack EXCEPT ![p] = NewFrame(p)]
      /\ esp' = [esp EXCEPT ![p] = Len(NewFrame(p))]
      /\ ready' = ready \cup {p} /\ kept' = [kept EXCEPT ![p] = Fresh(p)]
      /\ current' = current /\ reg' = reg /\ trap' = trap
  BY DEF Create
<1>2. /\ Typed /\ StackBounded /\ StacksIntact
      /\ current \in Thread /\ ready \subseteq Proc /\ stack \in [Thread -> Words]
      /\ esp \in [Thread -> Nat] /\ kept \in [Thread -> Saved] /\ p \in Thread
      /\ Proc \subseteq Thread
  BY DEF Inv, Typed, Thread
<1>3. PICK r \in Regs, u \in Words, s \in Words, e \in Word :
        /\ u = NewFrame(p) /\ r = Fresh(p).reg /\ s = <<Block(p)>> /\ e = Lit(0) /\ Len(s) = 1
        /\ SwitchedOut(u, s, r, e) /\ Fresh(p) \in Saved
  <2>1. Lit(0) \in Word
    BY WordsTyped
  <2> QED BY <2>1, NewFrameIs, Zenon
<1>4. SwitchedOut(u, s, r, e)
  BY <1>3
<1>5. u \in Words /\ Len(u) = 16
  <2>1. Len(u) = Len(s) + 15
    BY <1>4, FrameOfSwitch
  <2> QED BY <1>3, <2>1
<1>6. /\ stack' = [stack EXCEPT ![p] = u] /\ esp' = [esp EXCEPT ![p] = Len(u)]
  BY <1>1, <1>3
<1>7. Typed'
  <2>1. stack' \in [Thread -> Words] /\ esp' \in [Thread -> Nat] /\ kept' \in [Thread -> Saved]
    BY <1>1, <1>2, <1>3, <1>5, <1>6
  <2> QED BY <1>1, <1>2, <2>1 DEF Typed
<1>8. StackBounded'
  <2>1. \A q \in Thread : Len(stack[q]) <= 40
    BY <1>2 DEF StackBounded
  <2>2. Len(u) <= 40
    BY <1>5
  <2>3. \A q \in Thread : stack'[q] = u \/ stack'[q] = stack[q]
    BY <1>2, <1>6
  <2>4. \A q \in Thread : Len(stack'[q]) <= 40
    BY <2>1, <2>2, <2>3, Zenon
  <2> QED BY <2>4 DEF StackBounded
<1>9. reg'["eip"][2] = "program"
  BY <1>1 DEF InProgram
<1>10. FrameReadable'
  BY <1>9, NoHandler
<1>11. ~ (At("irq_ret")' \/ At("isr_ret")')
  BY <1>9 DEF At, Code
<1>12. Shape(current', kept'[current'], stack'[current'], reg')
  <2>1. current # p /\ Shape(current, kept[current], stack[current], reg)
    BY <1>1, <1>2 DEF StacksIntact
  <2> QED BY <1>1, <1>2, <1>6, <2>1
<1>13. ASSUME NEW q \in ready' \ {current'} PROVE Waiting(q, kept'[q], stack'[q], esp'[q])
  <2>1. CASE q = p
    <3>1. kept'[p] = Fresh(p) /\ stack'[p] = u /\ esp'[p] = Len(u)
      BY <1>1, <1>2, <1>6
    <3>2. Shape(p, Fresh(p), s, r)
      <4>1. Fresh(p).stack = s /\ Fresh(p).reg = r /\ r["eip"] = Own(p, "program", 0)
            /\ r["eflags"] = Flags(1)
        <5>1. "eip" \in Reg /\ "eflags" \in Reg
          BY RegIs DEF RegNames
        <5> QED BY <1>3, <5>1 DEF Fresh
      <4>2. p # None
        BY FramesAssumption
      <4>3. PICK k : k = Fresh(p)
        OBVIOUS
      <4>4. InOwn(p, k)
        BY <1>3, <4>1, <4>2, <4>3 DEF InOwn, Own
      <4>5. Shape(p, k, s, r)
        BY <4>1, <4>3, <4>4 DEF Shape, Leftover
      <4> QED BY <4>3, <4>5
    <3>3. Waiting(p, Fresh(p), u, Len(u))
      <4>1. r = Fresh(p).reg
        BY <1>3
      <4>2. PICK t, k : t = p /\ k = Fresh(p)
        OBVIOUS
      <4>3. Shape(t, k, s, r) /\ r = Fresh(t).reg
        BY <3>2, <4>1, <4>2
      <4>4. Waiting(t, k, u, Len(u))
        BY <1>4, <4>3, IsWaiting
      <4> QED BY <4>2, <4>4
    <3> QED BY <2>1, <3>1, <3>3
  <2>2. CASE q # p
    <3>1. q \in ready \ {current}
      BY <1>1, <2>2
    <3>2. Waiting(q, kept[q], stack[q], esp[q])
      BY <1>2, <3>1 DEF StacksIntact
    <3>3. kept'[q] = kept[q] /\ stack'[q] = stack[q] /\ esp'[q] = esp[q]
      BY <1>1, <1>2, <1>6, <2>2, <3>1
    <3> QED BY <3>2, <3>3
  <2> QED BY <2>1, <2>2
<1> QED BY <1>7, <1>8, <1>10, <1>11, <1>12, <1>13 DEF Inv, StacksIntact

\* switchTo(n) called with r in the registers and s on the stack of thread t: the
\* argument makes b of s, and the frame with the registers q makes u of b.
Saves(t, k, s, r, n, b, q, u) ==
  /\ Shape(t, k, s, r) /\ r["eip"] = Code("schedule")
  /\ b \in Words /\ OneMore(b, s) /\ b[Len(b)] = Block(n)
  /\ q = [r EXCEPT !["eip"] = Code("switched")]
  /\ SwitchedOut(u, b, q, Code("esp"))

\* It leaves a whole frame, under which the thread is inside schedule().
LEMMA Pushes ==
  ASSUME NEW t, NEW k \in Saved, NEW s \in Words, NEW r \in Regs, NEW n, NEW b, NEW q, NEW u,
         Saves(t, k, s, r, n, b, q, u)
  PROVE  /\ q \in Regs /\ q["eip"] = Code("switched") /\ q["eflags"] = Flags(0)
         /\ u \in Words /\ Len(u) <= 40 /\ SubSeq(u, 1, Len(u)) = u /\ Len(u) \in Nat
         /\ u[Len(u) - 15][1] = n
         /\ Drop(u, 15) = b /\ b \in Words
         /\ \A any : Popped(any, u, SwitchList) = q
         /\ Shape(t, k, b, q)
         /\ Waiting(t, k, u, Len(u))
<1>1. Code("switched") \in Word /\ Code("esp") \in Word /\ {"eip", "eflags"} \subseteq Reg
  BY WordsTyped, RegIs DEF Labels, RegNames
<1>2. /\ Shape(t, k, s, r) /\ r["eip"] = Code("schedule") /\ b \in Words /\ OneMore(b, s)
      /\ b[Len(b)] = Block(n) /\ SwitchedOut(u, b, q, Code("esp"))
  BY DEF Saves
<1>3. q \in Regs /\ q["eip"] = Code("switched") /\ q["eflags"] = r["eflags"]
  BY <1>1 DEF Saves, Regs
<1>4. PICK e \in Word : SwitchedOut(u, b, q, e)
  BY <1>1, <1>2
<1>5. /\ u \in Words /\ Len(u) = Len(b) + 15 /\ Len(b) \in Nat /\ Drop(u, 15) = b
      /\ \A i \in 1 .. Len(b) : u[i] = b[i]
      /\ \A any : Popped(any, u, SwitchList) = q
  <2>1. b \in Words /\ q \in Regs
    BY <1>2, <1>3
  <2> QED BY <1>4, <2>1, FrameOfSwitch
<1>6. Len(s) \in Nat /\ Len(s) <= 22
  <2>1. Len(s) <= 22
    BY <1>2, ShapeBound
  <2> QED BY <2>1 DEF Words
<1>7. Len(b) = Len(s) + 1
  BY <1>2 DEF OneMore
<1>8. PICK m \in Nat : m <= 22 /\ Len(b) = m + 1 /\ Len(u) = m + 16
  BY <1>5, <1>6, <1>7
<1>9. Len(u) <= 40 /\ SubSeq(u, 1, Len(u)) = u
  BY <1>5, <1>8 DEF Words
<1>10. u[Len(u) - 15][1] = n
  <2>1. m + 1 \in 1 .. Len(b) /\ Len(u) - 15 = m + 1 /\ b[m + 1] = Block(n)
    BY <1>2, <1>8
  <2>2. u[Len(u) - 15] = Block(n)
    BY <1>5, <2>1
  <2> QED BY <2>2 DEF Block
<1>11. \/ Expires(t, k) /\ s = k.stack /\ r = k.reg
       \/ Trapped(t, k, r) /\ \E v \in 32 .. 47 : s = Ticking(k, v)
  <2>1. PICK w : w = s
    OBVIOUS
  <2>2. Shape(t, k, w, r) /\ r["eip"] = Code("schedule")
    BY <1>2, <2>1
  <2>3. \/ Expires(t, k) /\ w = k.stack /\ r = k.reg
        \/ Trapped(t, k, r) /\ \E v \in 32 .. 47 : w = Ticking(k, v)
    BY <2>2, InSchedule
  <2> QED BY <2>1, <2>3
<1>12. Shape(t, k, b, q) /\ q["eflags"] = Flags(0)
  <2>1. CASE Expires(t, k) /\ s = k.stack /\ r = k.reg
    <3>1. InExpire(k, b, q)
      BY <1>2, <2>1 DEF InExpire, Saves
    <3> QED BY <1>3, <2>1, <3>1 DEF Shape, Expires
  <2>2. CASE Trapped(t, k, r) /\ \E v \in 32 .. 47 : s = Ticking(k, v)
    <3>1. InTrap(k, b, q)
      <4>1. PICK v \in 32 .. 47 : OneMore(b, Ticking(k, v))
        BY <1>2, <2>2
      <4> QED BY <1>3, <4>1 DEF InTrap
    <3> QED BY <1>3, <2>2, <3>1 DEF Shape, Trapped
  <2> QED BY <1>11, <2>1, <2>2
<1>13. Waiting(t, k, u, Len(u))
  BY <1>2, <1>3, <1>4, <1>12, IsWaiting
<1> QED BY <1>2, <1>3, <1>5, <1>8, <1>9, <1>10, <1>12, <1>13

\* The registers and the stack that a waiting thread comes back with.
LEMMA WaitingFrame ==
  ASSUME NEW t, NEW g \in Saved, NEW z \in Words, NEW n, Waiting(t, g, z, n), NEW r,
         r = Popped(g.reg, z, SwitchList)
  PROVE  /\ \A any : Popped(any, z, SwitchList) = r
         /\ r \in Regs /\ Drop(z, 15) \in Words
<1>1. PICK d : d = Drop(z, 15)
  OBVIOUS
<1>2. PICK e : e = z[Len(z) - 3]
  OBVIOUS
<1>3. Len(z) >= 15
  BY DEF Waiting
<1>4. SwitchedOut(z, d, r, e)
  BY <1>1, <1>2, Zenon DEF SwitchedOut, Waiting
<1>5. d \in Words
  BY <1>1, <1>3 DEF Drop, Words
<1>6. r \in Regs
  <2>1. Len(SwitchList) \in Nat /\ Len(SwitchList) <= Len(z)
    BY <1>3, SwitchListIs DEF Words
  <2>2. g.reg \in Regs
    BY DEF Saved
  <2> QED BY <2>1, <2>2, PoppedTyped
<1>7. e \in Word
  <2>1. PICK m \in Nat : m = Len(z) /\ m >= 15
    BY <1>3 DEF Words
  <2>2. m - 3 \in 1 .. m
    BY <2>1
  <2> QED BY <1>2, <2>1, <2>2 DEF Words
<1>8. \A any : Popped(any, z, SwitchList) = r
  BY <1>4, <1>5, <1>6, <1>7, FrameOfSwitch
<1> QED BY <1>1, <1>5, <1>6, <1>8, Zenon

\* switchTo() saves the thread that ran and goes on with what the selected one saved.
LEMMA SwitchKeeps == ASSUME Inv, Switch PROVE Inv'
<1>1. PICK n \in ready : SwitchTo(n)
  BY DEF Switch
<1>2. PICK k \in Saved, s \in Words : k = kept[current] /\ s = stack[current]
  BY DEF Inv, Typed
<1>3. /\ current \in Thread /\ ready \subseteq Proc /\ stack \in [Thread -> Words] /\ reg \in Regs
      /\ esp \in [Thread -> Nat] /\ kept \in [Thread -> Saved] /\ trap \in Traps
      /\ n \in Proc /\ n \in Thread /\ n # None
  BY FramesAssumption DEF Inv, Typed, Thread
<1>4. Shape(current, k, s, reg) /\ reg["eip"] = Code("schedule")
  BY <1>2 DEF Inv, StacksIntact, Switch, At
<1>5. PICK q : q = [reg EXCEPT !["eip"] = Code("switched")]
  OBVIOUS
<1>6. PICK u : u = stack[current] \o <<Block(n)>> \o Pushed(q, PushList)
  OBVIOUS
<1>7. LET to  == u[Len(u) - 15][1]
          mem == [stack EXCEPT ![current] = u]
          top == [esp EXCEPT ![current] = IF current # None THEN Len(u) ELSE @]
          w   == SubSeq(mem[to], 1, top[to])
      IN  /\ current' = to /\ esp' = top
          /\ reg' = Popped(reg, w, SwitchList)
          /\ stack' = [mem EXCEPT ![to] = Drop(w, Len(SwitchList))]
          /\ ready' = ready /\ trap' = trap /\ kept' = kept
  BY <1>1, <1>5, <1>6, Zenon DEF SwitchTo
<1>8. PICK b : b = s \o <<Block(n)>>
  OBVIOUS
<1>9. Saves(current, k, s, reg, n, b, q, u)
  <2>1. Block(n) \in Word /\ Code("switched") \in Word /\ "eip" \in Reg
    BY <1>3, WordsTyped, RegIs DEF Labels, RegNames
  <2>2. b \in Words /\ Len(b) = Len(s) + 1 /\ b[Len(b)] = Block(n) /\ Drop(b, 1) = s
    BY <1>8, <2>1, TopOfOne
  <2>3. q \in Regs
    BY <1>3, <1>5, <2>1 DEF Regs
  <2>4. Pushed(q, PushList) = SwFrame(q, Code("esp"))
    BY <2>3, SwitchWords
  <2>5. u = b \o SwFrame(q, Code("esp"))
    BY <1>2, <1>6, <1>8, <2>4
  <2> QED BY <1>4, <1>5, <2>2, <2>5, Zenon DEF Saves, OneMore, SwitchedOut
<1>10. /\ q \in Regs /\ q["eip"] = Code("switched") /\ q["eflags"] = Flags(0)
       /\ u \in Words /\ Len(u) <= 40 /\ SubSeq(u, 1, Len(u)) = u /\ Len(u) \in Nat
       /\ u[Len(u) - 15][1] = n
       /\ Drop(u, 15) = b /\ b \in Words
       /\ \A any : Popped(any, u, SwitchList) = q
       /\ Shape(current, k, b, q)
       /\ Waiting(current, k, u, Len(u))
  <2>1. reg \in Regs
    BY <1>3
  <2> QED BY <1>9, <2>1, Pushes
<1>11. Len(SwitchList) = 15
  BY SwitchListIs
<1> DEFINE mem == [stack EXCEPT ![current] = u]
           top == [esp EXCEPT ![current] = IF current # None THEN Len(u) ELSE @]
           w == SubSeq(mem[n], 1, top[n])
<1>12. /\ current' = n /\ esp' = top
       /\ reg' = Popped(reg, w, SwitchList)
       /\ stack' = [mem EXCEPT ![n] = Drop(w, 15)]
       /\ ready' = ready /\ trap' = trap /\ kept' = kept
  BY <1>7, <1>10, <1>11
<1>13. mem \in [Thread -> Words] /\ mem[current] = u /\ top \in [Thread -> Nat]
       /\ (current # None => top[current] = Len(u))
       /\ \A p \in Thread \ {current} : mem[p] = stack[p] /\ top[p] = esp[p]
  BY <1>3, <1>10
<1> HIDE DEF mem, top
<1>14. Waiting(n, kept[n], mem[n], top[n])
  <2>1. CASE n = current
    BY <1>2, <1>3, <1>10, <1>13, <2>1
  <2>2. CASE n # current
    <3>1. Waiting(n, kept[n], stack[n], esp[n])
      BY <1>3, <2>2 DEF Inv, StacksIntact
    <3> QED BY <1>3, <1>13, <2>2, <3>1
  <2> QED BY <2>1, <2>2
<1>15. PICK z : z = mem[n]
  OBVIOUS
<1>16. z \in Words /\ w = z
  <2>1. z \in Words /\ top[n] = Len(z)
    BY <1>3, <1>13, <1>14, <1>15 DEF Waiting
  <2> QED BY <1>15, <2>1 DEF Words
<1>17. PICK g \in Saved : g = kept[n]
  BY <1>3
<1>18. PICK r : r = Popped(g.reg, z, SwitchList)
  OBVIOUS
<1>19. /\ Len(z) >= 15 /\ z = Drop(z, 15) \o SwFrame(r, z[Len(z) - 3])
       /\ Shape(n, g, Drop(z, 15), r)
       /\ (r["eip"] = Code("switched") /\ r["eflags"] = Flags(0)) \/ r = Fresh(n).reg
  BY <1>14, <1>15, <1>17, <1>18 DEF Waiting
<1>20. Popped(reg, z, SwitchList) = r /\ r \in Regs /\ Drop(z, 15) \in Words
  <2>1. Waiting(n, g, z, top[n])
    BY <1>14, <1>15, <1>17
  <2> QED BY <1>16, <1>18, <2>1, WaitingFrame
<1>21. reg' = r /\ stack' = [mem EXCEPT ![n] = Drop(z, 15)] /\ kept'[n] = g
  BY <1>12, <1>16, <1>17, <1>20
<1>22. Typed'
  <2>1. stack' \in [Thread -> Words]
    BY <1>3, <1>13, <1>20, <1>21
  <2> QED BY <1>3, <1>12, <1>13, <1>20, <1>21, <2>1 DEF Typed
<1>23. StackBounded'
  <2>1. Len(Drop(z, 15)) <= 40
    <3>1. PICK d \in Words : d = Drop(z, 15)
      BY <1>20
    <3>2. Shape(n, g, d, r)
      BY <1>19, <3>1
    <3> QED BY <3>1, <3>2, ShapeBound
  <2>2. \A p \in Thread : stack'[p] = Drop(z, 15) \/ stack'[p] = u \/ stack'[p] = stack[p]
    BY <1>3, <1>13, <1>21
  <2>3. \A p \in Thread : Len(stack[p]) <= 40
    BY DEF Inv, StackBounded
  <2>4. \A p \in Thread : Len(stack'[p]) <= 40
    BY <1>10, <2>1, <2>2, <2>3, Zenon
  <2> QED BY <2>4 DEF StackBounded
<1>24. Shape(current', kept'[current'], stack'[current'], reg')
  <2>1. stack'[n] = Drop(z, 15)
    BY <1>3, <1>13, <1>21
  <2> QED BY <1>12, <1>19, <1>21, <2>1
<1>25. ASSUME NEW p \in ready' \ {current'} PROVE Waiting(p, kept'[p], stack'[p], esp'[p])
  <2>1. /\ p \in ready /\ p \in Thread /\ p # n /\ p # None
        /\ stack'[p] = mem[p] /\ esp'[p] = top[p] /\ kept'[p] = kept[p]
    <3>1. p \in ready /\ p # n
      BY <1>12
    <3>2. p \in Thread /\ p # None
      BY <1>3, <3>1, FramesAssumption DEF Thread
    <3>3. stack'[p] = mem[p]
      BY <1>13, <1>21, <3>1, <3>2
    <3> QED BY <1>12, <3>1, <3>2, <3>3
  <2>2. CASE p = current
    BY <1>2, <1>10, <1>13, <2>1, <2>2
  <2>3. CASE p # current
    <3>1. Waiting(p, kept[p], stack[p], esp[p])
      BY <2>1, <2>3 DEF Inv, StacksIntact
    <3> QED BY <1>13, <2>1, <2>3, <3>1
  <2> QED BY <2>2, <2>3
<1>26. reg'["eip"][2] \in {"switched", "program"}
  <2>1. "eip" \in Reg
    BY RegIs DEF RegNames
  <2>2. Fresh(n).reg["eip"] = Own(n, "program", 0)
    BY <2>1 DEF Fresh
  <2> QED BY <1>19, <1>21, <2>2 DEF Code, Own
<1>27. FrameReadable'
  BY <1>26, NoHandler
<1>28. ~ (At("irq_ret")' \/ At("isr_ret")')
  BY <1>26 DEF At, Code
<1> QED BY <1>22, <1>23, <1>24, <1>25, <1>27, <1>28 DEF Inv, StacksIntact

-----------------------------------------------------------------------------
(* The theorems *)

\* The boot thread alone, with interrupts enabled and nothing on its stack.
LEMMA InitInv == Init => Inv
<1> SUFFICES ASSUME Init PROVE Inv
  OBVIOUS
<1>1. /\ current = None /\ ready = {} /\ reg = Boot /\ trap = NoTrap
      /\ stack = [t \in Thread |-> <<>>] /\ esp = [t \in Thread |-> 0]
      /\ kept = [t \in Thread |-> [reg |-> Boot, stack |-> <<>>]]
  BY DEF Init
<1>2. PICK e \in Words : e = <<>> /\ Len(e) = 0
  <2>1. <<>> \in Words
    BY DEF Words
  <2>2. Len(<<>>) = 0
    OBVIOUS
  <2> QED BY <2>1, <2>2, Zenon
<1>3. PICK k \in Saved : k = [reg |-> Boot, stack |-> e]
  BY BootTyped DEF Saved
<1>4. None \in Thread /\ stack = [t \in Thread |-> e] /\ kept = [t \in Thread |-> k]
  BY <1>1, <1>2, <1>3 DEF Thread
<1>5. Boot["eip"] = Own(None, "program", 0) /\ Boot["eflags"] = Flags(1)
  BY RegIs DEF Boot, RegNames
<1>6. Typed
  BY <1>1, <1>4, BootTyped DEF Typed
<1>7. StackBounded
  BY <1>2, <1>4 DEF StackBounded
<1>8. InOwn(None, k)
  BY <1>2, <1>3, <1>5 DEF InOwn, Own
<1>9. Shape(None, k, e, Boot)
  BY <1>3, <1>8 DEF Shape, Leftover
<1>10. reg["eip"][2] = "program"
  BY <1>1, <1>5 DEF Own
<1>11. StacksIntact
  BY <1>1, <1>4, <1>9, <1>10 DEF StacksIntact, At, Code
<1>12. FrameReadable
  BY <1>10 DEF FrameReadable, At, Code
<1> QED BY <1>6, <1>7, <1>11, <1>12 DEF Inv

\* Every action keeps the inductive invariant.
LEMMA NextKeeps == Inv /\ [Next]_vars => Inv'
<1> SUFFICES ASSUME Inv, [Next]_vars PROVE Inv'
  OBVIOUS
<1>1. CASE UNCHANGED vars
  BY <1>1, StutterKeeps
<1>2. CASE FaultHalts \/ FindProc
  BY <1>2, StutterKeeps DEF FaultHalts, FindProc
<1>3. CASE (\E l \in Lines : Irq(l)) \/ PageFault \/ \E v \in Exceptions : Exception(v)
  BY <1>3, IrqKeeps, PageFaultKeeps, ExceptionKeeps
<1>4. CASE IrqHandler \/ IrqEoi \/ FaultMapped \/ TrapReturn
  BY <1>4, IrqHandlerKeeps, IrqEoiKeeps, FaultMappedKeeps, TrapReturnKeeps
<1>5. CASE StillTicks \/ Switch \/ Switched
  BY <1>5, StillTicksKeeps, SwitchKeeps, SwitchedKeeps
<1>6. CASE (\E n \in Points : Compute(n)) \/ End \/ \E p \in Proc : Create(p)
  BY <1>6, ComputeKeeps, EndKeeps, CreateKeeps
<1>7. CASE Expire \/ EnableInts \/ ExpireReturns
  BY <1>7, ExpireKeeps, EnableIntsKeeps, ExpireReturnsKeeps
<1> QED BY <1>1, <1>2, <1>3, <1>4, <1>5, <1>6, <1>7 DEF Next

\* The inductive invariant holds in every behaviour.
LEMMA Invariance == Spec => []Inv
BY InitInv, NextKeeps, PTL DEF Spec

\* Every variable keeps its type: registers and stacks hold words that the code
\* of a program or of the kernel put there.
THEOREM Typing == Spec => []TypeOK
<1>1. Inv => TypeOK
  <2> SUFFICES ASSUME Inv PROVE TypeOK
    OBVIOUS
  <2>1. \A w \in Word : IsWord(w)
    BY DEF Word, IsWord
  <2>2. ASSUME NEW t \in Thread PROVE \A i \in DOMAIN stack[t] : stack[t][i] \in Word
    BY DEF Inv, Typed, Words
  <2>3. \A x \in Reg : reg[x] \in Word
    BY DEF Inv, Typed, Regs
  <2>4. trap.vector \in 0 .. 47
    BY DEF Inv, Typed, Traps
  <2>5. DOMAIN reg = Reg /\ DOMAIN stack = Thread /\ DOMAIN kept = Thread
    BY DEF Inv, Typed, Regs
  <2> QED BY <2>1, <2>2, <2>3, <2>4, <2>5 DEF TypeOK, Inv, Typed
<1> QED BY <1>1, Invariance, PTL

\* From the words on its stack every thread finds back to what its own code
\* left: switchTo(), the stubs of isr.asm and irq.asm and the frame of
\* setup_kernel_process() agree on what lies where.
THEOREM StacksStayIntact == Spec => []StacksIntact
BY Invariance, PTL DEF Inv

\* Whenever interrupts are enabled, the registers and the stack are those the
\* running thread's own code left (isr.asm, irq.asm, switchto.asm).
THEOREM Undisturbed == Spec => []ThreadsUndisturbed
<1>1. Inv => ThreadsUndisturbed
  <2> SUFFICES ASSUME Inv, IntsOn
               PROVE  reg = kept[current].reg /\ stack[current] = kept[current].stack
    BY DEF ThreadsUndisturbed
  <2>1. PICK k \in Saved : k = kept[current]
    BY DEF Inv, Typed
  <2>2. Shape(current, k, stack[current], reg) /\ reg["eflags"] = Flags(1)
    BY <2>1 DEF Inv, StacksIntact, IntsOn
  <2> QED BY SMTT(30), <2>1, <2>2, OutsideTraps
<1> QED BY <1>1, Invariance, PTL

\* A handler in C finds in struct regs the vector and the registers of the trap
\* it handles (isr.asm, irq.asm, system.h).
THEOREM FramesReadable == Spec => []FrameReadable
BY Invariance, PTL DEF Inv

\* A process that does not run has a whole frame of switchTo() or of
\* setup_kernel_process() on its stack.
THEOREM FramesWait == Spec => []FrameWaits
<1>1. Inv => FrameWaits
  <2> SUFFICES ASSUME Inv, NEW p \in ready \ {current}
               PROVE  /\ esp[p] = Len(stack[p])
                      /\ LET r == Popped(reg, stack[p], SwitchList)
                         IN  \/ r["eip"] = Code("switched") /\ r["eflags"] = Flags(0)
                             \/ r = Fresh(p).reg
    BY DEF FrameWaits
  <2>1. Waiting(p, kept[p], stack[p], esp[p]) /\ p \in Thread
    BY DEF Inv, StacksIntact, Typed, Thread
  <2>2. PICK g \in Saved, z \in Words : g = kept[p] /\ z = stack[p]
    BY <2>1 DEF Inv, Typed
  <2>3. PICK r : r = Popped(g.reg, z, SwitchList)
    OBVIOUS
  <2>4. Waiting(p, g, z, esp[p])
    BY <2>1, <2>2
  <2>5. /\ esp[p] = Len(z)
        /\ (r["eip"] = Code("switched") /\ r["eflags"] = Flags(0)) \/ r = Fresh(p).reg
    BY <2>3, <2>4, Zenon DEF Waiting
  <2>6. Popped(reg, z, SwitchList) = r
    BY <2>3, <2>4, WaitingFrame
  <2> QED BY <2>2, <2>5, <2>6
<1> QED BY <1>1, Invariance, PTL

\* No stack ever holds more than two frames and what the program pushed: traps
\* do not nest but for a page fault in press().
THEOREM StacksBounded == Spec => []StackBounded
BY Invariance, PTL DEF Inv

\* Programs run with interrupts enabled (enable_ints() in process_expire(), iret
\* in the stubs, the flags of a new frame).
THEOREM ProgramsInterruptible == Spec => []ProgramsAreInterruptible
<1>1. Inv => ProgramsAreInterruptible
  <2> SUFFICES ASSUME Inv, InProgram PROVE IntsOn
    BY DEF ProgramsAreInterruptible
  <2> QED BY ProgramState DEF IntsOn
<1> QED BY <1>1, Invariance, PTL

=============================================================================
