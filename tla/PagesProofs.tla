----------------------------- MODULE PagesProofs -----------------------------
(***************************************************************************)
(* Proofs about the page allocator: its types hold for any threads, and a  *)
(* frame has one user when one thread at a time asks, and not for NORMAL   *)
(* pages.                                                                  *)
(***************************************************************************)
EXTENDS PagesProperties, FiniteSetTheorems, TLAPS

(***************************************************************************)
(* The bounds alloc_pages() computes (page.c:266-281) lie within memory.   *)
(***************************************************************************)
LEMMA ZoneBounds ==
  ASSUME NEW z \in Zone, Offered(z)
  PROVE  /\ First(z) \in Nat /\ Limit(z) \in Nat
         /\ First(z) <= Limit(z) /\ Limit(z) <= Total
BY PagesAssumption DEF Zone, Offered, Zones, First, Limit, Last

CallType == [at : {"idle", "scan", "mark"}, zone : Zone, pages : Nat,
             i : 0 .. Total, pir : Nat, chosen : 0 .. Total]

(***************************************************************************)
(* The frames page_fault() takes are free ones of the NORMAL zone.         *)
(***************************************************************************)
LEMMA NormalFrame ==
  ASSUME NEW f \in Frame, NEW u, Normal(f, u)
  PROVE  /\ f \in Nat /\ f \notin u
         /\ NormalBase <= f /\ f < Limit("NORMAL") /\ Offered("NORMAL")
<1>1. f \in Runs(u, "NORMAL", 1)
  BY DEF Normal, Lowest
<1>2. f \in Pages(f, 1) /\ f \in Nat
  BY PagesAssumption DEF Pages, Frame
<1> QED
  BY <1>1, <1>2, ZoneBounds DEF Runs, First, Zone

(***************************************************************************)
(* Counting down a u32 gives a u32 (page.c:195).                           *)
(***************************************************************************)
LEMMA MinusType ==
  ASSUME NEW a \in 0 .. Word - 1, NEW b \in Nat, b < Word
  PROVE  Minus(a, b) \in 0 .. Word - 1
BY PagesAssumption DEF Minus

\* The cardinality of a pair.
LEMMA OneOrTwo ==
  ASSUME NEW f, NEW g
  PROVE  /\ Cardinality({f, g}) \in Nat
         /\ f = g => Cardinality({f, g}) = 1
         /\ f # g => Cardinality({f, g}) = 2
<1>1. ASSUME f = g PROVE Cardinality({f, g}) = 1
  <2>1. {f, g} = {f}
    BY <1>1
  <2> QED
    BY <2>1, FS_Singleton
<1>2. ASSUME f # g PROVE Cardinality({f, g}) = 2
  <2>1. IsFiniteSet({f}) /\ Cardinality({f}) = 1
    BY FS_Singleton
  <2>2. {f, g} = {f} \cup {g} /\ g \notin {f}
    BY <1>2
  <2>3. Cardinality({f} \cup {g}) = 2
    BY <2>1, <2>2, FS_AddElement
  <2> QED
    BY <2>2, <2>3
<1>3. IsFiniteSet({f, g})
  <2>1. IsFiniteSet({f}) /\ {f, g} = {f} \cup {g}
    BY FS_Singleton
  <2> QED
    BY <2>1, FS_AddElement
<1> QED
  BY <1>1, <1>2, <1>3, FS_CardinalityType

-----------------------------------------------------------------------------
\* The pages of kernel and bitmap are finitely many.
LEMMA ReservedFrames ==
  /\ Reserved \subseteq Frame /\ IsFiniteSet(Reserved)
  /\ \A z \in Zone : Cardinality({p \in Reserved : InZone(p, z)}) \in Nat
<1>1. Reserved \subseteq Frame
  BY PagesAssumption DEF Reserved, Frame
<1>2. IsFiniteSet(Reserved)
  <2>1. IsFiniteSet(0 .. LowPages - 1)
    BY FS_Interval, PagesAssumption
  <2>2. IsFiniteSet(KernelStart .. KernelStart + KernelPages + BitmapPages - 1)
    BY FS_Interval, PagesAssumption
  <2> QED
    BY <2>1, <2>2, FS_Union DEF Reserved
<1>3. ASSUME NEW z \in Zone
      PROVE  Cardinality({p \in Reserved : InZone(p, z)}) \in Nat
  BY <1>2, FS_Subset, FS_CardinalityType
<1> QED
  BY <1>1, <1>2, <1>3

TypesInv == TypeOK /\ CallInv

(***************************************************************************)
(* At first no call is under way, and the kernel has its pages.            *)
(***************************************************************************)
LEMMA InitTypes == Init => TypesInv
<1> SUFFICES ASSUME Init PROVE TypesInv
  OBVIOUS
<1>1. Idle \in CallType /\ Idle.at = "idle" /\ Idle.pir <= Idle.pages
  BY PagesAssumption DEF Idle, CallType, Zone
<1>2. KernelStart \in Frame
  BY PagesAssumption DEF Frame
<1>3. used \subseteq Frame /\ usedpages \in [Zone -> Nat]
  BY ReservedFrames DEF Init
<1>4. free_pages \in 0 .. Word - 1
  BY PagesAssumption DEF Init
<1>5. pde \in [Table -> Frame \cup {None}] /\ pte \in [VPage -> Frame \cup {None}]
  BY <1>2 DEF Init
<1> QED
  BY <1>1, <1>3, <1>4, <1>5 DEF Init, TypesInv, TypeOK, CallInv, CallType

(***************************************************************************)
(* What page_fault() takes leaves bitmap and counters well typed.          *)
(***************************************************************************)
LEMMA TakeType ==
  ASSUME TypeOK, NEW f \in Frame, NEW g \in Frame, TakeNormal({f, g})
  PROVE  /\ used' \subseteq Frame /\ usedpages' \in [Zone -> Nat]
         /\ free_pages' \in 0 .. Word - 1
<1>1. Cardinality({f, g}) \in Nat
  BY OneOrTwo
<1>2. Cardinality({f, g}) < Word
  <2>1. 1 < Word /\ (f # g => 2 < Word)
    BY PagesAssumption DEF Frame
  <2>2. CASE f = g
    <3>1. Cardinality({f, g}) = 1
      BY <2>2, OneOrTwo
    <3> QED
      BY <2>1, <3>1
  <2>3. CASE f # g
    <3>1. Cardinality({f, g}) = 2
      BY <2>3, OneOrTwo
    <3> QED
      BY <2>1, <2>3, <3>1
  <2> QED
    BY <2>2, <2>3
<1>3. free_pages' \in 0 .. Word - 1
  BY <1>1, <1>2, MinusType DEF TypeOK, TakeNormal
<1>4. usedpages' \in [Zone -> Nat]
  BY <1>1 DEF TypeOK, TakeNormal, Zone
<1> QED
  BY <1>3, <1>4 DEF TypeOK, TakeNormal

(***************************************************************************)
(* Each step of a call of alloc_pages() keeps within its zone.             *)
(***************************************************************************)
LEMMA CallStepTypes ==
  ASSUME TypesInv, NEW t \in Thread, NEW c \in CallType,
         call' = [call EXCEPT ![t] = c], c.pir <= c.pages,
         c.at = "scan" => ScanInv(c), c.at = "mark" => MarkInv(c)
  PROVE  /\ call' \in [Thread -> CallType]
         /\ \A u \in Thread : call'[u].pir <= call'[u].pages
         /\ CallInv'
BY DEF TypesInv, TypeOK, CallInv, CallType, ScanInv, MarkInv, Offered, Zones,
       First, Limit, Last



\* The types of the variables over one step of a call of alloc_pages() ...
LEMMA AllocStepTypes ==
  ASSUME TypesInv, NEW t \in Thread, AllocStep(t)
  PROVE  TypesInv'
<1> DEFINE c == call[t]
<1>0. /\ c \in CallType /\ c.pir <= c.pages
      /\ c.at = "scan" => ScanInv(c)
      /\ c.at = "mark" => MarkInv(c)
  BY DEF TypesInv, TypeOK, CallInv, CallType
<1>1. CASE ScanFree(t)
  <2> DEFINE d == [c EXCEPT !.pir = @ + 1, !.i = @ + 1,
                            !.chosen = IF c.pir = 0 THEN c.i ELSE @]
  <2>1. call' = [call EXCEPT ![t] = d]
    BY <1>1 DEF ScanFree, TypesInv, TypeOK
  <2>2. /\ First(c.zone) \in Nat /\ Limit(c.zone) \in Nat /\ Limit(c.zone) <= Total
        /\ ScanInv(c) /\ c.i < Limit(c.zone) /\ c.pir < c.pages /\ c.at = "scan"
    BY <1>0, <1>1, ZoneBounds DEF ScanFree, Scanning, ScanInv, CallType
  <2>3. /\ d.at = "scan" /\ d.zone = c.zone /\ d.pages = c.pages
        /\ d.pir = c.pir + 1 /\ d.i = c.i + 1
        /\ d.chosen = (IF c.pir = 0 THEN c.i ELSE c.chosen)
    BY <1>0, <2>2 DEF CallType
  <2>4. d \in CallType
    <3>1. /\ c.i \in 0 .. Total /\ c.i + 1 \in 0 .. Total /\ c.pir + 1 \in Nat
          /\ (IF c.pir = 0 THEN c.i ELSE c.chosen) \in 0 .. Total
      BY <1>0, <2>2, PagesAssumption DEF CallType
    <3> DEFINE n == IF c.pir = 0 THEN c.i ELSE c.chosen
    <3>2. d = [c EXCEPT !.pir = c.pir + 1, !.i = c.i + 1, !.chosen = n]
      OBVIOUS
    <3> HIDE DEF d, n
    <3> QED
      BY <1>0, <3>1, <3>2 DEF CallType, n
  <2>5. d.pir <= d.pages /\ ScanInv(d)
    <3> HIDE DEF d
    <3> QED
      BY <1>0, <2>2, <2>3 DEF CallType, ScanInv
  <2> HIDE DEF d
  <2>6. /\ call' \in [Thread -> CallType] /\ CallInv'
        /\ \A u \in Thread : call'[u].pir <= call'[u].pages
    BY <2>1, <2>3, <2>4, <2>5, CallStepTypes
  <2> QED
    BY <1>1, <2>6 DEF ScanFree, TypesInv, TypeOK, bitmap, mapping, CallType
<1>2. CASE ScanUsed(t)
  <2> DEFINE d == [c EXCEPT !.pir = 0, !.i = @ + 1]
  <2>1. call' = [call EXCEPT ![t] = d]
    BY <1>2 DEF ScanUsed, TypesInv, TypeOK
  <2>2. /\ First(c.zone) \in Nat /\ Limit(c.zone) \in Nat /\ Limit(c.zone) <= Total
        /\ ScanInv(c) /\ c.i < Limit(c.zone) /\ c.at = "scan"
    BY <1>0, <1>2, ZoneBounds DEF ScanUsed, Scanning, ScanInv, CallType
  <2>3. /\ d.at = "scan" /\ d.zone = c.zone /\ d.pages = c.pages
        /\ d.pir = 0 /\ d.i = c.i + 1 /\ d.chosen = c.chosen
    BY <1>0, <2>2 DEF CallType
  <2>4. d \in CallType
    <3>1. c.i \in 0 .. Total /\ c.i + 1 \in 0 .. Total
      BY <1>0, <2>2, PagesAssumption DEF CallType
    <3> QED
      BY <1>0, <3>1 DEF CallType
  <2>5. d.pir <= d.pages /\ ScanInv(d)
    <3> HIDE DEF d
    <3> QED
      BY <1>0, <2>2, <2>3 DEF CallType, ScanInv
  <2> QED
    BY <1>2, <2>1, <2>3, <2>4, <2>5, CallStepTypes DEF ScanUsed, TypesInv, TypeOK, bitmap, mapping, CallType
<1>3. CASE OutOfMemory(t)
  <2>1. Idle \in CallType /\ Idle.at = "idle" /\ Idle.pir <= Idle.pages
    BY PagesAssumption DEF Idle, CallType, Zone
  <2> QED
    BY <1>3, <2>1, CallStepTypes DEF OutOfMemory, TypesInv, TypeOK, bitmap, mapping, CallType
<1>4. CASE Found(t)
  <2> DEFINE d == [c EXCEPT !.at = "mark", !.i = c.chosen]
  <2>1. call' = [call EXCEPT ![t] = d]
    BY <1>4 DEF Found, TypesInv, TypeOK
  <2>2. ScanInv(c) /\ c.pir = c.pages
    BY <1>0, <1>4 DEF Found
  <2>3. /\ d.at = "mark" /\ d.zone = c.zone /\ d.pages = c.pages
        /\ d.pir = c.pir /\ d.i = c.chosen /\ d.chosen = c.chosen
    BY <1>0 DEF CallType
  <2>4. d \in CallType
    BY <1>0 DEF CallType
  <2>5. d.pir <= d.pages /\ MarkInv(d)
    <3> HIDE DEF d
    <3> QED
      BY <1>0, <2>2, <2>3 DEF CallType, ScanInv, MarkInv
  <2> QED
    BY <1>4, <2>1, <2>3, <2>4, <2>5, CallStepTypes DEF Found, TypesInv, TypeOK, bitmap, mapping, CallType
<1>5. CASE MarkPage(t)
  <2> DEFINE d == [c EXCEPT !.i = @ + 1]
  <2>1. call' = [call EXCEPT ![t] = d]
    BY <1>5 DEF MarkPage, TypesInv, TypeOK
  <2>2. MarkInv(c) /\ c.at = "mark" /\ c.i < c.chosen + c.pages
    BY <1>0, <1>5 DEF MarkPage
  <2>3. Limit(c.zone) \in Nat /\ Limit(c.zone) <= Total
    BY <1>0, <2>2, ZoneBounds DEF MarkInv, CallType
  <2>4. d \in CallType /\ d.pir <= d.pages /\ d.at = "mark" /\ MarkInv(d)
    BY <1>0, <2>2, <2>3, PagesAssumption DEF CallType, MarkInv
  <2>5. c.i \in Frame
    BY <1>0, <2>2, <2>3, PagesAssumption DEF CallType, MarkInv, Frame
  <2>6. usedpages' \in [Zone -> Nat]
    BY <1>5 DEF MarkPage, Marked, TypesInv, TypeOK
  <2> QED
    BY <1>5, <2>1, <2>4, <2>5, <2>6, CallStepTypes
    DEF MarkPage, TypesInv, TypeOK, mapping, CallType
<1>6. CASE ReturnPages(t)
  <2>1. Idle \in CallType /\ Idle.at = "idle" /\ Idle.pir <= Idle.pages
    BY PagesAssumption DEF Idle, CallType, Zone
  <2>2. MarkInv(c)
    BY <1>0, <1>6 DEF ReturnPages
  <2>3. Limit(c.zone) \in Nat /\ Limit(c.zone) <= Total
    BY <1>0, <2>2, ZoneBounds DEF MarkInv, CallType
  <2>4. c.pages < Word /\ c.chosen \in Frame
    BY <1>0, <2>2, <2>3, PagesAssumption DEF CallType, MarkInv, Frame
  <2>5. free_pages' \in 0 .. Word - 1
    BY <1>0, <1>6, <2>4, MinusType DEF ReturnPages, TypesInv, TypeOK, CallType
  <2>6. held' \in [Thread -> SUBSET (Zone \X Frame \X Nat)]
    BY <1>0, <1>6, <2>4 DEF ReturnPages, TypesInv, TypeOK, CallType
  <2> QED
    BY <1>6, <2>1, <2>5, <2>6, CallStepTypes
    DEF ReturnPages, TypesInv, TypeOK, mapping, CallType
<1> QED
  BY <1>1, <1>2, <1>3, <1>4, <1>5, <1>6 DEF AllocStep

\* ... over its first step ...
LEMMA AllocPagesTypes ==
  ASSUME TypesInv, NEW t \in Thread, NEW a \in Asks, AllocPages(t, a[1], a[2])
  PROVE  TypesInv'
<1> DEFINE d == [Idle EXCEPT !.at = "scan", !.zone = a[1], !.pages = a[2],
                             !.i = First(a[1])]
<1>1. a[1] \in Zone /\ a[2] \in Nat \ {0} /\ Offered(a[1])
  BY PagesAssumption DEF AllocPages
<1>2. d \in CallType /\ d.pir <= d.pages /\ d.at = "scan" /\ ScanInv(d)
  <2>1. /\ First(a[1]) \in Nat /\ Limit(a[1]) \in Nat
        /\ First(a[1]) <= Limit(a[1]) /\ Limit(a[1]) <= Total
    BY <1>1, ZoneBounds
  <2>2. /\ d.at = "scan" /\ d.zone = a[1] /\ d.pages = a[2]
        /\ d.pir = 0 /\ d.i = First(a[1]) /\ d.chosen = 0
    BY DEF Idle
  <2>3. d \in CallType
    <3>1. 0 \in 0 .. Total /\ First(a[1]) \in 0 .. Total /\ a[2] \in Nat
      BY <1>1, <2>1, PagesAssumption
    <3> QED
      BY <1>1, <3>1 DEF Idle, CallType
  <2> HIDE DEF d
  <2> QED
    BY <1>1, <2>1, <2>2, <2>3 DEF ScanInv
<1>3. call' = [call EXCEPT ![t] = d]
  BY DEF AllocPages
<1> HIDE DEF d
<1> QED
  BY <1>2, <1>3, CallStepTypes DEF AllocPages, TypesInv, TypeOK, bitmap, mapping, CallType

\* ... over page_fault() ...
LEMMA PageFaultTypes ==
  ASSUME TypesInv, NEW v \in VPage, PageFault(v)
  PROVE  TypesInv'
<1>1. CASE FaultMap(v)
  <2>1. PICK f \in Frame : TakeNormal({f}) /\ pte' = [pte EXCEPT ![v] = f]
    BY <1>1 DEF FaultMap
  <2>2. {f} = {f, f}
    OBVIOUS
  <2> QED
    BY <1>1, <2>1, <2>2, TakeType DEF FaultMap, TypesInv, TypeOK, CallInv
<1>2. CASE FaultNewTable(v)
  <2>1. PICK f \in Frame, g \in Frame :
          /\ TakeNormal({f, g}) /\ pde' = [pde EXCEPT ![v[1]] = g]
          /\ pte' = [w \in VPage |-> IF w = v THEN f
                                     ELSE IF w[1] = v[1] THEN None ELSE pte[w]]
    BY <1>2 DEF FaultNewTable
  <2>2. v[1] \in Table
    BY DEF VPage
  <2>3. pte' \in [VPage -> Frame \cup {None}]
    BY <2>1 DEF TypesInv, TypeOK
  <2> QED
    BY <1>2, <2>1, <2>2, <2>3, TakeType DEF FaultNewTable, TypesInv, TypeOK, CallInv
<1>3. CASE FaultNoFrame(v)
  <2>1. 0 \in Frame
    BY PagesAssumption DEF Frame
  <2> QED
    BY <1>3, <2>1 DEF FaultNoFrame, TypesInv, TypeOK, CallInv, bitmap
<1>4. CASE FaultHalt(v)
  <2>1. CASE UNCHANGED bitmap
    BY <1>4, <2>1 DEF FaultHalt, TypesInv, TypeOK, CallInv, bitmap
  <2>2. CASE \E f \in Frame : TakeNormal({f})
    <3>1. PICK f \in Frame : TakeNormal({f})
      BY <2>2
    <3>2. {f} = {f, f}
      OBVIOUS
    <3> QED
      BY <1>4, <3>1, <3>2, TakeType DEF FaultHalt, TypesInv, TypeOK, CallInv
  <2> QED
    BY <1>4, <2>1, <2>2 DEF FaultHalt
<1> QED
  BY <1>1, <1>2, <1>3, <1>4 DEF PageFault

\* ... and so over every step.
LEMMA StepTypes == TypesInv /\ [Next]_vars => TypesInv'
<1> SUFFICES ASSUME TypesInv, [Next]_vars PROVE TypesInv'
  OBVIOUS
<1>1. CASE UNCHANGED vars
  BY <1>1 DEF TypesInv, TypeOK, CallInv, vars, bitmap, mapping
<1> QED
  BY <1>1, AllocStepTypes, AllocPagesTypes, PageFaultTypes DEF Next

(***************************************************************************)
(* The types of the allocator's state, however many threads call           *)
(* alloc_pages() at a time.                                                *)
(***************************************************************************)
THEOREM PagesTypeCorrect == Spec => []TypeOK
<1>1. TypesInv => TypeOK
  BY DEF TypesInv
<1> QED
  BY InitTypes, StepTypes, <1>1, PTL DEF Spec

-----------------------------------------------------------------------------
(***************************************************************************)
(* One caller at a time, and none for NORMAL pages: the floppy driver      *)
(* (floppy.c:82) is the only caller outside page.c and page_fault().       *)
(***************************************************************************)
OneCaller == \A t, u \in Thread : t = u
NotNormal == \A a \in Asks : a[1] # "NORMAL"

(***************************************************************************)
(* The zones end before the next begins (page.c:52-76).                    *)
(***************************************************************************)
LEMMA ZonesApart ==
  ASSUME NEW z \in Zone, z # "NORMAL", Offered(z),
         NEW p \in Nat, First(z) <= p, p < Limit(z),
         NEW f \in Nat, NormalBase <= f, f < Limit("NORMAL")
  PROVE  p # f
BY PagesAssumption DEF Zone, Offered, Zones, First, Limit, Last

FrameInv == TypesInv /\ FramesInv

IsNew(f) ==
  /\ f \notin Taken
  /\ \A t \in Thread :
       /\ call[t].at = "scan" /\ call[t].pir > 0 =>
            f \notin Pages(call[t].chosen, call[t].pir)
       /\ call[t].at = "mark" => f \notin Pages(call[t].chosen, call[t].pages)

(***************************************************************************)
(* A frame that page_fault() takes is new to everybody.                    *)
(***************************************************************************)
LEMMA NormalIsNew ==
  ASSUME FrameInv, NEW f \in Frame, NEW u, used \subseteq u, Normal(f, u)
  PROVE  f # 0 /\ f \in Nat /\ f \notin used /\ IsNew(f)
<1>1. /\ f \in Nat /\ f \notin used
      /\ NormalBase <= f /\ f < Limit("NORMAL")
  BY NormalFrame
<1>2. f # 0 /\ f \notin Taken
  BY <1>1, PagesAssumption DEF FrameInv, FramesInv
<1>3. ASSUME NEW t \in Thread, call[t].at = "scan", call[t].pir > 0,
             f \in Pages(call[t].chosen, call[t].pir)
      PROVE  FALSE
  <2>1. /\ call[t].zone \in Zone /\ call[t].zone # "NORMAL" /\ Offered(call[t].zone)
        /\ First(call[t].zone) <= call[t].chosen
        /\ call[t].chosen + call[t].pir <= Limit(call[t].zone)
        /\ call[t].chosen \in Nat /\ call[t].pir \in Nat
    BY <1>3, PagesAssumption
    DEF FrameInv, FramesInv, TypesInv, TypeOK, CallInv, ScanInv, ChosenInv
  <2>2. First(call[t].zone) \in Nat /\ Limit(call[t].zone) \in Nat
    BY <2>1, ZoneBounds
  <2>3. First(call[t].zone) <= f /\ f < Limit(call[t].zone)
    BY <1>1, <1>3, <2>1, <2>2 DEF Pages
  <2> QED
    BY <1>1, <2>1, <2>3, ZonesApart
<1>4. ASSUME NEW t \in Thread, call[t].at = "mark",
             f \in Pages(call[t].chosen, call[t].pages)
      PROVE  FALSE
  <2>1. /\ call[t].zone \in Zone /\ call[t].zone # "NORMAL" /\ Offered(call[t].zone)
        /\ First(call[t].zone) <= call[t].chosen
        /\ call[t].chosen + call[t].pages <= Limit(call[t].zone)
        /\ call[t].chosen \in Nat /\ call[t].pages \in Nat
    BY <1>4, PagesAssumption
    DEF FrameInv, FramesInv, TypesInv, TypeOK, CallInv, MarkInv, ChosenInv
  <2>2. First(call[t].zone) \in Nat /\ Limit(call[t].zone) \in Nat
    BY <2>1, ZoneBounds
  <2>3. First(call[t].zone) <= f /\ f < Limit(call[t].zone)
    BY <1>1, <1>4, <2>1, <2>2 DEF Pages
  <2> QED
    BY <1>1, <2>1, <2>3, ZonesApart
<1> QED
  BY <1>1, <1>2, <1>3, <1>4 DEF IsNew

(***************************************************************************)
(* page_fault() adds frames that are new to everybody.                     *)
(***************************************************************************)
LEMMA FaultFrames ==
  ASSUME FrameInv, TypesInv', UNCHANGED <<call, held>>,
         NEW F \in SUBSET Frame, used' = used \cup F,
         Mapped' \subseteq Mapped \cup F, Tables' \subseteq Tables \cup F,
         MappedOnce', Mapped' \cap Tables' = {}, pde'[KernelTable] \in Reserved,
         \A f \in F : IsNew(f)
  PROVE  FramesInv'
<1>1. AllGiven' = AllGiven /\ Reserved' = Reserved /\ GivenOnce'
  <2>1. held' = held /\ GivenOnce
    BY DEF FrameInv, FramesInv, FramesOnce
  <2>2. AllGiven' = AllGiven
    BY <2>1 DEF AllGiven, Given
  <2>3. GivenOnce'
    BY <2>1 DEF GivenOnce, Given
  <2> QED
    BY <2>2, <2>3 DEF Reserved
<1>2. FramesOnce'
  BY <1>1 DEF FrameInv, FramesInv, FramesOnce, Taken, IsNew
<1>3. Taken' \subseteq Taken \cup F /\ Taken' \subseteq used'
  BY <1>1 DEF FrameInv, FramesInv, Taken
<1>4. CallInv'
  BY DEF TypesInv
<1>5. ChosenInv'
  <2> SUFFICES ASSUME NEW t \in Thread
               PROVE  /\ call[t].at # "idle" => call[t].zone # "NORMAL"
                      /\ call[t].at = "scan" /\ call[t].pir > 0 =>
                           Pages(call[t].chosen, call[t].pir) \cap used' = {}
                      /\ call[t].at = "mark" =>
                           /\ Pages(call[t].chosen, call[t].pages) \cap Taken' = {}
                           /\ (call[t].i .. call[t].chosen + call[t].pages - 1)
                                 \cap used' = {}
                           /\ (call[t].chosen .. call[t].i - 1) \subseteq used'
    BY DEF ChosenInv
  <2>1. call[t].at = "mark" =>
          (call[t].i .. call[t].chosen + call[t].pages - 1)
             \subseteq Pages(call[t].chosen, call[t].pages)
    BY DEF FrameInv, TypesInv, TypeOK, CallInv, MarkInv, Pages
  <2> QED
    BY <1>3, <2>1 DEF FrameInv, FramesInv, ChosenInv, IsNew
<1> QED
  BY <1>2, <1>3, <1>4, <1>5 DEF FramesInv

\* The pages page_fault() takes belonged to nobody.
LEMMA PageFaultFrames ==
  ASSUME FrameInv, NEW v \in VPage, PageFault(v)
  PROVE  FrameInv'
<1>1. TypesInv'
  BY PageFaultTypes DEF FrameInv
<1>t. /\ pte \in [VPage -> Frame \cup {None}] /\ pde \in [Table -> Frame \cup {None}]
      /\ Mapped \subseteq used /\ Tables \subseteq used /\ MappedOnce
      /\ Mapped \cap Tables = {}
  BY DEF FrameInv, FramesInv, TypesInv, TypeOK, Taken, FramesOnce
<1>k. pde[KernelTable] \in Reserved /\ pde[KernelTable] # None
  <2>1. pde[KernelTable] \in Reserved
    BY DEF FrameInv, FramesInv
  <2>2. Reserved \subseteq Nat
    BY ReservedFrames, PagesAssumption DEF Frame
  <2> QED
    BY <2>1, <2>2, PagesAssumption
<1>2. CASE FaultMap(v)
  <2>1. PICK f \in Frame :
          Normal(f, used) /\ used' = used \cup {f} /\ pte' = [pte EXCEPT ![v] = f]
    BY <1>2 DEF FaultMap, TakeNormal
  <2>2. f # 0 /\ f # None /\ f \notin used /\ IsNew(f)
    BY <2>1, NormalIsNew, PagesAssumption
  <2>3. UNCHANGED <<call, held, pde>>
    BY <1>2 DEF FaultMap
  <2>4. Mapped' \subseteq Mapped \cup {f} /\ Tables' = Tables
    BY <2>1, <2>3, <1>t DEF Mapped, Tables
  <2>5. MappedOnce'
    <3>1. \A d, e \in Table : pde'[d] = pde'[e] /\ pde'[d] \in Tables' => d = e
      BY <2>3, <2>4, <1>t DEF MappedOnce
    <3>2. ASSUME NEW x \in VPage, NEW y \in VPage,
                 pte'[x] = pte'[y], pte'[x] \in Mapped'
          PROVE  x = y
      <4>1. \A w \in VPage : w # v => pte'[w] = pte[w] /\ pte[w] # f
        BY <2>1, <2>2, <1>t DEF Mapped
      <4>2. pte'[v] = f
        BY <2>1, <1>t
      <4>3. CASE x # v /\ y # v
        <5>1. pte[x] = pte[y] /\ pte[x] \in Mapped
          BY <3>2, <4>1, <4>3, <2>4
        <5> QED
          BY <5>1, <1>t DEF MappedOnce
      <4> QED
        BY <3>2, <4>1, <4>2, <4>3
    <3> QED
      BY <3>1, <3>2 DEF MappedOnce
  <2>6. Mapped' \cap Tables' = {}
    BY <2>2, <2>4, <1>t
  <2>7. FramesInv'
    <3>1. {f} \in SUBSET Frame /\ \A x \in {f} : IsNew(x)
      BY <2>2
    <3>2. pde'[KernelTable] \in Reserved /\ UNCHANGED <<call, held>>
      BY <2>3, <1>k
    <3> QED
      BY <1>1, <2>1, <2>4, <2>5, <2>6, <3>1, <3>2, FaultFrames
  <2> QED
    BY <1>1, <2>7 DEF FrameInv
<1>3. CASE FaultNewTable(v)
  <2>1. PICK f \in Frame, g \in Frame :
          /\ Normal(f, used) /\ Normal(g, used \cup {f})
          /\ used' = used \cup {f, g} /\ pde' = [pde EXCEPT ![v[1]] = g]
          /\ pte' = [w \in VPage |-> IF w = v THEN f
                                     ELSE IF w[1] = v[1] THEN None ELSE pte[w]]
    BY <1>3 DEF FaultNewTable, TakeNormal
  <2>2. /\ f # 0 /\ f # None /\ f \notin used /\ IsNew(f)
        /\ g # 0 /\ g # None /\ g \notin used /\ IsNew(g) /\ f # g
    BY <2>1, NormalIsNew, NormalFrame, PagesAssumption
  <2>3. UNCHANGED <<call, held>> /\ v[1] \in Table
    BY <1>3 DEF FaultNewTable, VPage
  <2>4. Mapped' \subseteq Mapped \cup {f} /\ Tables' \subseteq Tables \cup {g}
    BY <2>1, <1>t DEF Mapped, Tables
  <2>5. MappedOnce'
    <3>1. ASSUME NEW d \in Table, NEW e \in Table,
                 pde'[d] = pde'[e], pde'[d] \in Tables'
          PROVE  d = e
      <4>1. CASE pde'[d] = g
        <5>1. \A a \in Table : pde[a] = g => FALSE
          <6>1. \A a \in Table \ {KernelTable} : pde[a] # g
            BY <2>2, <1>t DEF Tables
          <6>2. pde[KernelTable] # g
            BY <2>2 DEF FrameInv, FramesInv, Taken, IsNew
          <6> QED
            BY <6>1, <6>2
        <5> QED
          BY <2>1, <1>t, <3>1, <4>1, <5>1
      <4>2. CASE pde'[d] # g
        <5>1. pde[d] = pde[e] /\ pde[d] \in Tables
          BY <2>1, <2>4, <1>t, <3>1, <4>2
        <5> QED
          BY <5>1, <1>t DEF MappedOnce
      <4> QED
        BY <4>1, <4>2
    <3>2. ASSUME NEW x \in VPage, NEW y \in VPage,
                 pte'[x] = pte'[y], pte'[x] \in Mapped'
          PROVE  x = y
      <4>1. \A w \in VPage : w # v => pte'[w] \in {None, pte[w]} /\ pte[w] # f
        BY <2>1, <2>2, <1>t DEF Mapped
      <4>2. pte'[v] = f /\ pte'[x] # None
        BY <2>1, <3>2 DEF Mapped
      <4>3. CASE x # v /\ y # v
        <5>1. pte[x] = pte[y] /\ pte[x] \in Mapped
          BY <3>2, <4>1, <4>2, <4>3, <2>4
        <5> QED
          BY <5>1, <1>t DEF MappedOnce
      <4> QED
        BY <2>2, <3>2, <4>1, <4>2, <4>3
    <3> QED
      BY <3>1, <3>2 DEF MappedOnce
  <2>6. Mapped' \cap Tables' = {}
    BY <2>2, <2>4, <1>t
  <2>k. pde'[KernelTable] = pde[KernelTable]
    BY <1>3, <1>k, <1>t, <2>1 DEF FaultNewTable, Faults
  <2>7. /\ used \subseteq used \cup {f} /\ {f, g} \subseteq Frame
        /\ Mapped' \subseteq Mapped \cup {f, g} /\ Tables' \subseteq Tables \cup {f, g}
    BY <2>4
  <2>8. FramesInv'
    <3>1. {f, g} \in SUBSET Frame /\ \A x \in {f, g} : IsNew(x)
      BY <2>2
    <3>2. pde'[KernelTable] \in Reserved /\ UNCHANGED <<call, held>>
      BY <2>3, <2>k, <1>k
    <3> QED
      BY <1>1, <2>1, <2>5, <2>6, <2>7, <3>1, <3>2, FaultFrames
  <2> QED
    BY <1>1, <2>8 DEF FrameInv
<1>4. CASE FaultNoFrame(v)
  <2>1. UNCHANGED <<bitmap, call, held, pde>> /\ pte' = [pte EXCEPT ![v] = 0]
    BY <1>4 DEF FaultNoFrame
  <2>2. Mapped' \subseteq Mapped /\ Tables' = Tables
    BY <2>1, <1>t DEF Mapped, Tables
  <2>3. MappedOnce'
    <3>1. \A w \in VPage : pte'[w] \in Mapped' => w # v /\ pte'[w] = pte[w]
      BY <2>1, <1>t DEF Mapped
    <3> QED
      BY <2>1, <2>2, <3>1, <1>t DEF MappedOnce
  <2>4. FramesInv'
    <3>1. used' = used \cup {} /\ {} \subseteq Frame
      BY <2>1 DEF bitmap
    <3> QED
      BY <1>1, <1>t, <2>1, <2>2, <2>3, <3>1, <1>k, FaultFrames
  <2> QED
    BY <1>1, <2>4 DEF FrameInv
<1>5. CASE FaultHalt(v)
  <2>1. UNCHANGED <<call, held, pde, pte>>
    BY <1>5 DEF FaultHalt
  <2>2. Mapped' = Mapped /\ Tables' = Tables /\ MappedOnce'
    BY <2>1, <1>t DEF Mapped, Tables, MappedOnce
  <2>3. PICK F \in SUBSET Frame :
          used' = used \cup F /\ \A f \in F : f \in Frame /\ Normal(f, used)
    <3>1. CASE UNCHANGED bitmap
      <4>1. used' = used \cup {} /\ {} \subseteq Frame
        BY <3>1 DEF bitmap
      <4> WITNESS {} \in SUBSET Frame
      <4> QED
        BY <4>1
    <3>2. CASE \E f \in Frame : Normal(f, used) /\ TakeNormal({f})
      <4>1. PICK f \in Frame : Normal(f, used) /\ used' = used \cup {f}
        BY <3>2 DEF TakeNormal
      <4> WITNESS {f} \in SUBSET Frame
      <4> QED
        BY <4>1
    <3> QED
      BY <1>5, <3>1, <3>2 DEF FaultHalt
  <2>4. FramesInv'
    BY <1>1, <1>t, <2>1, <2>2, <2>3, <1>k, NormalIsNew, FaultFrames
  <2> QED
    BY <1>1, <2>4 DEF FrameInv
<1> QED
  BY <1>2, <1>3, <1>4, <1>5 DEF PageFault

(***************************************************************************)
(* The users of frames change only with held, pde and pte.                 *)
(***************************************************************************)
LEMMA SameUsers ==
  ASSUME FrameInv, UNCHANGED <<held, pde, pte>>
  PROVE  FramesOnce' /\ Taken' = Taken
<1>1. /\ AllGiven' = AllGiven /\ Reserved' = Reserved
      /\ Mapped' = Mapped /\ Tables' = Tables /\ Taken' = Taken
  BY DEF AllGiven, Given, Reserved, Mapped, Tables, Taken
<1>2. GivenOnce' /\ MappedOnce'
  BY <1>1 DEF FrameInv, FramesInv, FramesOnce, GivenOnce, MappedOnce, Given
<1> QED
  BY <1>1, <1>2 DEF FrameInv, FramesInv, FramesOnce

\* A step that only looks leaves the users of pages alone.
LEMMA LookingKeepsFrames ==
  ASSUME FrameInv, TypesInv', UNCHANGED <<used, held, pde, pte>>, ChosenInv'
  PROVE  FrameInv'
BY SameUsers DEF FrameInv, FramesInv, TypesInv, Reserved

\* One step of a call of alloc_pages(): the run it has chosen stays nobody's.
LEMMA AllocStepFrames ==
  ASSUME OneCaller, FrameInv, NEW t \in Thread, AllocStep(t)
  PROVE  FrameInv'
<1> DEFINE c == call[t]
<1>0. /\ TypesInv' /\ c \in CallType /\ call' \in [Thread -> CallType]
      /\ c.at = "scan" => ScanInv(c)
      /\ c.at = "mark" => MarkInv(c)
      /\ \A u \in Thread : u = t
  BY AllocStepTypes DEF FrameInv, TypesInv, TypeOK, CallInv, CallType, OneCaller
<1>z. c.at # "idle" => c.zone # "NORMAL"
  BY DEF FrameInv, FramesInv, ChosenInv
<1>1. CASE ScanFree(t)
  <2>1. /\ c.at = "scan" /\ c.i \notin used /\ ScanInv(c)
        /\ call'[t].at = "scan" /\ call'[t].zone = c.zone
        /\ call'[t].pir = c.pir + 1
        /\ call'[t].chosen = (IF c.pir = 0 THEN c.i ELSE c.chosen)
        /\ UNCHANGED <<used, held, pde, pte>>
    BY <1>0, <1>1 DEF ScanFree, Scanning, bitmap, mapping, FrameInv, TypesInv, TypeOK
  <2>2. Pages(call'[t].chosen, call'[t].pir) \cap used = {}
    <3>1. CASE c.pir = 0
      BY <1>0, <2>1, <3>1 DEF Pages, CallType
    <3>2. CASE c.pir > 0
      <4>1. Pages(c.chosen, c.pir) \cap used = {} /\ c.chosen + c.pir = c.i
        BY <2>1, <3>2 DEF FrameInv, FramesInv, ChosenInv, ScanInv
      <4>2. Pages(c.chosen, c.pir + 1) \subseteq Pages(c.chosen, c.pir) \cup {c.i}
        BY <1>0, <4>1 DEF Pages, CallType
      <4> QED
        BY <2>1, <3>2, <4>1, <4>2
    <3> QED
      BY <1>0, <3>1, <3>2 DEF CallType
  <2>3. ChosenInv'
    BY <1>0, <1>z, <2>1, <2>2 DEF ChosenInv, Pages
  <2> QED
    BY <1>0, <2>1, <2>3, LookingKeepsFrames
<1>2. CASE ScanUsed(t)
  <2>1. /\ c.at = "scan" /\ call'[t].at = "scan" /\ call'[t].zone = c.zone
        /\ call'[t].pir = 0
        /\ UNCHANGED <<used, held, pde, pte>>
    BY <1>2 DEF ScanUsed, Scanning, bitmap, mapping, FrameInv, TypesInv, TypeOK
  <2>2. ChosenInv'
    BY <1>0, <1>z, <2>1 DEF ChosenInv
  <2> QED
    BY <1>0, <2>1, <2>2, LookingKeepsFrames
<1>3. CASE OutOfMemory(t)
  <2>1. call'[t].at = "idle" /\ UNCHANGED <<used, held, pde, pte>>
    BY <1>3 DEF OutOfMemory, Idle, bitmap, mapping, FrameInv, TypesInv, TypeOK
  <2>2. ChosenInv'
    BY <1>0, <2>1 DEF ChosenInv
  <2> QED
    BY <1>0, <2>1, <2>2, LookingKeepsFrames
<1>4. CASE Found(t)
  <2>1. /\ c.at = "scan" /\ ScanInv(c) /\ c.pir = c.pages /\ c.pir > 0
        /\ call'[t].at = "mark" /\ call'[t].zone = c.zone
        /\ call'[t].i = c.chosen /\ call'[t].chosen = c.chosen
        /\ call'[t].pages = c.pages
        /\ UNCHANGED <<used, held, pde, pte>>
    BY <1>0, <1>4 DEF Found, ScanInv, bitmap, mapping, FrameInv, TypesInv, TypeOK
  <2>2. Pages(c.chosen, c.pages) \cap used = {} /\ Taken \subseteq used
    BY <2>1 DEF FrameInv, FramesInv, ChosenInv
  <2>3. Taken' = Taken
    BY <2>1 DEF Taken, AllGiven, Given, Reserved, Mapped, Tables
  <2>4. (c.chosen .. c.chosen - 1) = {}
    BY <1>0 DEF CallType
  <2>5. ChosenInv'
    BY <1>0, <1>z, <2>1, <2>2, <2>3, <2>4 DEF ChosenInv, Pages
  <2> QED
    BY <1>0, <2>1, <2>5, LookingKeepsFrames
<1>5. CASE MarkPage(t)
  <2>1. /\ c.at = "mark" /\ MarkInv(c) /\ c.i < c.chosen + c.pages
        /\ call'[t].at = "mark" /\ call'[t].zone = c.zone
        /\ call'[t].i = c.i + 1 /\ call'[t].chosen = c.chosen
        /\ call'[t].pages = c.pages
        /\ used' = used \cup {c.i} /\ UNCHANGED <<held, pde, pte>>
    BY <1>0, <1>5 DEF MarkPage, mapping, FrameInv, TypesInv, TypeOK
  <2>2. /\ Pages(c.chosen, c.pages) \cap Taken = {}
        /\ (c.i .. c.chosen + c.pages - 1) \cap used = {}
        /\ (c.chosen .. c.i - 1) \subseteq used
    BY <2>1 DEF FrameInv, FramesInv, ChosenInv
  <2>3. Taken' = Taken /\ FramesOnce'
    BY <2>1, SameUsers
  <2>4. /\ (c.i + 1 .. c.chosen + c.pages - 1) \cap used' = {}
        /\ (c.chosen .. c.i) \subseteq used'
    BY <1>0, <2>1, <2>2 DEF CallType
  <2>6. ChosenInv'
    <3>1. /\ Pages(call'[t].chosen, call'[t].pages) \cap Taken' = {}
          /\ (call'[t].i .. call'[t].chosen + call'[t].pages - 1) \cap used' = {}
          /\ (call'[t].chosen .. call'[t].i - 1) \subseteq used'
      <4>1. call'[t].i - 1 = c.i
        BY <1>0, <2>1 DEF CallType
      <4>2. /\ Pages(call'[t].chosen, call'[t].pages) = Pages(c.chosen, c.pages)
            /\ call'[t].i .. call'[t].chosen + call'[t].pages - 1
                 = c.i + 1 .. c.chosen + c.pages - 1
            /\ call'[t].chosen .. call'[t].i - 1 = c.chosen .. c.i
        BY <2>1, <4>1
      <4> QED
        BY <2>2, <2>3, <2>4, <4>2
    <3> QED
      BY <1>0, <1>z, <2>1, <3>1 DEF ChosenInv, Pages
  <2> QED
    BY <1>0, <2>1, <2>3, <2>6 DEF FrameInv, FramesInv, TypesInv, Reserved
<1>6. CASE ReturnPages(t)
  <2> DEFINE h == <<c.zone, c.chosen, c.pages>>
  <2>1. /\ c.at = "mark" /\ MarkInv(c) /\ c.i = c.chosen + c.pages
        /\ call'[t].at = "idle"
        /\ held'[t] = held[t] \cup {h} /\ UNCHANGED <<used, pde, pte>>
        /\ held' = [held EXCEPT ![t] = @ \cup {h}]
    BY <1>0, <1>6 DEF ReturnPages, Idle, mapping, FrameInv, TypesInv, TypeOK
  <2>2. /\ Given(h) \cap Taken = {} /\ Given(h) \subseteq used
    <3>1. Given(h) = Pages(c.chosen, c.pages)
      BY DEF Given
    <3>2. Pages(c.chosen, c.pages) = c.chosen .. c.i - 1
      BY <1>0, <2>1 DEF Pages, CallType
    <3> QED
      BY <2>1, <3>1, <3>2 DEF FrameInv, FramesInv, ChosenInv
  <2>3. AllGiven' = AllGiven \cup Given(h)
    <3> HIDE DEF h
    <3>1. \A x : x \in AllGiven <=> \E g \in held[t] : x \in Given(g)
      BY <1>0 DEF AllGiven
    <3>2. \A x : x \in AllGiven' <=> \E g \in held'[t] : x \in Given(g)
      BY <1>0 DEF AllGiven, Given, Pages
    <3> QED
      BY <2>1, <3>1, <3>2
  <2> HIDE DEF h
  <2>4. Mapped' = Mapped /\ Tables' = Tables /\ Reserved' = Reserved /\ MappedOnce'
    BY <2>1 DEF Mapped, Tables, Reserved, MappedOnce, FrameInv, FramesInv, FramesOnce
  <2>5. GivenOnce'
    <3>1. \A g \in held[t] : Given(g) \subseteq AllGiven
      BY DEF AllGiven
    <3>2. \A g \in held[t] : Given(g) \cap Given(h) = {}
      BY <2>2, <3>1 DEF Taken
    <3>3. \A g, k \in held[t] : g = k \/ Given(g) \cap Given(k) = {}
      BY DEF FrameInv, FramesInv, FramesOnce, GivenOnce
    <3>4. \A g, k \in held'[t] : g = k \/ Given(g) \cap Given(k) = {}
      BY <2>1, <3>2, <3>3
    <3> QED
      BY <1>0, <3>4 DEF GivenOnce, Given
  <2>6. FramesOnce' /\ Taken' \subseteq used'
    BY <2>1, <2>2, <2>3, <2>4, <2>5 DEF FrameInv, FramesInv, FramesOnce, Taken
  <2>7. ChosenInv'
    BY <1>0, <2>1 DEF ChosenInv
  <2> QED
    BY <1>0, <2>1, <2>4, <2>6, <2>7 DEF FrameInv, FramesInv, TypesInv
<1> QED
  BY <1>1, <1>2, <1>3, <1>4, <1>5, <1>6 DEF AllocStep

\* The first step of a call has chosen nothing.
LEMMA AllocPagesFrames ==
  ASSUME OneCaller, NotNormal, FrameInv, NEW t \in Thread, NEW a \in Asks,
         AllocPages(t, a[1], a[2])
  PROVE  FrameInv'
<1>1. TypesInv'
  BY AllocPagesTypes DEF FrameInv
<1>2. /\ call'[t].at = "scan" /\ call'[t].zone = a[1] /\ call'[t].pir = 0
      /\ UNCHANGED <<used, held, pde, pte>>
  BY DEF AllocPages, Idle, bitmap, mapping, FrameInv, TypesInv, TypeOK
<1>3. ChosenInv'
  BY <1>2 DEF ChosenInv, OneCaller, NotNormal
<1> QED
  BY <1>1, <1>2, <1>3, LookingKeepsFrames

\* At first only the kernel has pages.
LEMMA InitFrames == Init => FrameInv
<1> SUFFICES ASSUME Init PROVE FrameInv
  OBVIOUS
<1>1. TypesInv
  BY InitTypes
<1>2. AllGiven = {} /\ Mapped = {}
  BY DEF Init, AllGiven, Mapped
<1>3. Tables = {}
  BY DEF Init, Tables
<1>4. GivenOnce /\ MappedOnce
  BY <1>2, <1>3 DEF Init, GivenOnce, MappedOnce
<1>5. KernelStart \in Reserved /\ pde[KernelTable] = KernelStart
  BY PagesAssumption DEF Init, Reserved
<1>6. ChosenInv
  BY DEF Init, ChosenInv, Idle
<1> QED
  BY <1>1, <1>2, <1>3, <1>4, <1>5, <1>6
  DEF FrameInv, FramesInv, FramesOnce, TypesInv, Taken, Init

\* Every step keeps every page with one user.
LEMMA FramesStep ==
  ASSUME OneCaller, NotNormal
  PROVE  FrameInv /\ [Next]_vars => FrameInv'
<1> SUFFICES ASSUME FrameInv, [Next]_vars PROVE FrameInv'
  OBVIOUS
<1>1. CASE UNCHANGED vars
  <2>1. ChosenInv' /\ TypesInv'
    <3>1. TypesInv'
      BY <1>1, StepTypes DEF FrameInv
    <3>2. Taken' = Taken
      BY <1>1 DEF vars, bitmap, mapping, Taken, AllGiven, Given, Reserved, Mapped, Tables
    <3> QED
      BY <1>1, <3>1, <3>2
      DEF vars, bitmap, FrameInv, FramesInv, ChosenInv, Pages
  <2> QED
    BY <1>1, <2>1, LookingKeepsFrames DEF vars, bitmap, mapping
<1> QED
  BY <1>1, AllocStepFrames, AllocPagesFrames, PageFaultFrames DEF Next

(***************************************************************************)
(* The calls of alloc_pages() in progress keep to pages that are nobody's, *)
(* and every page with a user is marked used: the invariant behind         *)
(* FramesOnce, under its assumptions.                                      *)
(***************************************************************************)
THEOREM FramesInvHolds ==
  ASSUME OneCaller, NotNormal
  PROVE  Spec => []FramesInv
<1>1. FrameInv => FramesInv
  BY DEF FrameInv
<1> QED
  BY InitFrames, FramesStep, <1>1, PTL DEF Spec

(***************************************************************************)
(* A page frame has one user, whatever page_fault() takes while a process  *)
(* is in alloc_pages(), as long as one process at a time is, and not for   *)
(* NORMAL pages: for every memory size, kernel and order of events.        *)
(***************************************************************************)
THEOREM FramesSafe ==
  ASSUME OneCaller, NotNormal
  PROVE  Spec => []FramesOnce
<1>1. FramesInv => FramesOnce
  BY DEF FramesInv
<1> QED
  BY FramesInvHolds, <1>1, PTL

-----------------------------------------------------------------------------
(* The counters.                                                           *)

\* The used pages of a zone, its end_page included.
ZoneUsed(u, z) == {p \in u : InZone(p, z)}

(***************************************************************************)
(* The bitmap has a bit for each page.                                     *)
(***************************************************************************)
LEMMA UsedCount ==
  ASSUME NEW u \in SUBSET Frame
  PROVE  IsFiniteSet(u) /\ Cardinality(u) \in Nat /\ Cardinality(u) <= Total
<1>1. IsFiniteSet(Frame) /\ Cardinality(Frame) = Total
  <2>1. 0 \in Int /\ Total - 1 \in Int /\ Total \in Nat
    BY PagesAssumption
  <2>2. /\ IsFiniteSet(0 .. Total - 1)
        /\ Cardinality(0 .. Total - 1) = IF 0 > Total - 1 THEN 0 ELSE (Total - 1) - 0 + 1
    BY <2>1, FS_Interval, Zenon
  <2> QED
    BY <2>1, <2>2 DEF Frame
<1>2. IsFiniteSet(u) /\ Cardinality(u) <= Total
  BY <1>1, FS_Subset
<1> QED
  BY <1>2, FS_CardinalityType

(***************************************************************************)
(* One more used page is counted once, in the zones it lies in.            *)
(***************************************************************************)
LEMMA AddFrame ==
  ASSUME NEW u \in SUBSET Frame, NEW x \in Frame, x \notin u
  PROVE  /\ Cardinality(u) \in Nat /\ Cardinality(u \cup {x}) <= Total
         /\ Cardinality(u \cup {x}) = Cardinality(u) + 1
         /\ \A z : /\ Cardinality(ZoneUsed(u, z)) \in Nat
                   /\ Cardinality(ZoneUsed(u \cup {x}, z)) =
                        IF InZone(x, z) THEN Cardinality(ZoneUsed(u, z)) + 1
                                        ELSE Cardinality(ZoneUsed(u, z))
<1>2. IsFiniteSet(u) /\ u \cup {x} \in SUBSET Frame
  BY UsedCount
<1>3. Cardinality(u) \in Nat
  BY UsedCount
<1>4. Cardinality(u \cup {x}) <= Total
  BY <1>2, UsedCount
<1>5. Cardinality(u \cup {x}) = Cardinality(u) + 1
  BY <1>2, FS_AddElement
<1>6. ASSUME NEW z
      PROVE  /\ Cardinality(ZoneUsed(u, z)) \in Nat
             /\ Cardinality(ZoneUsed(u \cup {x}, z)) =
                  IF InZone(x, z) THEN Cardinality(ZoneUsed(u, z)) + 1
                                  ELSE Cardinality(ZoneUsed(u, z))
  <2>1. ZoneUsed(u, z) \in SUBSET u /\ x \notin ZoneUsed(u, z)
    BY DEF ZoneUsed
  <2>2. IsFiniteSet(ZoneUsed(u, z))
    BY <1>2, <2>1, FS_Subset
  <2>3. Cardinality(ZoneUsed(u, z)) \in Nat
    BY <2>2, FS_CardinalityType
  <2>4. CASE InZone(x, z)
    <3>1. ZoneUsed(u \cup {x}, z) = ZoneUsed(u, z) \cup {x}
      BY <2>4 DEF ZoneUsed
    <3>2. Cardinality(ZoneUsed(u, z) \cup {x}) = Cardinality(ZoneUsed(u, z)) + 1
      BY <2>1, <2>2, FS_AddElement
    <3> QED
      BY <2>3, <2>4, <3>1, <3>2
  <2>5. CASE ~InZone(x, z)
    <3>1. ZoneUsed(u \cup {x}, z) = ZoneUsed(u, z)
      BY <2>5 DEF ZoneUsed
    <3> QED
      BY <2>3, <2>5, <3>1
  <2> QED
    BY <2>4, <2>5
<1> QED
  BY <1>3, <1>4, <1>5, <1>6

(***************************************************************************)
(* The pages that page_fault() takes lie in the NORMAL zone alone.         *)
(***************************************************************************)
LEMMA NormalZone ==
  ASSUME NEW f \in Frame, NEW u, Normal(f, u), NEW z \in Zone
  PROVE  InZone(f, z) <=> z = "NORMAL"
<1>1. f \in Nat /\ NormalBase <= f /\ f < Limit("NORMAL") /\ Offered("NORMAL")
  BY NormalFrame
<1> QED
  BY <1>1, PagesAssumption DEF Zone, InZone, Offered, Zones, First, Limit, Last

(***************************************************************************)
(* The counters in the middle of a call: the zones count a page when it is *)
(* marked, free_pages when alloc_pages() returns (page.c:195, 305-309).    *)
(***************************************************************************)
CountInv ==
  /\ \A z \in Zone : usedpages[z] = Cardinality(ZoneUsed(used, z))
  /\ (\A t \in Thread : call[t].at # "mark") => free_pages = Total - Cardinality(used)
  /\ \A t \in Thread : call[t].at = "mark" =>
       free_pages = Total - Cardinality(used) + (call[t].i - call[t].chosen)

(***************************************************************************)
(* The kernel's own pages are counted at boot.                             *)
(***************************************************************************)
LEMMA InitCounts == Init => CountInv
<1> SUFFICES ASSUME Init PROVE CountInv
  OBVIOUS
<1> DEFINE a == 0 .. LowPages - 1
           b == KernelStart .. KernelStart + KernelPages + BitmapPages - 1
<1>1. /\ LowPages \in Nat /\ KernelStart \in Nat /\ KernelPages \in Nat \ {0}
      /\ BitmapPages \in Nat /\ LowPages # 0 /\ LowPages <= KernelStart
  BY PagesAssumption
<1>2. IsFiniteSet(a) /\ Cardinality(a) = LowPages
  <2>1. 0 \in Int /\ LowPages - 1 \in Int
    BY <1>1
  <2>2. /\ IsFiniteSet(0 .. LowPages - 1)
        /\ Cardinality(0 .. LowPages - 1) = IF 0 > LowPages - 1 THEN 0 ELSE (LowPages - 1) - 0 + 1
    BY <2>1, FS_Interval, Zenon
  <2> QED
    BY <1>1, <2>2
<1>3. IsFiniteSet(b) /\ Cardinality(b) = KernelPages + BitmapPages
  <2> DEFINE e == KernelStart + KernelPages + BitmapPages - 1
  <2>1. KernelStart \in Int /\ e \in Int
    BY <1>1
  <2>2. IsFiniteSet(KernelStart .. e)
        /\ Cardinality(KernelStart .. e) = IF KernelStart > e THEN 0 ELSE e - KernelStart + 1
    <3> HIDE DEF e
    <3> QED
      BY <2>1, FS_Interval, Zenon
  <2> QED
    BY <1>1, <2>2
<1>4. a \cap b = {}
  BY <1>1
<1>5. Reserved = a \cup b
  BY DEF Reserved
<1> HIDE DEF a, b
<1>6. Cardinality(a \cup b) = Cardinality(a) + Cardinality(b) - Cardinality(a \cap b)
  BY <1>2, <1>3, FS_Union
<1>7. Cardinality(a \cap b) = 0
  BY <1>4, FS_EmptySet
<1>8. Cardinality(used) = LowPages + KernelPages + BitmapPages
  BY <1>1, <1>2, <1>3, <1>5, <1>6, <1>7 DEF Init
<1>9. \A z \in Zone : usedpages[z] = Cardinality(ZoneUsed(used, z))
  BY DEF Init, ZoneUsed
<1>10. \A t \in Thread : call[t].at = "idle"
  BY DEF Init, Idle
<1> QED
  BY <1>8, <1>9, <1>10 DEF CountInv, Init

(***************************************************************************)
(* A step of alloc_pages() keeps the counters.                             *)
(***************************************************************************)
LEMMA AllocStepCounts ==
  ASSUME OneCaller, FrameInv, CountInv, NEW t \in Thread, AllocStep(t)
  PROVE  CountInv'
<1> DEFINE c == call[t]
<1>0. /\ c \in CallType /\ call \in [Thread -> CallType] /\ used \in SUBSET Frame
      /\ c.at = "mark" => MarkInv(c)
      /\ \A u \in Thread : u = t
  BY DEF FrameInv, TypesInv, TypeOK, CallInv, CallType, OneCaller
<1>1. CASE ScanFree(t) \/ ScanUsed(t) \/ OutOfMemory(t)
  <2>1. c.at = "scan" /\ call'[t].at # "mark" /\ UNCHANGED <<used, usedpages, free_pages>>
    BY <1>0, <1>1 DEF ScanFree, ScanUsed, OutOfMemory, Scanning, Idle, bitmap, CallType
  <2> QED
    BY <1>0, <2>1 DEF CountInv, ZoneUsed, InZone
<1>2. CASE Found(t)
  <2>1. /\ c.at = "scan" /\ call'[t].at = "mark" /\ call'[t].i = call'[t].chosen
        /\ call'[t].i \in Nat /\ UNCHANGED <<used, usedpages, free_pages>>
    BY <1>0, <1>2, PagesAssumption DEF Found, bitmap, CallType
  <2>2. free_pages = Total - Cardinality(used)
    BY <1>0, <2>1 DEF CountInv
  <2>3. Total - Cardinality(used) \in Int
    <3>1. free_pages \in Int
      BY PagesAssumption DEF FrameInv, TypesInv, TypeOK
    <3> QED
      BY <2>2, <3>1
  <2>4. free_pages' = (Total - Cardinality(used')) + (call'[t].i - call'[t].chosen)
    BY <2>1, <2>2, <2>3
  <2> QED
    BY <1>0, <2>1, <2>4 DEF CountInv, ZoneUsed, InZone
<1>3. CASE MarkPage(t)
  <2>1. /\ c.at = "mark" /\ MarkInv(c) /\ c.i < c.chosen + c.pages
        /\ call'[t].at = "mark" /\ call'[t].i = c.i + 1 /\ call'[t].chosen = c.chosen
        /\ used' = used \cup {c.i} /\ usedpages' = Marked(c.i) /\ UNCHANGED free_pages
    BY <1>0, <1>3 DEF MarkPage, CallType
  <2>2. c.i \in Frame /\ c.i \notin used /\ c.i \in Nat /\ c.chosen \in Nat
    <3>1. Limit(c.zone) \in Nat /\ Limit(c.zone) <= Total
      BY <1>0, <2>1, ZoneBounds DEF MarkInv, CallType
    <3>2. c.i \in Frame /\ c.i \in Nat /\ c.chosen \in Nat
      BY <1>0, <2>1, <3>1, PagesAssumption DEF CallType, MarkInv, Frame
    <3>3. c.i \in c.i .. c.chosen + c.pages - 1
      BY <1>0, <2>1, <3>2 DEF CallType
    <3>4. (c.i .. c.chosen + c.pages - 1) \cap used = {}
      BY <2>1 DEF FrameInv, FramesInv, ChosenInv
    <3> QED
      BY <3>2, <3>3, <3>4
  <2>3. /\ Cardinality(used) \in Nat /\ Cardinality(used') = Cardinality(used) + 1
        /\ \A z : /\ Cardinality(ZoneUsed(used, z)) \in Nat
                  /\ Cardinality(ZoneUsed(used', z)) =
                       IF InZone(c.i, z) THEN Cardinality(ZoneUsed(used, z)) + 1
                                         ELSE Cardinality(ZoneUsed(used, z))
    BY <1>0, <2>1, <2>2, AddFrame
  <2>4. \A z \in Zone : usedpages'[z] = Cardinality(ZoneUsed(used', z))
    BY <2>1, <2>3 DEF Marked, CountInv
  <2>5. free_pages' = (Total - Cardinality(used')) + (call'[t].i - call'[t].chosen)
    <3>1. free_pages = (Total - Cardinality(used)) + (c.i - c.chosen)
      BY <2>1 DEF CountInv
    <3> QED
      BY <2>1, <2>2, <2>3, <3>1, PagesAssumption
  <2> QED
    BY <1>0, <2>1, <2>4, <2>5 DEF CountInv, ZoneUsed, InZone
<1>4. CASE ReturnPages(t)
  <2>1. /\ c.at = "mark" /\ MarkInv(c) /\ c.i = c.chosen + c.pages
        /\ call'[t].at = "idle" /\ free_pages' = Minus(free_pages, c.pages)
        /\ UNCHANGED <<used, usedpages>>
    BY <1>0, <1>4 DEF ReturnPages, Idle, CallType
  <2>2. c.pages \in Nat /\ c.chosen \in Nat /\ Total \in Nat
    BY <1>0, PagesAssumption DEF CallType
  <2>3. free_pages = (Total - Cardinality(used)) + c.pages
    <3>1. free_pages = (Total - Cardinality(used)) + (c.i - c.chosen)
      BY <2>1 DEF CountInv
    <3> QED
      BY <2>1, <2>2, <3>1
  <2>4. Cardinality(used) \in Nat /\ Cardinality(used) <= Total
    BY <1>0, UsedCount
  <2>5. free_pages' = Total - Cardinality(used)
    BY <2>1, <2>2, <2>3, <2>4 DEF Minus
  <2> QED
    BY <1>0, <2>1, <2>5 DEF CountInv, ZoneUsed, InZone
<1> QED
  BY <1>1, <1>2, <1>3, <1>4 DEF AllocStep

(***************************************************************************)
(* So does the start of a call.                                            *)
(***************************************************************************)
LEMMA AllocPagesCounts ==
  ASSUME OneCaller, FrameInv, CountInv, NEW t \in Thread, NEW a \in Asks,
         AllocPages(t, a[1], a[2])
  PROVE  CountInv'
<1>1. /\ call[t].at = "idle" /\ call'[t].at = "scan" /\ UNCHANGED <<used, usedpages, free_pages>>
  BY DEF AllocPages, Idle, bitmap, FrameInv, TypesInv, TypeOK
<1> QED
  BY <1>1 DEF CountInv, ZoneUsed, InZone, OneCaller

(***************************************************************************)
(* And what page_fault() takes, one page or two different ones.            *)
(***************************************************************************)
LEMMA TakeOne ==
  ASSUME FrameInv, CountInv, UNCHANGED call,
         NEW f \in Frame, Normal(f, used), TakeNormal({f})
  PROVE  CountInv'
<1>1. /\ used \in SUBSET Frame /\ f \notin used /\ "NORMAL" \in Zone
      /\ usedpages \in [Zone -> Nat] /\ free_pages \in Nat /\ Total \in Nat
      /\ call \in [Thread -> CallType]
  BY NormalFrame, PagesAssumption DEF FrameInv, TypesInv, TypeOK, Zone, CallType
<1>2. /\ used' = used \cup {f} /\ usedpages' = [usedpages EXCEPT !["NORMAL"] = @ + 1]
      /\ free_pages' = Minus(free_pages, 1)
  <2>1. Cardinality({f}) = 1
    BY FS_Singleton
  <2> QED
    BY <2>1 DEF TakeNormal
<1>3. /\ Cardinality(used) \in Nat /\ Cardinality(used') = Cardinality(used) + 1
      /\ Cardinality(used') <= Total
      /\ \A z : /\ Cardinality(ZoneUsed(used, z)) \in Nat
                /\ Cardinality(ZoneUsed(used', z)) =
                     IF InZone(f, z) THEN Cardinality(ZoneUsed(used, z)) + 1
                                     ELSE Cardinality(ZoneUsed(used, z))
  BY <1>1, <1>2, AddFrame
<1>4. \A z \in Zone : usedpages'[z] = Cardinality(ZoneUsed(used', z))
  <2>1. \A z \in Zone : InZone(f, z) <=> z = "NORMAL"
    BY NormalZone
  <2> QED
    BY <1>1, <1>2, <1>3, <2>1 DEF CountInv
<1>5. \A m \in Nat : free_pages = (Total - Cardinality(used)) + m
                     => free_pages' = (Total - Cardinality(used')) + m
  BY <1>1, <1>2, <1>3 DEF Minus
<1>6. \A t \in Thread : call[t].at = "mark" =>
        free_pages' = (Total - Cardinality(used')) + (call[t].i - call[t].chosen)
  <2> SUFFICES ASSUME NEW t \in Thread, call[t].at = "mark"
               PROVE  free_pages' = (Total - Cardinality(used')) + (call[t].i - call[t].chosen)
    OBVIOUS
  <2>1. call[t].i - call[t].chosen \in Nat
    BY <1>1 DEF FrameInv, TypesInv, CallInv, MarkInv, CallType
  <2> QED
    BY <1>5, <2>1 DEF CountInv
<1>7. free_pages = Total - Cardinality(used) => free_pages' = Total - Cardinality(used')
  BY <1>1, <1>2, <1>3 DEF Minus
<1> QED
  BY <1>4, <1>6, <1>7 DEF CountInv, ZoneUsed, InZone

\* page_fault() takes two pages, for a table and for the page itself.
LEMMA TakeTwo ==
  ASSUME FrameInv, CountInv, UNCHANGED call,
         NEW f \in Frame, NEW g \in Frame, Normal(f, used), Normal(g, used \cup {f}),
         TakeNormal({f, g})
  PROVE  CountInv'
<1>1. /\ used \in SUBSET Frame /\ f \notin used /\ g \notin used \cup {f}
      /\ "NORMAL" \in Zone /\ used \cup {f} \in SUBSET Frame
      /\ usedpages \in [Zone -> Nat] /\ free_pages \in Nat /\ Total \in Nat
      /\ call \in [Thread -> CallType]
  BY NormalFrame, PagesAssumption DEF FrameInv, TypesInv, TypeOK, Zone, CallType
<1>2. /\ used' = (used \cup {f}) \cup {g}
      /\ usedpages' = [usedpages EXCEPT !["NORMAL"] = @ + 2]
      /\ free_pages' = Minus(free_pages, 2)
  <2>1. f # g
    BY <1>1
  <2>2. Cardinality({f, g}) = 2
    BY <2>1, OneOrTwo
  <2> QED
    BY <2>2 DEF TakeNormal
<1>3. /\ Cardinality(used) \in Nat
      /\ Cardinality(used \cup {f}) = Cardinality(used) + 1
      /\ \A z : /\ Cardinality(ZoneUsed(used, z)) \in Nat
                /\ Cardinality(ZoneUsed(used \cup {f}, z)) =
                     IF InZone(f, z) THEN Cardinality(ZoneUsed(used, z)) + 1
                                     ELSE Cardinality(ZoneUsed(used, z))
  BY <1>1, AddFrame
<1>4. /\ Cardinality(used') = Cardinality(used \cup {f}) + 1
      /\ Cardinality(used') <= Total
      /\ \A z : Cardinality(ZoneUsed(used', z)) =
                  IF InZone(g, z) THEN Cardinality(ZoneUsed(used \cup {f}, z)) + 1
                                  ELSE Cardinality(ZoneUsed(used \cup {f}, z))
  BY ZenonT(60), <1>1, <1>2, AddFrame
<1>5. \A z \in Zone : usedpages'[z] = Cardinality(ZoneUsed(used', z))
  <2>1. \A z \in Zone : (InZone(f, z) <=> z = "NORMAL") /\ (InZone(g, z) <=> z = "NORMAL")
    BY NormalZone
  <2>2. \A z \in Zone : usedpages'[z] = IF z = "NORMAL" THEN usedpages[z] + 2 ELSE usedpages[z]
    BY <1>1, <1>2
  <2>3. \A z \in Zone : usedpages[z] = Cardinality(ZoneUsed(used, z))
    BY DEF CountInv
  <2>4. \A z \in Zone : /\ Cardinality(ZoneUsed(used, z)) \in Nat
                          /\ Cardinality(ZoneUsed(used', z)) =
                               IF z = "NORMAL" THEN (Cardinality(ZoneUsed(used, z)) + 1) + 1
                                               ELSE Cardinality(ZoneUsed(used, z))
    BY <1>3, <1>4, <2>1
  <2> QED
    BY <2>2, <2>3, <2>4
<1>n. PICK k \in Nat : /\ k = Cardinality(used) /\ Cardinality(used') = k + 2
                      /\ k + 2 <= Total
  BY <1>3, <1>4
<1>6. \A m \in Nat : free_pages = (Total - Cardinality(used)) + m
                     => free_pages' = (Total - Cardinality(used')) + m
  BY <1>1, <1>2, <1>n DEF Minus
<1>7. \A t \in Thread : call[t].at = "mark" =>
        free_pages' = (Total - Cardinality(used')) + (call[t].i - call[t].chosen)
  <2> SUFFICES ASSUME NEW t \in Thread, call[t].at = "mark"
               PROVE  free_pages' = (Total - Cardinality(used')) + (call[t].i - call[t].chosen)
    OBVIOUS
  <2>1. call[t].i - call[t].chosen \in Nat
    BY <1>1 DEF FrameInv, TypesInv, CallInv, MarkInv, CallType
  <2> QED
    BY <1>6, <2>1 DEF CountInv
<1>8. free_pages = Total - Cardinality(used) => free_pages' = Total - Cardinality(used')
  BY <1>1, <1>2, <1>n DEF Minus
<1> QED
  BY <1>5, <1>7, <1>8 DEF CountInv, ZoneUsed, InZone

\* Steps that touch neither bitmap nor counters keep them equal.
LEMMA SameCounts ==
  ASSUME CountInv, UNCHANGED <<used, usedpages, free_pages, call>>
  PROVE  CountInv'
BY DEF CountInv, ZoneUsed, InZone

\* page_fault() counts each page it takes.
LEMMA PageFaultCounts ==
  ASSUME FrameInv, CountInv, NEW v \in VPage, PageFault(v)
  PROVE  CountInv'
<1>1. CASE FaultMap(v)
  BY <1>1, TakeOne DEF FaultMap
<1>2. CASE FaultNewTable(v)
  BY <1>2, TakeTwo DEF FaultNewTable
<1>3. CASE FaultNoFrame(v)
  BY <1>3, SameCounts DEF FaultNoFrame, bitmap
<1>4. CASE FaultHalt(v)
  BY <1>4, TakeOne, SameCounts DEF FaultHalt, bitmap
<1> QED
  BY <1>1, <1>2, <1>3, <1>4 DEF PageFault

(***************************************************************************)
(* Every step keeps the counters.                                          *)
(***************************************************************************)
LEMMA StepCounts ==
  ASSUME OneCaller, FrameInv, CountInv, [Next]_vars
  PROVE  CountInv'
<1>1. CASE UNCHANGED vars
  BY <1>1, SameCounts DEF vars, bitmap
<1> QED
  BY <1>1, AllocStepCounts, AllocPagesCounts, PageFaultCounts DEF Next

(***************************************************************************)
(* Between calls, free_pages and the zones' usedpages agree with the       *)
(* bitmap, whatever page_fault() took meanwhile.                           *)
(***************************************************************************)
THEOREM CountersRight ==
  ASSUME OneCaller, NotNormal
  PROVE  Spec => []CountersMatch
<1>1. FrameInv /\ CountInv /\ [Next]_vars => CountInv'
  BY StepCounts
<1>2. FrameInv /\ CountInv => CountersMatch
  BY DEF CountInv, CountersMatch, ZoneUsed
<1> QED
  BY InitFrames, InitCounts, FramesStep, <1>1, <1>2, PTL DEF Spec

-----------------------------------------------------------------------------
(***************************************************************************)
(* A call that has scanned up to page i has missed no run: every run of    *)
(* free pages left in the zone begins where its own last pir pages do, or  *)
(* behind them (page.c:282-299).                                           *)
(***************************************************************************)
NoneMissed(c, u) == \A r \in Runs(u, c.zone, c.pages) : c.i <= r + c.pir

ScannedInv == \A t \in Thread : call[t].at = "scan" => NoneMissed(call[t], used)

\* The calls of threads that have not moved stay as far as they are when others
\* take pages.
LEMMA FewerRuns ==
  ASSUME NEW u, NEW w, u \subseteq w, NEW c, NoneMissed(c, u)
  PROVE  NoneMissed(c, w)
BY DEF NoneMissed, Runs

(***************************************************************************)
(* used never loses a page, and only the call that moves changes.          *)
(***************************************************************************)
LEMMA OthersScanned ==
  ASSUME ScannedInv, TypesInv, used \subseteq used', NEW t \in Thread, NEW c,
         call' = [call EXCEPT ![t] = c], c.at = "scan" => NoneMissed(c, used')
  PROVE  ScannedInv'
<1> SUFFICES ASSUME NEW u \in Thread, call'[u].at = "scan" PROVE NoneMissed(call[u], used)'
  BY DEF ScannedInv
<1>1. SUFFICES NoneMissed(call'[u], used')
  BY DEF NoneMissed, Runs, Offered, Zones, Limit, Last, First, Pages, Frame
<1>2. CASE u = t
  BY <1>2 DEF TypesInv, TypeOK
<1>3. CASE u # t
  <2>1. call'[u] = call[u]
    BY <1>3 DEF TypesInv, TypeOK
  <2> QED
    BY <2>1, FewerRuns DEF ScannedInv
<1> QED
  BY <1>2, <1>3

\* Pages taken meanwhile add no run that a scan could have missed.
LEMMA SameScanned ==
  ASSUME ScannedInv, used \subseteq used', UNCHANGED call
  PROVE  ScannedInv'
<1> SUFFICES ASSUME NEW u \in Thread, call[u].at = "scan" PROVE NoneMissed(call[u], used)'
  BY DEF ScannedInv
<1>1. NoneMissed(call[u], used')
  BY FewerRuns DEF ScannedInv
<1> QED
  BY <1>1 DEF NoneMissed, Runs, Offered, Zones, Limit, Last, First, Pages, Frame

\* One step of the scan passes no run of free pages ...
LEMMA AllocStepScanned ==
  ASSUME TypesInv, ScannedInv, NEW t \in Thread, AllocStep(t)
  PROVE  ScannedInv'
<1> DEFINE c == call[t]
<1>0. /\ c \in CallType /\ call \in [Thread -> CallType]
      /\ c.at = "scan" => NoneMissed(c, used)
  BY DEF TypesInv, TypeOK, CallType, ScannedInv
<1>1. CASE ScanFree(t)
  <2> DEFINE d == [c EXCEPT !.pir = @ + 1, !.i = @ + 1,
                            !.chosen = IF c.pir = 0 THEN c.i ELSE @]
  <2>1. call' = [call EXCEPT ![t] = d] /\ used' = used /\ c.at = "scan"
    BY <1>0, <1>1 DEF ScanFree, Scanning, bitmap
  <2>2. d.zone = c.zone /\ d.pages = c.pages /\ d.pir = c.pir + 1 /\ d.i = c.i + 1
    BY <1>0 DEF CallType
  <2> HIDE DEF d
  <2>3. NoneMissed(d, used)
    <3> SUFFICES ASSUME NEW r \in Runs(used, c.zone, c.pages) PROVE d.i <= r + d.pir
      BY <2>2 DEF NoneMissed
    <3>1. c.i <= r + c.pir
      BY <1>0, <2>1 DEF NoneMissed
    <3> QED
      BY <1>0, <2>2, <3>1, PagesAssumption DEF CallType, Runs, Frame
  <2> QED
    BY <2>1, <2>3, OthersScanned
<1>2. CASE ScanUsed(t)
  <2> DEFINE d == [c EXCEPT !.pir = 0, !.i = @ + 1]
  <2>1. /\ call' = [call EXCEPT ![t] = d] /\ used' = used
        /\ c.at = "scan" /\ c.pir < c.pages /\ c.i \in used
    BY <1>0, <1>2 DEF ScanUsed, Scanning, bitmap
  <2>2. d.zone = c.zone /\ d.pages = c.pages /\ d.pir = 0 /\ d.i = c.i + 1
    BY <1>0 DEF CallType
  <2> HIDE DEF d
  <2>3. NoneMissed(d, used)
    <3> SUFFICES ASSUME NEW r \in Runs(used, c.zone, c.pages) PROVE d.i <= r + d.pir
      BY <2>2 DEF NoneMissed
    <3>1. c.i <= r + c.pir /\ Pages(r, c.pages) \cap used = {} /\ r \in Nat
      BY <1>0, <2>1, PagesAssumption DEF NoneMissed, Runs, Frame
    <3>2. c.i \in Nat /\ c.pir \in Nat /\ c.pages \in Nat
      BY <1>0, PagesAssumption DEF CallType
    <3>3. c.i \notin r .. r + c.pages - 1
      BY <2>1, <3>1 DEF Pages
    <3>4. c.i < r
      BY <2>1, <3>1, <3>2, <3>3
    <3> QED
      BY <2>2, <3>1, <3>2, <3>4
  <2> QED
    BY <2>1, <2>3, OthersScanned
<1>3. CASE OutOfMemory(t) \/ Found(t) \/ MarkPage(t) \/ ReturnPages(t)
  <2>1. used \subseteq used'
    BY <1>3 DEF OutOfMemory, Found, MarkPage, ReturnPages, bitmap
  <2>2. \E d : call' = [call EXCEPT ![t] = d] /\ d.at # "scan"
    <3>1. CASE OutOfMemory(t) \/ ReturnPages(t)
      BY <3>1 DEF OutOfMemory, ReturnPages, Idle
    <3>2. CASE Found(t)
      <4> DEFINE d == [c EXCEPT !.at = "mark", !.i = c.chosen]
      <4>1. call' = [call EXCEPT ![t] = d] /\ d.at = "mark"
        BY <1>0, <3>2 DEF Found, CallType
      <4> QED
        BY <4>1
    <3>3. CASE MarkPage(t)
      <4> DEFINE d == [c EXCEPT !.i = @ + 1]
      <4>1. call' = [call EXCEPT ![t] = d] /\ d.at = "mark"
        BY <1>0, <3>3 DEF MarkPage, CallType
      <4> QED
        BY <4>1
    <3> QED
      BY <1>3, <3>1, <3>2, <3>3
  <2> QED
    BY <2>1, <2>2, OthersScanned
<1> QED
  BY <1>1, <1>2, <1>3 DEF AllocStep

\* ... nor does its start ...
LEMMA AllocPagesScanned ==
  ASSUME TypesInv, ScannedInv, NEW t \in Thread, NEW a \in Asks, AllocPages(t, a[1], a[2])
  PROVE  ScannedInv'
<1> DEFINE d == [Idle EXCEPT !.at = "scan", !.zone = a[1], !.pages = a[2],
                             !.i = First(a[1])]
<1>1. call' = [call EXCEPT ![t] = d] /\ used' = used
  BY DEF AllocPages, bitmap
<1>2. d.i = First(a[1]) /\ d.pir = 0 /\ d.zone = a[1] /\ d.pages = a[2]
  BY DEF Idle
<1>3. First(a[1]) \in Nat
  BY ZoneBounds, PagesAssumption DEF AllocPages
<1> HIDE DEF d
<1>4. NoneMissed(d, used)
  BY <1>2, <1>3, PagesAssumption DEF NoneMissed, Runs, Frame
<1> QED
  BY <1>1, <1>4, OthersScanned

\* ... nor any other step.
LEMMA ScannedStep ==
  ASSUME TypesInv, ScannedInv, [Next]_vars
  PROVE  ScannedInv'
<1>1. CASE UNCHANGED vars
  BY <1>1, SameScanned DEF vars, bitmap
<1>2. ASSUME NEW v \in VPage, PageFault(v) PROVE ScannedInv'
  <2>1. used \subseteq used' /\ UNCHANGED call
    BY <1>2 DEF PageFault, FaultMap, FaultNewTable, FaultNoFrame, FaultHalt, TakeNormal, bitmap
  <2> QED
    BY <2>1, SameScanned
<1> QED
  BY <1>1, <1>2, AllocStepScanned, AllocPagesScanned DEF Next

(***************************************************************************)
(* A call that ends its scan has found the first run of free pages of its  *)
(* zone, or there is none, although page_fault() has marked pages since.   *)
(***************************************************************************)
LEMMA ScanEnds ==
  ASSUME FrameInv, ScannedInv, [Next]_vars, NEW t \in Thread, call[t].at = "scan"
  PROVE  /\ call'[t].at = "mark" =>
              Lowest(call[t].chosen, used, call[t].zone, call[t].pages)
         /\ call'[t].at = "idle" =>
              /\ Runs(used, call[t].zone, call[t].pages) = {}
              /\ UNCHANGED usedpages
<1> DEFINE c == call[t]
<1>0. /\ c \in CallType /\ call \in [Thread -> CallType] /\ c.pir <= c.pages
      /\ ScanInv(c) /\ NoneMissed(c, used)
  BY DEF FrameInv, TypesInv, TypeOK, CallInv, CallType, ScannedInv
<1>1. First(c.zone) \in Nat /\ Limit(c.zone) \in Nat /\ Limit(c.zone) <= Total
  BY <1>0, ZoneBounds DEF ScanInv, CallType
<1>2. CASE Found(t)
  <2>1. c.pir = c.pages /\ c.pages > 0 /\ c.pir > 0 /\ call'[t].at = "mark"
    BY <1>0, <1>2 DEF Found, ScanInv, CallType
  <2>2. /\ First(c.zone) <= c.chosen /\ c.chosen + c.pages = c.i /\ c.i <= Limit(c.zone)
        /\ Offered(c.zone) /\ c.chosen \in Nat /\ c.pages \in Nat /\ c.i \in Nat
    BY <1>0, <2>1, PagesAssumption DEF ScanInv, CallType
  <2>3. Pages(c.chosen, c.pages) \cap used = {}
    BY <2>1 DEF FrameInv, FramesInv, ChosenInv
  <2>4. c.chosen \in Runs(used, c.zone, c.pages)
    BY <1>1, <2>1, <2>2, <2>3, PagesAssumption DEF Runs, Frame
  <2>5. \A r \in Runs(used, c.zone, c.pages) : c.chosen <= r
    BY <1>0, <2>1, <2>2, PagesAssumption DEF NoneMissed, Runs, Frame
  <2> QED
    BY <2>1, <2>4, <2>5 DEF Lowest
<1>3. CASE OutOfMemory(t)
  <2>1. c.pir < c.pages /\ ~(c.i < Limit(c.zone)) /\ call'[t].at = "idle" /\ UNCHANGED usedpages
    BY <1>0, <1>3 DEF OutOfMemory, Scanning, Idle, bitmap, CallType
  <2>2. \A r \in Runs(used, c.zone, c.pages) : FALSE
    BY <1>0, <1>1, <2>1, PagesAssumption DEF NoneMissed, Runs, Frame, CallType
  <2> QED
    BY <2>1, <2>2
<1>4. CASE ScanFree(t) \/ ScanUsed(t)
  BY <1>0, <1>4 DEF ScanFree, ScanUsed, CallType
<1>5. ASSUME NEW u \in Thread, u # t, AllocStep(u) PROVE UNCHANGED call[t]
  BY <1>0, <1>5 DEF AllocStep, ScanFree, ScanUsed, OutOfMemory, Found, MarkPage, ReturnPages
<1>6. ASSUME NEW u \in Thread, NEW a \in Asks, AllocPages(u, a[1], a[2]) PROVE UNCHANGED call[t]
  <2>1. u # t
    BY <1>6 DEF AllocPages, Idle
  <2> QED
    BY <1>0, <1>6, <2>1 DEF AllocPages
<1>7. ASSUME NEW v \in VPage, PageFault(v) PROVE UNCHANGED call[t]
  BY <1>7 DEF PageFault, FaultMap, FaultNewTable, FaultNoFrame, FaultHalt
<1>8. CASE UNCHANGED call[t]
  BY <1>8
<1>9. ~MarkPage(t) /\ ~ReturnPages(t)
  BY DEF MarkPage, ReturnPages
<1>10. CASE UNCHANGED vars
  BY <1>8, <1>10 DEF vars
<1> QED
  BY <1>2, <1>3, <1>4, <1>5, <1>6, <1>7, <1>8, <1>9, <1>10 DEF Next, AllocStep

(***************************************************************************)
(* alloc_pages() finds the first run of free pages if there is one.        *)
(***************************************************************************)
THEOREM AllocFindsFirst ==
  ASSUME OneCaller, NotNormal
  PROVE  Spec => AllocFindsRun
<1>1. Init => ScannedInv
  BY DEF Init, ScannedInv, Idle
<1>2. FrameInv /\ ScannedInv /\ [Next]_vars => ScannedInv'
  BY ScannedStep DEF FrameInv
<1>3. FrameInv /\ ScannedInv /\ [Next]_vars =>
        \A t \in Thread :
          call[t].at = "scan" =>
            /\ call'[t].at = "mark" =>
                 Lowest(call[t].chosen, used, call[t].zone, call[t].pages)
            /\ call'[t].at = "idle" =>
                 Runs(used, call[t].zone, call[t].pages) = {}
  BY ScanEnds
<1> QED
  BY InitFrames, FramesStep, <1>1, <1>2, <1>3, PTL DEF Spec, AllocFindsRun

-----------------------------------------------------------------------------
(***************************************************************************)
(* The kernel and its bitmap lie below the last page of the DMA zone, and  *)
(* the machine has that zone in full: 16 MB of memory.                     *)
(***************************************************************************)
FullDmaZone ==
  KernelStart + KernelPages + BitmapPages < NormalBase /\ NormalBase <= Total

\* Nobody takes the end_page of a zone.
EndsFree == \A z \in Zones : Last(z) \notin used

(***************************************************************************)
(* A page that alloc_pages() looks at is no zone's end_page.               *)
(***************************************************************************)
LEMMA NotAnEnd ==
  ASSUME FullDmaZone, NEW z \in Zone, Offered(z),
         NEW p \in Nat, First(z) <= p, p < Limit(z), NEW y \in Zones
  PROVE  p # Last(y)
BY PagesAssumption DEF FullDmaZone, Zone, Offered, Zones, First, Limit, Last

\* No step takes the last page of a zone.
LEMMA EndsStep ==
  ASSUME FullDmaZone, FrameInv, EndsFree, [Next]_vars
  PROVE  EndsFree'
<1>1. ASSUME NEW F, used' = used \cup F, \A f \in F : \A y \in Zones : f # Last(y)
      PROVE  EndsFree'
  BY <1>1 DEF EndsFree, Zones, Last
<1>2. CASE used' = used
  BY <1>2 DEF EndsFree, Zones, Last
<1>3. ASSUME NEW f \in Frame, NEW u, Normal(f, u) PROVE \A y \in Zones : f # Last(y)
  <2>1. f \in Nat /\ First("NORMAL") <= f /\ f < Limit("NORMAL") /\ Offered("NORMAL")
    BY <1>3, NormalFrame DEF First
  <2> QED
    BY <2>1, NotAnEnd DEF Zone
<1>4. ASSUME NEW t \in Thread, MarkPage(t) PROVE EndsFree'
  <2> DEFINE c == call[t]
  <2>1. MarkInv(c) /\ c \in CallType /\ c.i < c.chosen + c.pages /\ used' = used \cup {c.i}
    BY <1>4 DEF MarkPage, FrameInv, TypesInv, TypeOK, CallInv, CallType
  <2>2. /\ c.zone \in Zone /\ Offered(c.zone) /\ c.i \in Nat
        /\ First(c.zone) \in Nat /\ Limit(c.zone) \in Nat
    BY <2>1, ZoneBounds, PagesAssumption DEF MarkInv, CallType
  <2>3. First(c.zone) <= c.i /\ c.i < Limit(c.zone)
    BY <2>1, <2>2, PagesAssumption DEF MarkInv, CallType
  <2>4. \A y \in Zones : c.i # Last(y)
    BY <2>2, <2>3, NotAnEnd
  <2>5. PICK F : F = {c.i}
    OBVIOUS
  <2>6. used' = used \cup F /\ \A f \in F : \A y \in Zones : f # Last(y)
    BY <2>1, <2>4, <2>5
  <2> QED
    BY <1>1, <2>6
<1>5. ASSUME NEW t \in Thread, AllocStep(t) PROVE EndsFree'
  BY <1>2, <1>4, <1>5
  DEF AllocStep, ScanFree, ScanUsed, OutOfMemory, Found, ReturnPages, bitmap
<1>6. ASSUME NEW t \in Thread, NEW a \in Asks, AllocPages(t, a[1], a[2]) PROVE EndsFree'
  BY <1>2, <1>6 DEF AllocPages, bitmap
<1>7. ASSUME NEW v \in VPage, PageFault(v) PROVE EndsFree'
  <2>1. CASE used' = used
    BY <1>2, <2>1
  <2>2. CASE \E f \in Frame : Normal(f, used) /\ TakeNormal({f})
    BY <1>1, <1>3, <2>2 DEF TakeNormal
  <2>3. CASE \E f, g \in Frame :
               Normal(f, used) /\ Normal(g, used \cup {f}) /\ TakeNormal({f, g})
    BY <1>1, <1>3, <2>3 DEF TakeNormal
  <2> QED
    BY <1>7, <2>1, <2>2, <2>3
    DEF PageFault, FaultMap, FaultNewTable, FaultNoFrame, FaultHalt, bitmap
<1> QED
  BY <1>2, <1>5, <1>6, <1>7 DEF Next, vars, bitmap

(***************************************************************************)
(* A zone without a free page has all its pages but the end_page used.     *)
(***************************************************************************)
LEMMA EmptyZone ==
  ASSUME FullDmaZone, FrameInv, EndsFree, NEW z \in Zone, Offered(z), Runs(used, z, 1) = {}
  PROVE  Cardinality(ZoneUsed(used, z)) = Last(z) - First(z)
<1>1. /\ First(z) \in Nat /\ Last(z) \in Nat /\ First(z) <= Last(z) /\ z \in Zones
      /\ Limit(z) = Last(z) /\ Last(z) <= Total
  <2> USE PagesAssumption DEF FullDmaZone, Offered, First, Limit, Last
  <2>1. CASE z = "DMA"
    BY <2>1 DEF Zones, Zone
  <2>2. CASE z = "NORMAL"
    BY <2>2 DEF Zones, Zone
  <2>3. CASE z = "HIGHMEM"
    BY <2>3 DEF Zones
  <2> QED
    BY <2>1, <2>2, <2>3 DEF Zone
<1>2. used \subseteq Frame
  BY DEF FrameInv, TypesInv, TypeOK
<1>3. \A p \in First(z) .. Last(z) - 1 : p \in used
  <2> SUFFICES ASSUME NEW p \in First(z) .. Last(z) - 1, p \notin used PROVE FALSE
    OBVIOUS
  <2>1. p \in Frame /\ p \in Nat /\ p + 1 <= Limit(z) /\ First(z) <= p
    BY <1>1, PagesAssumption DEF Frame
  <2>2. Pages(p, 1) \cap used = {}
    BY <2>1 DEF Pages
  <2> QED
    BY <2>1, <2>2 DEF Runs
<1>4. ZoneUsed(used, z) = First(z) .. Last(z) - 1
  <2>1. Last(z) \notin used
    BY <1>1 DEF EndsFree
  <2>2. \A p \in Frame : p \in Nat
    BY PagesAssumption DEF Frame
  <2>3. \A p \in Nat : First(z) <= p /\ p <= Last(z) /\ p # Last(z)
                         <=> p \in First(z) .. Last(z) - 1
    BY <1>1
  <2>4. \A p \in First(z) .. Last(z) - 1 : p \in Nat
    BY <1>1
  <2> QED
    BY <1>1, <1>2, <1>3, <2>1, <2>2, <2>3, <2>4 DEF ZoneUsed, InZone
<1>5. Cardinality(First(z) .. Last(z) - 1) = Last(z) - First(z)
  <2>1. First(z) \in Int /\ Last(z) - 1 \in Int
    BY <1>1
  <2>2. Cardinality(First(z) .. Last(z) - 1) =
          IF First(z) > Last(z) - 1 THEN 0 ELSE (Last(z) - 1) - First(z) + 1
    BY <2>1, FS_Interval, Zenon
  <2> QED
    BY <1>1, <2>2
<1> QED
  BY <1>4, <1>5

(***************************************************************************)
(* When alloc_pages() finds not one page left in a zone, the zone counts   *)
(* as many as testing/test_alloc_pages.c:20 expects.                       *)
(***************************************************************************)
THEOREM EmptyZonesCount ==
  ASSUME OneCaller, NotNormal, FullDmaZone
  PROVE  Spec => EmptyZoneCounts
<1>1. Init => ScannedInv /\ EndsFree
  <2> SUFFICES ASSUME Init PROVE ScannedInv /\ EndsFree
    OBVIOUS
  <2>1. ScannedInv
    BY DEF Init, ScannedInv, Idle
  <2>2. EndsFree
    BY PagesAssumption DEF Init, EndsFree, Reserved, FullDmaZone, Zones, Last, Zone
  <2> QED
    BY <2>1, <2>2
<1>2. FrameInv /\ CountInv /\ ScannedInv /\ EndsFree /\ [Next]_vars
        => CountInv' /\ ScannedInv' /\ EndsFree'
  <2> SUFFICES ASSUME FrameInv, CountInv, ScannedInv, EndsFree, [Next]_vars
               PROVE  CountInv' /\ ScannedInv' /\ EndsFree'
    OBVIOUS
  <2>1. ScannedInv' /\ EndsFree'
    BY ScannedStep, EndsStep DEF FrameInv
  <2>2. CountInv'
    BY StepCounts
  <2> QED
    BY <2>1, <2>2
<1>3. FrameInv /\ CountInv /\ ScannedInv /\ EndsFree /\ [Next]_vars =>
        \A t \in Thread :
          call[t].at = "scan" /\ call[t].pages = 1 /\ call'[t].at = "idle" =>
            usedpages[call[t].zone] = Last(call[t].zone) - First(call[t].zone)
  <2> SUFFICES ASSUME FrameInv, CountInv, ScannedInv, EndsFree, [Next]_vars, NEW t \in Thread,
                      call[t].at = "scan", call[t].pages = 1, call'[t].at = "idle"
               PROVE  usedpages[call[t].zone] = Last(call[t].zone) - First(call[t].zone)
    OBVIOUS
  <2>1. Runs(used, call[t].zone, 1) = {}
    BY ScanEnds
  <2>2. call[t].zone \in Zone /\ Offered(call[t].zone)
    BY DEF FrameInv, TypesInv, TypeOK, CallInv, ScanInv
  <2>3. usedpages[call[t].zone] = Cardinality(ZoneUsed(used, call[t].zone))
    BY <2>2 DEF CountInv
  <2> QED
    BY <2>1, <2>2, <2>3, EmptyZone
<1> QED
  BY InitFrames, InitCounts, FramesStep, <1>1, <1>2, <1>3, PTL DEF Spec, EmptyZoneCounts

=============================================================================
