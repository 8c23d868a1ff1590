------------------------------- MODULE Console -------------------------------
(***************************************************************************)
(* The core process of main.c up to its last loop, with what it prints of  *)
(* its drives: init_devices() and register_device() of drv/devmgr.c,       *)
(* init_floppy() of drv/block/floppy/floppy.c, do_printf() (module Printf) *)
(* and tty_putc() (module Terminal), while key presses make press() of     *)
(* cpu/pic.c print in between with interrupts disabled.                    *)
(***************************************************************************)
EXTENDS Printf, Terminal

CONSTANTS
  CmosBytes,   \* what the CMOS register 0x10 may hold: a drive type per nibble
  Note,        \* what core() says of its progress
  BrkMax, PageSize,   \* k_sysmem.brk_max and k_sysmem.page_size
  TypeNames,   \* floppydev_types: a text for each drive type
  KeyText,     \* what ps() or dump_heap_stats() print at a key press
  Presses,     \* bound: key presses that print
  Mixing       \* whether a key press may fall between statements of tty_putc()

ASSUME ConsoleAssumption ==
  /\ BrkMax \in 0 .. LongMod - 1 /\ PageSize \in Nat \ {0}
  /\ CmosBytes \subseteq 0 .. 255 /\ Presses \in Nat /\ Mixing \in BOOLEAN
  \* The table has five entries; a larger type reads beyond it.
  /\ TypeNames \in [0 .. 4 -> Seq(Char)]
  /\ Note \in Seq(Char) /\ KeyText \subseteq Seq(Char)
  /\ {"f", "D", ":"} \cup {LowDigits[i] : i \in DOMAIN LowDigits} \subseteq Char
  /\ \A b \in CmosBytes : b \div 16 \in 0 .. 4 /\ b % 16 \in 0 .. 4

VARIABLES
  tty,       \* the terminal
  todo,      \* characters of the current kprintf() not yet handed to tty_putc()
  at,        \* the next statement of tty_putc(), 0 between two calls
  core,      \* where the core process is
  cmos,      \* the byte in the CMOS
  k_devs,    \* the device list, first to last
  this,      \* foreachdevice(): the element it comes to next
  presses,   \* key presses so far
  stream     \* history: the calls of tty_putc() in order, with their caller

vars == <<tty, todo, at, core, cmos, k_devs, this, presses, stream>>

Calls(who, text) == [i \in DOMAIN text |-> [who |-> who, c |-> text[i]]]

DEV_FLOPPY_MAJOR == 0
FloppyFmt == <<"D", ":", "%", "s", "%", "d", "%", "s", NL>>
TempFmt   == <<"%", "x", NL>>

\* Faulty variant: the second drive takes the place of the first.
Mutregister_device(minor, type) ==
  k_devs' = <<[major |-> DEV_FLOPPY_MAJOR, minor |-> minor, name |-> <<"f", Digits[minor + 1]>>,
               type |-> type, typestr |-> TypeNames[type]]>>

\* register_device(): list_add() puts the device at the head of the list.
register_device(minor, type) ==
  k_devs' = <<[major |-> DEV_FLOPPY_MAJOR, minor |-> minor, name |-> <<"f", Digits[minor + 1]>>,
               type |-> type, typestr |-> TypeNames[type]]>> \o k_devs
\* dump_floppies()
FloppyLine(dev) == kprintf(FloppyFmt, <<dev.name, dev.type, dev.typestr>>)

\* The core process is in its own code, not in kprintf().
Core(l) == core = l /\ todo = <<>>
CoreGoes(l) == core' = l /\ UNCHANGED <<tty, at, cmos, presses, stream>>

\* The core process calls kprintf() with this text.
Says(l, m, text) == Core(l) /\ CoreGoes(m) /\ todo' = text /\ UNCHANGED <<k_devs, this>>

Starting  == Says("start", "manager", Note)
Manager   == Says("manager", "init_devices", Note)
Detecting == Says("detect", "floppy0", Note)
InitDevices == /\ Core("init_devices") /\ CoreGoes("detect")
               /\ k_devs' = <<>> /\ UNCHANGED <<todo, this>>
\* Faulty variant: a drive of type 0 is registered, too.
MutDetect(drive, type, l, m) ==
  /\ Core(l) /\ CoreGoes(m)
  /\ register_device(drive, type)
  /\ UNCHANGED <<todo, this>>

\* init_floppy(): a drive per nibble, the upper one first, if its type is not 0.
Detect(drive, type, l, m) ==
  /\ Core(l) /\ CoreGoes(m)
  /\ IF type # 0 THEN register_device(drive, type) ELSE UNCHANGED k_devs
  /\ UNCHANGED <<todo, this>>
Floppy0 == Detect(0, cmos \div 16, "floppy0", "floppy1")
Floppy1 == Detect(1, cmos % 16, "floppy1", "foreach")
\* foreachdevice(DEV_FLOPPY_MAJOR, &dump_floppies)
ForEach == /\ Core("foreach") /\ this <= Len(k_devs)
           /\ todo' = IF k_devs[this].major = DEV_FLOPPY_MAJOR
                        THEN FloppyLine(k_devs[this]) ELSE <<>>
           /\ this' = this + 1
           /\ CoreGoes("foreach") /\ UNCHANGED k_devs
\* floppy_io() takes a page (module Pages) nobody uses; the two lines of map_temp().
FloppyIo == this > Len(k_devs) /\ Says("foreach", "map_temp", kprintf(TempFmt, <<BrkMax>>))
MapTemp  == Says("map_temp", "loop", kprintf(TempFmt, <<(BrkMax - PageSize) % LongMod>>))
\* The loop at the end of core().
Loop == Core("loop") /\ UNCHANGED vars

\* The core process calls tty_putc(), and executes its statements.
Putc == /\ todo # <<>> /\ at = 0
        /\ at' = 1 /\ stream' = stream \o Calls("core", <<Head(todo)>>)
        /\ UNCHANGED <<tty, todo, core, cmos, k_devs, this, presses>>
PutcStatement ==
  /\ at > 0
  /\ tty' = Statement(Statements[at], Head(todo), tty)
  /\ IF at < Len(Statements) THEN at' = at + 1 /\ UNCHANGED todo
     ELSE at' = 0 /\ todo' = Tail(todo)
  /\ UNCHANGED <<core, cmos, k_devs, this, presses, stream>>

\* press() in an interrupt: a whole kprintf() with interrupts disabled.
KeyPress ==
  /\ presses < Presses /\ (Mixing \/ at = 0)
  /\ presses' = presses + 1
  /\ \E text \in KeyText : tty' = tty_write(tty, text) /\ stream' = stream \o Calls("press", text)
  /\ UNCHANGED <<todo, at, core, cmos, k_devs, this>>

Init == /\ tty = Cleared /\ todo = <<>> /\ at = 0
        /\ core = "start" /\ cmos \in CmosBytes
        /\ k_devs = <<>> /\ this = 1
        /\ presses = 0 /\ stream = <<>>

Next == \/ Starting \/ Manager \/ InitDevices \/ Detecting \/ Floppy0 \/ Floppy1
        \/ ForEach \/ FloppyIo \/ MapTemp \/ Loop
        \/ Putc \/ PutcStatement \/ KeyPress

Spec == Init /\ [][Next]_vars
=============================================================================
