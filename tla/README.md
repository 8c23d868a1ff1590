# LineOS07 in TLA+

A verification project for LineOS07, a small 32-bit x86 kernel: a preemptive
scheduler with kernel processes, a heap, a page allocator, a text terminal and
the beginnings of a device layer. This directory holds TLA+ modules that model
its core, TLC configurations that check them on small instances, and proofs
that TLAPS checks for every value of the constants. Paths below are relative to
`src/`.

## 1. Inventory

The kernel runs on one CPU, all in ring 0, in one address space. `main()`
initialises the parts in order with interrupts disabled, enables preemption and
interrupts, creates the core process and spins until the first tick takes the
CPU away from it for ever. From then on all code is kernel processes and the
interrupt handlers that preempt them. There are no locks in the code that is
built: everything that must be atomic has to be made so with `disable_ints()`,
and only `process_expire()` does that.

| component | state | operations | correctness |
|---|---|---|---|
| **Scheduler** `process/process.c`, `switchto.asm`, `include/process.h`, `include/ds/list.h` | `k_proclist` (circular list, `current`, `count`, `pidcnt`, `kernel_preempt`); per process `state`, `ticks`, `timeout`, `pid`, `parent`, saved stack | `create_process`, `process_sleep`, `process_expire`, `process_end`, `schedule`, `update_timeouts`, `select_next_process`, `give_ticks`, `switchTo` | one running process, the one on the CPU; sleepers wake when their timeout runs out and not before; rounds are fair, nobody starves; the list stays a list under preemption; the search for a process terminates |
| **Interrupt delivery** `cpu/irq.asm`, `cpu/isr.asm`, `cpu/handler.c`, `cpu/pic.c`, `cpu/timer.c`, `cpu/interrupt.c`, `cpu/cpu.c` | EFLAGS.IF, the PIC's in-service lines, the frames on the stacks | interrupt entry, handler call, end of interrupt, `iret`; `enable_ints`, `disable_ints` | whichever thread `schedule()` switches to, no line stays in service while interrupts are enabled, handlers do not nest, and every thread gets back the registers and the stack it had |
| **Boot thread** `main.c`, `start.asm` | its place in `main()` | initialisation, first `create_process` | it hands over to the core process |
| **Heap** `mm/heap.c`, `include/heap.h` | `k_heap` (base, break), `k_malloc_chain` (chain, two counters), the headers in memory | `kmalloc`, `kfree`, `kbrk`, `ksbrk` | live blocks never overlap, no memory is lost, the counters agree with the chain |
| **Page allocator and paging** `cpu/page.c`, `lib/ds/bitmap.c` | bitmap, zones, `free_pages`, page directory and tables | `init_page_allocator`, `alloc_pages`, `__map_page`, `__unmap_page`, `page_fault` | no frame is given out twice, the counters agree with the bitmap, zone bounds are respected, a fault maps a frame of its own |
| **Mutex** `process/mutex.c` (not built) | `owner`, `state` | `mutex_init`, `mutex_lock`, `mutex_wait` | one owner |
| **Process ids** `process/pid.c` (not built) | none | `get_pid`, `get_ppid` | the parent exists |
| **Terminal** `lib/tty/` | screen, cursor, colour | `tty_putc`, `tty_scrollup`, `tty_gotoxy`, `tty_setcursor` | the screen shows every character that was printed, once and in order; no store leaves the screen; the hardware cursor is where the next character goes |
| **Formatted output** `lib/stdio/` | none | `do_printf` | number conversion, widths, flags |
| **Devices** `drv/` | `k_devs` list | `register_device`, `foreachdevice`, `init_floppy` | every drive is reported once, with its own type; type index within its table |
| **Heap checker** `mm/heapchecker.c`, **library and ports** `lib/stdlib`, `lib/string`, `cpu/portio.c`, `cpu/cpuid.c` | none | straight-line code | |

Interactions: every handler is entered through `irq_common_stub`; the timer
handler and the key press handler (scan code 0x48) call `schedule()`;
`process_sleep()` and `process_end()` reach it through `process_expire()` with
interrupts disabled. `create_process()`, `process_end()` and
`register_device()` call the heap; heap memory is backed by frames that
`page_fault()` takes from the page allocator; every part prints through the
terminal. The state of each part is global, and the only thing that keeps two
users apart is the interrupt flag.

What is hard here is thus preemption between any two statements, the two ways
into `schedule()` (with and without an interrupt frame), a sleeping process
that still runs, a scheduler that may loop with interrupts disabled, and error
paths that print and go on. `PROJECT.json` lists every such hazard with its
line and with the properties that cover it.

## 2. Plan

Done, in this order:

1. `Scheduler`: the scheduler, the interrupts and the boot thread, and
   `RoundRobin`, the abstract specification it implements.
2. `Heap`: `kmalloc` and `kfree` under preemption, and `Allocator`, the abstract
   specification it implements.
3. `Pages`: bitmap, zones, `alloc_pages` under preemption, `page_fault` with
   `__map_page` and its second use of the allocator.
4. `Frames`: gates, stubs, handlers and `switchTo()`, word by word on the stacks.
5. `Printf`, a pure algorithm, `Terminal`, the statements of `tty_putc()`, and
   `Console`, which composes both with the device list, the floppy driver and
   the core process.
6. The proofs, in the order of section 6: types and single safety invariants
   first, then the run queue and the refinement of `RoundRobin`
   (`SchedulerProofs`), the heap's chain, the counters and the scan of the
   pages, the stacks (`FramesProofs`), `do_printf()` (`PrintfProofs`) and the
   console (`ConsoleProofs`).

Every invariant and action property of a passing run is a theorem; the two
liveness properties stay with TLC (end of section 6).

## 3. Modules

| module | models |
|---|---|
| `Scheduler` | state and actions of the scheduler, the interrupts, the boot thread |
| `SchedulerProperties` | what it should keep |
| `RoundRobin` | abstract: how a CPU is shared, with a queue instead of links and without interrupts |
| `MCScheduler` | TLC instances (symmetry) |
| `SchedulerProofs` | theorems that hold for a damaged list too, theorems about the run queue while list operations do not overlap, and the refinement of `RoundRobin` |
| `Induction` | induction and iteration over the natural numbers, as facts about sets |
| `Folding` | what `FoldLeft` computes, for any operator |
| `Heap`, `HeapProperties`, `MCHeap`, `HeapProofs` | the same for the heap |
| `Allocator` | abstract: extents given out and released |
| `Pages`, `PagesProperties`, `MCPages`, `PagesProofs` | the same for the page allocator and paging |
| `Frames`, `FramesProperties`, `MCFrames`, `FramesProofs` | traps and context switches on the stacks |
| `Printf`, `Terminal` | `do_printf()` and `tty_putc()`, as operators |
| `Console`, `ConsoleProperties`, `MCConsole` | the core process, the devices and `press()`, printing through both |
| `PrintfProofs`, `ConsoleProofs` | theorems about `do_printf()`, and about the screen and the devices |

Definitions named `Mut...` are faulty variants of the definition that follows
them; nothing uses them in the specifications. They record which mistake each
property catches.

### Scheduler

*Threads.* `Proc` is the set of blocks `kmalloc()` may return for a
`process_t`; a process is its block, and a block that was freed may be handed
out again, as in the code. `None` is NULL, and as the value of `current` it
means that the boot thread runs. `pc[t]` is the statement thread `t` executes
next; `"user"` is its program, between calls. What a program calls is a
constant per process: `Spawners` call `create_process()`, `Sleepers`
`process_sleep()`, `Enders` `process_end()`.

*Atomicity.* While interrupts are enabled, one action is one statement, or one
store of a list operation: the timer falls between any two. The stores into a
node no one else can reach yet are one action (`LinkNode`), and so are
`kmalloc()` and `memset()` in `create_process()` (`AllocProcess`): the heap
under preemption is the subject of `Heap`. `pidcnt++` is a load and a store,
because its old value is needed. The two loads of `list_del()` are one step
(`ReadLinks`), so a neighbour that ends between them is not seen as a separate
case. `count++` and `++` on other counters are one
instruction. `schedule()` always runs with interrupts disabled, so it is one
step; its five ways through are `ScheduleOff`, `ScheduleLost`, `ScheduleKeep`,
`ScheduleSpins` and `ScheduleSwitch` with the helpers of the same names as in
the code (`update_timeouts` is `Timeouts` and `Woken`, `give_ticks` is
`Refilled`, `select_next_process` is `Candidates` and `Selected`).

*The list* is kept as its `next` and `prev` pointers, so an interleaved list
operation damages it the way it does in memory. `Walk` is `list_for_each`. A
walk that circles or meets NULL puts the thread in `"lost"`: what the code does
then is not followed further. A store through NULL changes nothing that is
modelled.

*Interrupts.* `Interrupt(i)` is entry and handler up to and including
`schedule()`; `IrqReturn` is the end of interrupt of `irq_handler()` and `iret`
on the stack of whichever process runs then. `inIrq` records the frame that
waits on a stack, `savedIF` the flag `switchTo()` will restore, `isr` the
lines in service. A non-specific end of interrupt ends the highest of them.

*The abstract scheduler.* `RoundRobin` has a queue, a mode and a credit per
process and the process that runs. `SchedulerProperties` maps the list to the
queue (`Queue`: the walk up to the head), `state` to the mode and `ticks` to
the credit; a process is in the queue from the store that publishes it
(`Publish`) to the one that unlinks it (`Unlink`). A process joins with the
credit its creator has given it by then, a slice or nothing. What a creator writes into a
block whose process has already ended is no step of the abstraction:
`SharesRoundRobin` says that such writes disturb nobody's share.

### Heap

An address is a number. The chain is kept as links (`first`, `next`), the
headers as `blocks`, `size` and `state`, the locals of each call in `bytes`,
`ptr`, `node` and `end`. One action is one stretch up to the next access to
shared state that matters: search, test of the break, store of the break, new
header, split, the two stores of `list_add()`, used flag. The search is one
step. `u32` sums wrap. `sb->state=0x0` in the branch that grows the heap goes
through NULL, so the state byte of a new block is left as the memory was: any
bits. A panic prints, waits for one interrupt and returns, and the call goes
on: `BrkPanic`. The model follows that call to its end and stops there, so the
heap configurations do not check deadlock.

`held` is a history variable: what each caller was given and has not freed.
Callers free only what they hold. What a program writes into its bytes is not
modelled. `Allocator` keeps `held` and nothing else of this: `Mark` is its
`Give`, `Kfree` its `Release`, and the panic that returns its `Fail`, after
which nothing is promised.

### Pages

A page frame is its number, and the bitmap the set `used`. `alloc_pages()` runs
with interrupts enabled, so its loop is one step per page it looks at
(`ScanFree`, `ScanUsed`), and `__mark_pages_used()` one step per page it marks
(`MarkPage`); the return with the subtraction from `free_pages` is
`ReturnPages`, and the return of NULL `OutOfMemory`. Zero pages, and a zone that
does not exist or lies above the memory, return at once and change nothing.
Callers ask for one zone at a time, as all do.

`page_fault()` is entered through an interrupt gate and does not enable
interrupts, so with `alloc_pages()`, `__map_page()` and the `alloc_pages()` for
a new table it is one step, with four ways through: the table exists
(`FaultMap`), it does not (`FaultNewTable`), there is no page and the address 0
is mapped (`FaultNoFrame`), there is none for the table and `panic()` executes
its `hlt` with interrupts disabled, which nothing ends (`FaultHalt`).

`pde` and `pte` hold the tables and the pages above the end of the kernel that
may fault; `KernelTable` is the directory entry `start.asm` has filled in. What
the boot code maps (the first 4 MB at address 0, and the kernel) is not part of
`pte`. `held` is a history variable: the runs `alloc_pages()` has returned;
nothing in the code gives a page back. In the code as it is, one process calls
`alloc_pages()`, for a DMA page (`floppy_io()`), and page faults take NORMAL
pages.

### Frames

A stack is the sequence of its words, so `esp` is its length; a word is a
triple of owner, what it is and a number, so that a word that lands in the
wrong register is seen. A trap pushes what the CPU pushes, what the stub
pushes for its vector (`IsrWords`, `IrqWords`) and the registers (`SaveList`);
`TrapReturn` pops `RestoreList`. `SwitchTo` pushes `PushList`, stores `esp` if
there is a current process, reads its argument 15 words up and pops
`SwitchList` from the other stack, which may hold a frame of `NewFrame`
instead. The handlers are steps between which a page fault may fall where the
code can touch an unmapped page: in a program, and in the `memcpy()` of
`press()`. An exception prints and loops for ever (`FaultHalts`). Which process
`schedule()` selects, and whether the running one has ticks left, is open:
`Scheduler` decides it. The immediate return (`StillTicks`) is taken from an
interrupt only; from `process_expire()` it leads where a switch of a process to
itself leads. `kept` and `trap` are history variables: what each
thread's own code left in its registers and on its stack, and the registers at
the last trap.

### Printf, Terminal, Console

`do_printf()` is a fold of `Scan` over the characters of the format; its states
and the way they fall through are `Flag`, `Width`, `Modifier` and `Convert`. A
number is a word of `LongMod` values, kept unsigned as in the code.
`tty_putc()` is the sequence `Statements`, each a function on the record that
holds cursor, screen and CRTC registers, those of `tty_setcursor()` last; that
of the backspace is one statement, as are the wrap at the end of a row and the
test of the row with the scroll and `tty_y--`: with `Mixing` the code has a few
more interleavings than the model. `Char`
is the type of a character: what the texts of the kernel are made of. `Console` runs `core()`: its
notes, `init_devices()`, the two drives `init_floppy()` finds in the CMOS byte,
`foreachdevice()`, `floppy_io()` with the two lines of `map_temp()`, and the
loop. Its texts are shortened to a few characters. `press()` prints whole
texts with interrupts disabled, between two calls of `tty_putc()` or, with
`Mixing`, between any two of its statements.

## 4. Runs

| run | instance | shows |
|---|---|---|
| `churn` | two blocks, core spawns a process that sleeps 0, 1 or 2 and ends, timer and key, slice 2 | all safety properties of the scheduler, its two action properties, the refinement of `RoundRobin`, and the invariant `QueueIntact` the proofs use |
| `chaos` | three blocks, two of them symmetric enders, core spawns | what holds even after the list is damaged or the CPU is stuck |
| `sleepers` | three processes, two of which, core among them, sleep 2 ticks, fairness | no starvation, and every sleep ends unless all sleep at once |
| `sleep_race`, `end_race` | two or three blocks | a comment of `process.c` the code does not keep (see findings) |
| `heap_seq` | one thread, 15 bytes of heap, header 2, requests of 1, 2 and 5 bytes | all properties of the heap, the refinement of `Allocator`, and the invariant the proof uses |
| `heap_break` | two threads | a comment of `heap.c` the code does not keep |
| `pages` | one thread that asks for 1, 2 or 3 DMA pages, ten pages of memory, two tables of two entries that fault | all properties of the page allocator, and the invariant the proof uses |
| `frames` | two processes, the lines 0, 1 and 7, the exceptions 0 and 13, two points of a program | all properties of the frames, and the invariant `StacksIntact` the proof uses |
| `console` | a screen of 4 by 3, words of 16 bits, four CMOS bytes, two key presses between calls | all properties of the console, and of `do_printf()` on 3024 conversions of numbers, and on a conversion after each of 5758 texts |
| `putc_race`, `cursor` | the same, key presses anywhere, or none | a comment of `tty.c` the code does not keep |

*Bounds.* `Slice` is 1 or 2 instead of 100: what matters is the tick that is
counted, the tick that ends the slice, and a round in which one process has
ticks left and another has none. `Word`, the modulus of `timeout`, is larger
than every sleep, so that a wrapped timeout differs from one that was asked
for. `PidWord` is small because pids are only compared. `CountCap` stops
`count` (which the code never decrements, and only compares with 0) at a
bound, so the state space is finite. Two blocks are enough for a process that
is created, ends and is created again in the same block while its creator is
preempted; three for two processes that end at a time next to each other in
the list, and for a refill in which the order of the list matters. In the heap
15 bytes hold four blocks with their headers, leave leftovers below, at and
above the limit of a split, and exhaust; `MinSplit` is 1 instead of 8, and
`Hdr` 2. The ten pages of `pages` have the layout of the machine: reserved low
memory, a free page, the kernel with the bitmap behind it, three free pages and
the one that is never looked at in the DMA zone (so a call meets runs that are
too short, that fit and that end at the zone's end), and a NORMAL zone of two
pages, fewer than the four virtual pages and the new table ask for: faults
meet both ways of running out. There is no HIGHMEM zone, as with the 32 MB of
`init_paging()`; a request for it is among `Asks` and starts nothing. In
`frames` line 0 always reaches `schedule()`, line 1 may, and line 7 has no
handler; vector 0 comes without an error code and vector 13 with one; two
processes make every pair of frames meet: a new one, one switched inside an
interrupt, one switched in `process_expire()`. `StackBounded` is exact: 40
words are reached. On the screen of `console` a line of a drive is longer than
a row, and the text longer than the screen, so it wraps and scrolls, by a full
row, by a newline and by both at once; the key texts begin or end a line, or
step back across the left edge. The words of `do_printf()` are the ends of the
signed and unsigned ranges and the numbers at which digits are gained. The
texts (`MCTexts`) are all those of up to four characters out of percent sign,
flags, a digit, a modifier, a conversion and a letter that is none, once with
numbers and once with strings as arguments, and those of up to three with the
modifiers and conversions that are not done: every way out of every state of
the scanner is among them.

*What the instances exclude, and why.* In `churn` only one process at a time
can be inside a list operation: core creates, and there is no second block to
create before the process in it has ended. `ListIntact` and `EndNeverReturns`
hold then; `end_race` shows that with a second process that ends they do not.
`NoHang` needs a process that never sleeps, as `core()` is, which spins for
ever; in `sleepers` all may sleep, and `SleepReturns` then says that a call
returns or the scheduler hangs in `select_next_process()`. `console` keeps key
presses out of `tty_putc()`; `putc_race` shows why. The CMOS byte holds types
up to 4, for which the table of names has entries. `FormatsAsDocumented` has
neither the modifier `h` nor the conversion `c`, on which the compiled code
stops (section 5), and `ConversionsStandAlone` leaves out what follows a text
that met one of them. No format of the kernel has one.

*Fairness* (only in `sleepers`). Strong fairness of the timer
interrupt: the PIT free-runs and the PIC latches its request, so interrupts
that are enabled again and again cannot put it off for ever. Weak fairness of
the return from an interrupt, and strong fairness of the statements of a call:
a thread that keeps getting the CPU makes progress between the ticks. No
program is assumed to make a call. `ReadyRuns` holds for a fixed number of
processes; it would not if each new process created another before the round
ends, since new processes get fresh ticks.

## 5. Findings

Each is a violation run whose property quotes a comment of the code; the
counterexample is a sequence of steps of the code's operations. The kernel as it
is built starts no process but core, so `sleep_race`, `end_race` and
`heap_break`, which take several processes, are about the operations it offers
them; `putc_race` takes core and a key, and `cursor` core alone.

* `sleep_race`: a slice that ends between the two assignments of
  `process_sleep()` decrements timeout 0 to 2^32 - 1.
* `end_race`: two neighbours that end at a time leave a freed process on the
  run queue.
* `heap_break`: two `kmalloc()` calls at a time get memory above the break.
* `putc_race`: a key press that prints inside `tty_putc()` moves the cursor
  past the row that is tested for, and text is stored behind the screen from
  then on.
* `cursor`: the hardware cursor stands at column * 80 + row. In the run the
  first character is a newline: the next one goes to the start of row 1, and the
  hardware cursor is on cell 1, column 1 of row 0.

Also in the models, without a run of their own:

* `count` is never decremented, so when the last process has ended `schedule()`
  does not return, as process.c:362 says, but loops with interrupts disabled
  (`ScheduleSpins`).
* When every process sleeps, it loops in the same way, and no timeout is
  counted again; `SleepReturns` names this as the only way not to wake.
* A process may end before `create_process()` has returned to its creator,
  which then writes into, and returns the pid from, a freed block.
* `panic()` returns after one `hlt`: a `kmalloc()` that cannot raise the break
  returns a block that overlaps another (`BrkPanic`), which `Allocator` allows
  only once it has failed.
* The head comment of `do_printf()` lists the modifier `h` and the conversion `c`
  as done (doprintf.c:44, 38), but the code fetches their arguments as `short`,
  `unsigned short` and `unsigned char` (176, 178, 220), types that are promoted
  when passed. This is undefined, and gcc, with which the kernel is built, warns
  of it and puts a trap there, which is what `trapped` records. The other
  conversions and modifiers listed as done never set it (`FormatsAsDocumented`).

## 6. Proofs

From `SchedulerAssumption` alone, for any number of processes, any slice and
any programs, damaged list included (first part of `SchedulerProofs`):

* `TypeCorrect`: `Spec => []TypeOK`. It is inductive as it stands because it
  says that a thread inside `create_process()` has a block, and because
  `HasTicks` guards the decrement of `ticks`.
* `OneRunning`: `Spec => []RunningIsCurrent`. Only `ScheduleSwitch` makes a
  process running, and it has released the old one; the invariant needs
  `TypeOK` and nothing about the list.
* `InterruptsOrdered`: `Spec => []InterruptDiscipline`. Its four conjuncts are
  inductive together: that a line in service has its frame on the current
  stack is what makes the end of interrupt of `schedule()` and that of
  `irq_handler()` add up.
* `RoundsAreFair`: `Spec => NewRoundWhenUsedUp`, an action property, from
  `TypeOK`.

From `SchedulerAssumption` and the hypothesis `[]OneListOp`, that never two
threads are inside a list operation (`SchedulerProofs`, too). Nothing in the code
enforces it; `end_race` shows what happens otherwise, and in `churn` it holds
because only core creates:

* `QueueHolds`: `Spec /\ []OneListOp => []QueueIntact`. The inductive
  invariant is that some sequence of processes is the queue (`IsQueue`): every
  link leads on and every back link back, but for the ones that
  `list_add_tail()` or `list_del()` of the one call in progress has already
  changed (`Forward`, `Backward`, `Adding`, `Removing`); which blocks are on the
  list, and which one each call holds (`Blocks`, `Threads`); which states and
  calls go with having the CPU (`OnCpu`); how far the boot thread has come
  (`Booted`). Each action has a lemma that names the new queue: the old one, the
  old one with a block at its end, or the old one without one.
* `ListStaysIntact`, `EndIsFinal`, `ProgramsRun` and `SleepersWakeOnTime`
  follow: `[]ListIntact`, `[]EndNeverReturns`, `[]ProgramIsRunning` and the
  action property `WakesOnTimeout`. `Walk`, the recursive function behind the
  list, is reasoned about by induction over its steps (`Induction`).
* `NeverHangs`: `Spec /\ []OneListOp => []NoHang`, provided that the core
  process neither sleeps nor ends: it is then always on the queue with
  something that `select_next_process()` accepts, now or after a refill. Without
  this proviso it is false, as every process may sleep.
* `SharesCpu`: under the same hypotheses
  `Spec => SharesRoundRobin`. The refinement mapping is the one above; step by
  step, `Publish` is the `Join` of the abstraction, `Unlink` its `Leave`, the
  ways through `schedule()` its tick and its switch, and everything else
  stutters.

From `HeapAssumption` (`HeapProofs`):

* `HeapTypeCorrect`: `Spec => []TypeOK` for any set of threads: whatever
  interleaves, the chain leads to headers only.
* `HeapInvHolds` and `HeapSafe`: with one thread (`OneThread`) and no request so
  large that it wraps the address space (`NoWrap`), `Spec => []HeapInv`, and
  from it `Spec => []HeapSound`. `HeapSound` is not inductive: `HeapInv` adds how
  far the call has come, that the new break leaves room for the new block
  (`Room`), that the chosen block is large enough and nobody's (`Chosen`), and
  that each block has one holder (`Owned`). Without one thread it is false, as
  `heap_break` shows.
* `HeapImplementsAllocator`: under the same two assumptions
  `Spec => ImplementsAllocator`. Every step but `Mark`, `Kfree` and the panic
  leaves `held` alone; that the block `Mark` gives is apart from all others
  (`MarkGives`) is what `HeapInv` says of the chosen block.
* `HeapLosesNothing` and `HeapCountsAgree`: under the same two assumptions
  `Spec => []NothingLost` and `Spec => []CountersAgree`. The inductive invariant
  `LossInv` says, unless the break has panicked, that every block ends where the
  next one begins or at the break (`Tiled`), that the chain is a sequence of all
  headers without repetition, but for the one a call is about to push, of
  length `total_blocks` (`IsChain`, `Hung`), and that `used_blocks` counts the
  used blocks but for the one a call has chosen and not yet counted (`Busy`).

From `PagesAssumption` (`PagesProofs`), for any size of memory, zones, kernel,
tables and requests:

* `PagesTypeCorrect`: `Spec => []TypeOK` for any set of threads. That no call
  marks a page outside the bitmap or counts past what it was asked for needs
  `CallInv`, how far each call has come.
* `FramesInvHolds` and `FramesSafe`: with one thread (`OneCaller`) that asks for
  no NORMAL pages (`NotNormal`), `Spec => []FramesInv`, and from it
  `Spec => []FramesOnce`. The inductive invariant `FramesInv`
  adds that the pages a call has seen free stay free although page faults come
  in between, since those take pages of another zone (`ChosenInv`), and that
  every page someone has is marked (`Taken \subseteq used`). A page fault
  needs the second `alloc_pages()` to see the mark of the first. Without
  `OneCaller` two calls may find the same page; without `NotNormal` a fault may
  take the page a call has found.
* `CountersRight`: under the same two assumptions `Spec => []CountersMatch`. In
  the middle of a call the zones already count the pages it has marked and
  `free_pages` does not (`CountInv`).
* `AllocFindsFirst`: under the same two assumptions `Spec => AllocFindsRun`, an
  action property. The scan has missed no run so far (`ScannedInv`): a run of
  free pages left in the zone begins no earlier than the run the scan is in.
* `EmptyZonesCount`: `Spec => EmptyZoneCounts`, an action property, if also the
  kernel and its bitmap lie below the last page of the DMA zone and the machine
  has that zone in full (`FullDmaZone`, 16 MB). It rests on `ScannedInv` and on
  nobody ever taking the last page of a zone (`EndsFree`); a kernel that reached
  that page would mark it.

From `FramesAssumption` alone, for any number of processes, any of the vectors
and lines, any number of points of a program (`FramesProofs`):

* `StacksStayIntact`: `Spec => []StacksIntact`. None of the properties of the
  frames is inductive: that a thread gets its registers back depends on every
  word below the frame it is in. `StacksIntact` says where a thread can be: in
  its own code, or in one of the three places of `process_expire()`
  (`Leftover`), or interrupted there, with one frame and the calls of a handler
  on top (`InTrap`), with a second frame of a page fault in `press()`
  (`InInner`), or inside `schedule()` called by itself (`InExpire`). This is the
  shape of the running thread (`Shape`), and every other one has it below a
  frame of `switchTo()` (`Waiting`), or has the frame of
  `setup_kernel_process()`. The inductive invariant is `StacksIntact` with the
  types, `StackBounded` and `FrameReadable`.
* The lemmas say that what is popped undoes what was pushed: `SwitchList`
  against `PushList`, `RestoreList` against what the CPU, the stubs with and
  without an error code and `SaveList` push, and `NewFrame` against
  `SwitchList`. Then one lemma per action shows which shape follows which.
* `Undisturbed`, `FramesReadable`, `FramesWait`, `StacksBounded`,
  `ProgramsInterruptible` and `Typing`: `ThreadsUndisturbed`, `FrameReadable`,
  `FrameWaits`, `StackBounded`, `ProgramsAreInterruptible` and `TypeOK`.

From `PrintfAssumption` and `FormatsAssumption` (`PrintfProofs`): an unsigned
long has no more than 32 bits and can count to ten, and widths and words are
values it has.

* `PrintfFormats`: `Spec => []FormatsAsDocumented`, for every field width and
  every word, not just those of the run, with the modifiers none, `N` and `l`; `h` and
  the conversion `c` stop the compiled code (section 5). The property speaks of no variable but
  `stream`, so there is no invariant to find; what is proved is that three
  computations agree with a definition that has none of their shape:
  * the loop that writes digits from the right end of the buffer against
    `Numeral`, which says what each digit is and takes the number of digits from
    the powers of the radix (`NumDigitsNumeral`). `NumDigits` is a recursive
    function; that it exists on all of its domain, and that a numeral is that
    of the quotient by the radix with a last digit, are the inductive facts. Below
    2^32 a numeral has at most 16 digits, octal ones too;
  * `EMIT` against the three cases of a padded field (`FieldShape`), and
    `DO_NUM` against the signed value, the most negative word included
    (`ValueIs`, `NumberExpected`);
  * the scanner, by what each character does to its state: the minus, the
    zero, the width, whose digits it must read back to the number they were
    printed from (`ScanDigits`), the modifier (`MinusScan`, `ZeroScan`,
    `WidthScan`, `ModifierScan`, together `BeforeScan`), and the letter.
    `EndScan` runs it on through the rest of the format.
* `ConversionsApart`: `Spec => []ConversionsStandAlone`, for all texts, of any
  length, with any arguments. The invariant of the scanner is `Clean`: while it
  waits for the next percent sign there is no flag and no width. Every character
  keeps it, on each of the ways through the states (`ScanClean`); a text is
  clean by induction over its characters (`TextClean`), and from a clean state a
  conversion prints what it prints alone, behind what was printed
  (`PlainScan`, `PlainAlone`).

From `TerminalAssumption`, `ConsoleAssumption` and those two (`ConsoleProofs`),
for any size of screen, any texts and limits, and any number of key presses:

* `ConsoleTypes`: `Spec => []TypeOK`, by `Typed`, which adds that the texts not
  yet printed are characters and that devices are walked only once all are
  registered. What `do_printf()` prints for a device is a text because of the
  lemmas above.
* `ConsoleScreen` and `ConsoleStores`: `Spec => []ScreenShowsStream` and
  `Spec => []StoresOnScreen` if key presses print only between two calls of
  `tty_putc()` (`~Mixing`). Nothing in the code enforces it, and without it
  `putc_race` shows a store that leaves the screen. The first holds between two
  calls only, so the inductive invariant `Drawn` also speaks of the inside of a
  call: the terminal is one that depicted what was printed before the call, after the statements up
  to the present one (`Midway`). `PutcDraws` says that a whole call takes a
  terminal that depicts a sheet (`Depicts`: the window on the sheet is on the
  screen, and the cursor is where the next character goes) to one that depicts
  the sheet with the character on it; behind it are the backspace, the wrap and
  the scroll, in arithmetic of rows and columns. `StoresOnScreen` holds between
  any two statements.
* `ConsoleDrives`: `Spec => []DrivesReported`, with key presses anywhere. The
  inductive invariant `Told` says that the device list holds the drives
  detected so far, and that what the core process has printed, with what it is
  still to print of this text, is what it has said up to here. That each line
  is the name, type and type name of its drive is a proof about `do_printf()`
  once more, with arguments of three kinds.

`Induction` derives induction from the fact that `<` is well founded, as a
statement about sets and not about formulas, so that the values of recursive
functions (the walks along the list and the chain, the digits of a number) can
be reasoned about. `Folding` does the same for `FoldLeft`, with the operator it
folds as a constant: a module that folds with an operator of its own, `Scan` or
`tty_putc` or `Write`, takes the facts by `INSTANCE Folding WITH Op <- ...`.
They say that the values of a fold are a chain along the prefixes of the
sequence, what one element more or a second sequence adds, and that what every
step keeps holds of the result.

Only model-checked: liveness (`ReadyRuns`, `SleepReturns`), since fairness and
ENABLED are out of the prover's reach.

## 7. Not modelled

The mutex is not built, has no caller and no function that unlocks, so there is
no protocol to check; process ids are two getters that are not built either.
Left out: the programming of PIC, PIT and GDT and the boot code of `start.asm`
(port and register writes that happen once, with interrupts disabled), the
texts of `ps()` and the other printers, `tty_gotoxy()`, `tty_setcolor()`,
`tty_setup()` and `dump_devices()`, which nobody calls, CPU detection, string
functions, the heap checker, which sleeps and walks the chain in search of a
wrong magic number and whose spawn is commented out (main.c:115), the
user-space experiments in `local/`, and `testproc.c`, which is built but whose
two processes nobody creates.
Weaknesses of code that nothing reaches are not listed as hazards: two waiters
may both leave `mutex_wait()`, which re-enables preemption (mutex.c:40);
`get_ppid()` follows a parent that may be NULL or freed (pid.c:26); `kfree()` of
a free block counts twice (heap.c:159); `kmalloc()` of nearly 2^32 bytes wraps
(heap.c:84); the stub of vector 17, which only ring 3 raises, pushes an error
code the CPU also pushes (isr.asm:198); a format that ends in `%` makes
`do_printf()` read past its end (doprintf.c:84); characters from 0x80 up are
ignored although doprintf.c:7 says they display (tty.c:73). A process preempted
between `list_del()` and `kfree()` leaks its block (process.c:156), and
timeouts count calls of `schedule()`, not ticks (process.c:308).
Inside the scheduler: names, stacks and register contents of a process; inside
the heap: the flags argument, which `kmalloc()` ignores, and `map_temp()`,
which only prints (see `Console`); inside the pages: contents of frames, flags of the entries,
the TLB, and what the programs read and write.
