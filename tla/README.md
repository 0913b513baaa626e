# puppybits: a TLA+ model

puppybits is a set of bare-metal programs for the BeagleBoard (OMAP3, ARM
Cortex-A8): a small library (`src/lib`), start-up code (`src/boot`), and demos
that grow from a blinking led to a kernel with pre-emptive tasks, signals and
lazily switched floating point registers (`src/src/*`).  There is no operating
system, no heap and no file: the state is in global structures, in device
registers and in the processor, and what makes the code hard is that interrupts,
faults and system calls rearrange it under the feet of running tasks.

This directory models the parts with logic of their own, checks them with TLC on
small instances, and proves with TLAPS, for every instance, nearly all of the safety
properties that TLC checks: those of the lists, of both kernels and of the demo's
tasks, of interrupt disabling and of the scrolling picture, of the i2c bus and the
audio port, of drawing, of the waves and of the page tables; and that the lists and
the signal kernel implement their specifications.

## 1. Inventory

| component | state | operations | what could be wrong |
|---|---|---|---|
| exec lists, `lib/lists.c` | `Head`, `Tail`, `TailPred` of each header; `Succ`, `Pred` of each node | `NewList AddHead AddTail Remove RemHead EmptyList` | one of two chains broken after a long sequence of calls; the overlaid header word overwritten; two tests for "empty" that disagree |
| AVL tree, `lib/avl.c` | child links, parent word with three balance bits | `Insert Move Replace Remove Find FindNext FindPrev First Last Next Prev` | a parent word missed in a rotation; factors that are not height differences; null pointers at the root |
| ipc-signal kernel, `src/ipc-signal/ipc-signal.c`, `context.S` | `thistask`, `fptask`, three lists, the task structures, `sp_irq`, the fpu's enable bit | vsync interrupt, undefined instruction, `AllocSignal FreeSignal Signal Wait` | context saved into the wrong task; a task on two lists; lost wakeup; another task's fpu registers; starvation; an empty ready list |
| ipc-signal tasks, same file | their loop counters and totals | `task1` .. `task4` | totals that part because of a task switch; a listener that sleeps for ever |
| irq-context, irq-timer, irq-context-fp | as the kernel, without signals | timer or vsync interrupt, faults | as the kernel; the timer's acknowledgement |
| interrupts, `lib/interrupts.c`, `exceptions.S` | `irq_depth`, the processor's mask, the controller's masks, the vector table | `irq_disable irq_enable irq_set_mask irq_set_handler`, interrupt entry and exit, fatal dump | a handler inside a nested critical section; handlers called without an event |
| i2c bus, `lib/bus_i2c.c` | the controller's status bits, position in the buffer | `bus_i2c_read`, `bus_i2c_write` | a restarted transfer with another effect; a timeout nobody is told of |
| mmu, `lib/mmu-simple.c`, `boot/start-kernel.S` | the page tables | `mmu_simple_init`, `_start` | section rounding, wrapping ends, bank arithmetic; tables shared or used up |
| gpio, `lib/gpio.c` | bank registers | direction, set, get, request, free | bank and bit arithmetic; what `omap_free_gpio` resets |
| video and graphics, `lib/video.c`, `graphics.c` | display registers and their shadows, rastports | set a mode, attach a frame buffer, draw | frames made of two settings; memory outside the bitmap |
| irq-scroll | `line`, `dir`, `hidden` | vsync handler, main loop | the flag shared with the handler; stores the display sees half of |
| audio-beep | the port's fifos, codec registers, oscillators | set-up over i2c, polled send and receive | swapped channels, an empty fifo read, a port that never gets going again, clicks |
| debug, debugmon | the line being typed, the dump | line input, numbers in and out, the monitor | line editing at the edges, numbers that read back as others |
| crashdump (host tool) | symbol table | annotate a dump | search at the edges |
| render-rect, `fill-565*.S` | a random box | nine ways to fill it | the two ends of a row at every alignment |
| small library routines, start-up, other demos | - | straight-line code, timing, pure I/O | - |

How they interact: the kernels keep their tasks on exec lists and are entered
from the vectors they install themselves; they use `interrupts.c` to install the
display handler and to enable interrupts; drawing and serial output are plain
calls with no return into the kernel.  Nothing in the repository uses the AVL
tree.  irq-scroll shares `interrupts.c`, the display driver and its flag between
main and a handler.  audio-beep drives the i2c bus, whose chip is the clock of the
serial port it then uses.  The other parts are called from one main loop and share
nothing with anyone.

PROJECT.json lists the components with what is and is not modelled, and the
hazards of the code with their lines.

## 2. Modules

    NodeSeqs       operators: what the list calls do to a sequence of nodes
    Loops          operator: a loop of the code, as so many rounds of a function
    NodeLists      specification: what lists.h promises
    ExecLists      lists.c, word by word; implements NodeLists
    TaskMachine    specification: every task has a processor of its own
    IpcSignal      the kernel; implements TaskMachine
    IrqContext     the three demos before it, with their interrupt handlers divided
    IpcTasks       the four tasks of the demo, on IpcSignal
    AvlTree        avl.c
    Interrupts     interrupts.c and the interrupt entry, in front of one device
    Display        video.c: registers with shadows, as sequences of instructions
    IrqScroll      irq-scroll, on Interrupts and Display
    I2cBus         bus_i2c.c, with the controller and a chip that may refuse
    AudioBeep      audio-beep's set-up, and the words it sends, on I2cBus
    Waves          the notes and the sweep that these words are
    Graphics       graphics.c: what memory the drawing calls write
    Fills          render-rect's ways to fill a box, on Graphics
    MemoryMap      mmu-simple.c
    BootMap        start-kernel.S
    Monitor        debugmon.c on debug.c
    Library        ExecLists, Interrupts, Fills, Waves, MemoryMap, BootMap and
                   Monitor side by side: one behaviour runs one of them
    CommonProofs      lemmas on sequences without repetitions, loops and induction
    AvlTreeProofs     theorems about AvlTree
    IpcSignalProofs   theorems about IpcSignal
    IpcTasksProofs    theorems about IpcTasks
    IrqContextProofs  theorems about IrqContext
    IrqScrollProofs   theorems about Interrupts and IrqScroll
    AudioBeepProofs   theorems about I2cBus and AudioBeep
    LibraryProofs     theorems about ExecLists, Graphics, Fills, Waves, MemoryMap,
                      BootMap and Monitor
    MC*               instances for TLC

**ExecLists** models memory: `mem[a]` is the address in the word at address `a`,
and each function is its stores, in their order.  The C code overlays a node on
the two ends of a list header, so the word `Tail` is at once the `Pred` of one
overlay and the `Succ` of the other; the model keeps that.  `order` is a history
variable with the sequences the callers asked for; the refinement to `NodeLists`
is the identity on `order` and `ret`.  Clients are assumed to keep the bargain
every caller in the repository keeps: add a node that is on no list, remove a
node that is on one.

**IpcSignal** uses sequences for the three lists, which ExecLists justifies.
Interrupts are masked from the entry to the kernel until `rfedb`, so an entry
with everything the C handler does is one action, and the interleaving is that of
user instructions with the vsync interrupt:

| action | code |
|---|---|
| `Vsync` | `irq_entry`, `dispc_handler`, `ex_context_exit` |
| `TaskError` | `uni_entry` (not a VFP encoding) or `svc_entry` (number > 3), `task_error_handler` |
| `FpTrap`, `BadVfpInsn` | `uni_entry` on a VFP encoding: the fpu is given to the interrupted task and the instruction is executed again |
| `FpOp` | a floating point instruction with the fpu enabled: any new contents |
| `AllocSignal`, `FreeSignal` | the low vectors, which return like functions |
| `SignalNoted`, `SignalWakes` | `svc_Signal` without and with a wakeup |
| `WaitReturns`, `WaitSleeps` | `svc_Wait` with a signal already there, and without |

Of the integer registers only `r0` is kept: it carries every argument and result,
and it is what the exit path of a high vector overwrites.  `"dead"` stands for a
value the task does not use again.  The fpu bank (d0-d31 and FPSCR) is one value.
Three conditions are put on the environment: the task structures are set up as
`main` does it (the first task is the code in `main` itself), a task of `Steady`
never waits nor faults (the kernel has no idle task; `task4` plays that part),
and device interrupts other than vsync stay disabled.

**TaskMachine** is what a task's author relies on: no ready list, no current
task, no fpu owner; a task's registers change by its own instructions, and `r0`
by the return of its own `Wait`.  The mapping reads the registers of the current
task (of the fpu's owner) from the processor and the others from their tcb.  Its
`WaitReturns` leaves open which part of the mask is returned, because the
kernel's result there is not the one its comment announces (section 4).

**IpcTasks** gives each task a program counter.  The floats are assumed to live in
registers between the addition and the comparison, the worst case for the kernel.
Drawing calls nothing in the kernel, so it is just the time in which interrupts
come.

**IrqContext** is the kernel without system calls, as irq-context, irq-timer and
irq-context-fp have it; `demo` says which of them runs.  What IpcSignal's `Vsync`
does in one step is here `irq_entry`, `ReadStatus`, `Turn`, `ClearStatus` and
`irq_exit`, and between them the device may set its status bits (`Raise`): the
processor is masked, the device is not.  irq-timer clears every bit and the
display handlers those they have read.  `raised` is a history variable: an event
has come since the last turn.  A task may put any value in its registers, and the
kernel leaves `Junk` in the live ones.  The test of the enabled bit in the handler
has no other branch in the model: that bit is the only cause of the interrupt.
In irq-context and irq-timer an undefined instruction ends the program in the
fatal dump of the library; their tasks have none.

**AvlTree** compares stored factors as the C macros do: three bits, never
negative.  Mirror images (`Link[0]` and `Link[1]`) are one definition with the
side as parameter.  A use of a null pointer sets `fault`, and the model stops: on
this hardware it would read or write the boot ROM's address range.  Fields of a
node that left the tree are forgotten, as every operation that puts it back
writes them all first.  A loop up or down the tree is a function that does one round,
applied (`Loop`) as many times as there are nodes; a round after the end of the loop
changes nothing.

**Interrupts** divides `irq_disable` after the instruction that masks and
`irq_enable` before the one that unmasks, where the real functions can be
interrupted.  The entry acknowledges the controller before the handler has seen
the device (`NEWIRQAGR`), so `irq` may stay set for the event being served;
`Cleared` lets the controller keep or drop a request whose line has gone down, as
its latch is outside the code.  `held` is a history variable: the calls of
`irq_disable` that main has not undone.  Only main calls them, as their comment
demands and as every program does.

**Display and IrqScroll.**  The display's registers are two functions: `reg`, what
is stored, and `live`, what is shown; a vsync copies the units of an output whose
GO bit is set.  `Boot` is main's start-up as the sequence of its stores, GOs and
waits, taken from the functions that make them, and one action executes one
instruction.  The handler is divided at each of its stores, because the display
does not stop for it; the leds are left out.  Drawing is the time between two steps
of main.

**I2cBus** makes a pass of the polling loop one action, as only its read of the
status register can see the controller.  A timeout is not counted: it may come
whenever the wait is `Hopeless`, that is when nothing but a restart would end it.
`trouble` is a history variable, set where a call may return without having done
its work: a timeout, a refused last byte, a read that starts again at another
register.  The controller is not in the repository; its part is written from the
way the driver uses it (fifos of bytes, a status bit per kind of event) and
is marked external, and it is assumed to empty its fifos at a new start.

**AudioBeep** has the chip's register file from I2cBus: the serial port is clocked
when the file says that the chip is on and master, and the clock may stop for a
time.  Every register write of `setup_audio` is there, with its register's number
and a value that tells it from the others.  Words are tagged with their channel;
what they are is in **Waves**, with the real constants but for the length of the
sweep.

**Graphics and Fills** count in pixels and keep what matters of a call: the first
pixel it writes and the one after its last.  The callers' positions are those of
the programs.  Each fill is the number of pixels it writes in a row, computed from
the address, the width and the end of the first row, as its code computes it: the
assembler routines keep that end for all rows, which is right for a screen whose
rows are whole chunks (`StrideAssumption`; 1024 pixels).  The boxes are all those that
`main`'s random numbers can give on a small screen.  Eight of the nine fills are there;
`memset16_armneon` fills memory and no box.

**MemoryMap and BootMap** build the tables as the code does, and then read every
megabyte and every page as the processor would.  The memory controller's registers
are all those for two banks that lie above each other, the second at a multiple of
32M, possibly absent or at the very end of the addresses; the kernels have text and data of sizes that
end before, at and after a megabyte, and fit in the tables there are.

**Monitor** works on character codes, with words of `WordDigits` hexadecimal digits
(3 in the run) and lines of `LINE` characters (6).  `Keys` is any set of characters
without the two that end a line, 10 and 13.  The loops that take a number apart and put
one together are `Loop`s, of at most as many rounds as there are characters or bits.
`meant` is a history variable: the line as the user corrected it.

Definitions marked "slip" are small mistakes in the same code.  No specification
uses them; PROJECT.json names the property that catches each.

## 3. Runs

| run | instance | what it shows |
|---|---|---|
| `library`: lists | 4 nodes, 2 lists, symmetric | both chains always hold the callers' sequence; a forward walk, `EmptyList` and `RemHead` agree at every length; ExecLists implements NodeLists |
| `library`: interrupts | nesting up to 3 | no handler between a disable and its enable, however nested; interrupts on when nothing is held |
| `library`: graphics, fills | a bitmap of 96 by 52, all boxes | every write is in the bitmap; the eight fills modelled paint rows exactly from aligned addresses, and one chunk too much at most from others, but for `drawRect_long`, which is a pixel out |
| `library`: memory_map, boot_map | bank sizes 2M to 160M, 15 starts; 9 kernels | every address mapped to itself with the attributes of its kind and no other mapped, but for the megabytes a wrongly computed start of the second bank affects; every page where the last range says, the tables suffice |
| `library`: note, sweep | 48 kHz, two notes; a sweep of 20 samples | no steps in the envelope, samples fit their words, the channel changes in silence |
| `library`: monitor | 7 characters, lines of 6 | the command obeyed is the line that was meant, and a shown address reads back as itself |
| `avl_search` | 8 nodes, 6 keys | the tree stays a search tree with right parent words, and the searches agree with their definition, whatever the balance |
| `avl_balanced` | 4 nodes | violated: see section 4 |
| `kernel_queues` | 3 tasks, 1 signal, symmetric | each task on one list, state and list agree, no lost wakeup, the three names of the running task agree, fpu enabled for its owner only, no ready task overtaken by a ready one; IpcSignal implements TaskMachine; the inductive invariant of the proofs |
| `kernel_fair` | 3 tasks, two of them steady, one with an endless trap | every ready task gets the processor |
| `kernel_bad_code`, `kernel_wait_result` | 2 tasks | violated: see section 4 |
| `irq_context` | 3 tasks, 3 demos, two register and two fpu contents | the handler's steps interleaved with its device: the inductive invariant of the proofs, registers are a task's own, one turn per event, every task runs for ever |
| `tasks_safe` | the demo, 1 addition per listener | totals never part; a told listener does not fall asleep |
| `tasks_fair` | the demo, no additions, `Every = Draws = 1` | the listeners run for ever, task3 is retired for good |
| `irq_scroll` | the program's own sizes | no register of an output is stored in while its GO is set, no frame reads memory outside the screens, the picture moves a step at a time, the second screen is drawn for ever |
| `audio_beep` | all register writes, a dump of 3 registers, a tune of 3 samples, fifos of 2 and 4 words, one fault anywhere | restarted transfers have the effect of one; the chip is set up while it is off; the tune is played; the channels swap only for an odd number of losses; each sample of the wave that main turns to is sent in the end, whatever the clock does |

Why the bounds are enough.  A removed list node has at most a left and a right
neighbour and each may be a header: four nodes and a second list give every
combination.  In the tree, six keys reach every branch of the removal and both
rotations on both sides.  In the kernel a step concerns the current task, the
next one and the one signalled: three tasks make these all different, and one
signal suffices for wakeups; masks, two signals and several fpu contents are
covered by the proofs, which hold for all of them.  In the demo the integer total is bounded by
`Rounds`; the parts of the loop repeat exactly after an addition.  irq-scroll has no
bound but its own: 193 positions of the picture, each with all interleavings
of handler, display and main.  One fault of the bus or of the clock is enough for
every path of the i2c driver, as after a restart or a timeout it is in a state it
was in before; what two faults do to the port is proved.  Interrupt disabling three
deep has an inner, a middle and an outer call.  The bitmap is as wide as three of
the largest chunks, so a row may begin and end in any part of one.

The parts in `library` share no state, so one run with a variable `unit` that says
which of them runs checks each of them exactly as a run of its own would: in each
behaviour the others keep their initial values.

Deadlock is checked in every run except those of the tree, which stop on a null
pointer by construction of the model, `library`, where the two page tables are built
once, and `audio_beep`: main waits for the chip for ever when a call that was to
turn it on timed out, as playnote has no timeout.

Fairness.  `FairSpec` assumes only that vsync interrupts keep being taken: the
display raises them whatever the tasks do, and user code cannot mask them.
In IrqContext the same is
two assumptions: events keep coming (`Raise`), and the handler is not kept from
running, as nothing masks it and the device does not wait.  An event that comes
between a turn and the clearing of the register is lost; the next one is not.
`RunningSpec` and `FairProgSpec` also assume that a task that is given the
processor again and again executes instructions on it (strong fairness, as the
task may lose the processor in between): a frame is millions of instructions, and
the handler takes a few hundred.  irq-scroll is the same: frames keep coming, the
handler is not kept from running, and main gets on between two of its calls.
audio-beep has no interrupts: main goes on, the bus works unless it is stuck, and
neither that nor a pause of the clock lasts for ever; `TunePlayed` is stated only
for behaviours in which no i2c call failed to do its work.  `WaveGoesOn` is
`left ~> rx`: a sample that main has turned to is sent, however often the port has to be
restarted.  That main then gets out of the loop that empties the receive fifo is not
stated: it is a matter of speed, two words read in less than the time of one slot.

## 4. Where the code disagrees with what it says

- `avl_balanced`: `getBalance` returns three unsigned bits, so the comparisons
  with -1 and -2 are never true.  A tree that grows on the left is not rotated,
  and later factors are not height differences; a removal can then follow a null
  pointer.  What survives is the search order (`avl_search`).
- `kernel_wait_result`: a `Wait` that does not sleep returns its argument and not
  the signals received, because the exit path of a high vector reloads `r0` from
  the tcb.  With one signal in the mask, as in the demo, the two are the same.
- `kernel_bad_code`: an undefined instruction with a VFP encoding is never taken
  for a code error; its task traps for ever instead of being retired.

Not runs, but seen while modelling: `AVL_Replace` and `AVL_Move` follow the null
parent of the root (the model marks it as a fault); a wakeup leaves the signal
received, so the next `Wait` returns at once and a listener draws twice for one
`Signal`; the listeners' float totals stop at 2^24, where the tasks would report
a broken fpu (`NeverFunny` is checked below that bound); `RemTail` starts from
the word that is always 0.

Also seen, in the other parts:

- `drawRect_long` tests its last odd pixel the wrong way round and paints one pixel
  more or less than asked for; the assembler fills write up to one chunk too much
  from an unaligned address (`fill-565.S` says "sometimes it goes 32-bytes over X",
  `BoxesPainted` says when), and one row for a box without rows.
- `drawChar` takes the baseline off in shorts where the stride is in bytes: text is
  twice as many rows above the position as the font says.
- `CS1STARTLOW` is not shifted down before it is shifted up and is lost, so a second
  bank that does not start at a multiple of 128M is mapped as if it started at the
  multiple below, although `mmu-simple.c:21` says "It should work for any sized memory
  present".  With two banks of 32M, one behind the other, the first is mapped with the
  attributes of the second, and the second not at all.  `IdentityMap` says that nothing
  else goes wrong.
- A read over i2c that is refused is restarted without sending the register again;
  a refusal of a last byte is left for the next transfer; a call that times out
  does not say so.
- A restart of the audio port between two words of a sample swaps left and right,
  and so does an odd number of slots without a word (`ChannelsKept` counts them).
- In the monitor a backspace on an empty line is stored as a character; any
  character from 'A' on is taken for a digit, in any base.
- `omap_set_gpio` makes the pin an input again before it returns.
- `memset16_armneon` and the counter in `crashdump.c:80` are not modelled: the first
  sets its colour up for part of the memory only, the second is used unset.

## 5. Proofs

**The kernels.**  `IpcSignalProofs` proves `Spec => []IInv` and from it each safety invariant of
the kernel, for any number of tasks and signals and any task programs, under the
assumptions stated in `IpcSignal` (a steady task exists, boot orders list every
task once, signal numbers are natural).  `IInv` is the conjunction of the
invariants of `kernel_queues` and `SteadyReady`; none of them is inductive alone:

- a switch takes the head of the ready list, so the list must not be empty:
  `SteadyReady`, and `OneQueueEach` so that a steady task is never removed by
  the removal of another;
- `CurrentIsHead` gives that the task leaving the list is the one running, and
  that `SaveContext`, which goes through `sp_irq`, saves its registers;
- `NoLostWakeup` needs `OneQueueEach`: that a task's state says whether it is
  asleep is what makes `svc_Signal` look at its mask;
- `FpuGuarded` needs the agreement of `sp_irq` and `thistask`.

`IrqContextProofs` proves the same kind of invariant with the handler divided
(`HandlerSafe`), and from it that a task's registers are changed by its own
instructions only (`RegistersAreOwn`) and that no event is served twice
(`TurnsAreOwed`).  Its additional conjunct is `Handshake`: as long as the turn has
not been given, the event is in the status register and in `raised`; once it has
been, `ClearStatus` removes it before the interrupt can be taken again.

`KernelRefines` says that the kernel implements TaskMachine, for any number of tasks
and signals and any contents of the fpu.
Initial states map to initial states; under `IInv` a vsync or an fpu trap maps to a
stutter, because it only moves registers between the processor and a tcb and the
mapping follows them, and each system call or float instruction maps to the
abstract step of the current task.  The step needs `CurrentIsHead` (whose tcb is
written), `FpuGuarded` (whose contents are in the fpu) and `OneQueueEach` (the
abstract sets are those of the lists).  TaskMachine does not say for whom a signal
was, so it does not forbid a kernel to drop one; `NoLostWakeup` and `ToldIsHeard` do.
`NobodyOvertakes` is an action property: under `IInv` it follows from what each action
does to the ready list.

**The lists** (`LibraryProofs`).  `ChainsIntact` says that the chains are those of
`order`; it is inductive with the facts that the sequences of `order` have no
repetitions and no node in common.  The words of a list (its forward words, its
backward words and the one that the two ends of its header share) are then all
different, and different from another list's; an operation writes two or four of them,
and every other list stays as it is.
From the chains follow `EmptyListAgrees` and, call by call, the refinement of
NodeLists (`ListsRefine`).  `WalkSound` (`WalkVisitsAll`) goes round by round: after `i`
rounds the walk has seen the first `i` nodes of the sequence and stands at the next
(`Visits`), and a sequence without repetitions is no longer than there are nodes
(`FitsNodes`), so the rounds the walk is given are enough.

**The tree** (`AvlTreeProofs`).  For any finite set of nodes and any keys, as long as no
null pointer has been used.  That a tree is sorted is a statement about whole subtrees,
and a rotation would move it about; the invariant `Woven` makes it one about single
nodes.  It says that there are bounds: numbers `b[n][0]` and `b[n][1]` for each member,
between which everything below `n` lies.  `Shape` relates them to the links: a child
lies between the bound of its parent on its side and the parent's key, points back to
the parent, and where nothing hangs no member lies in the gap.  A child link, a parent
word and a bound then say together what the whole subtree is, each rotation changes the
bounds of two or three nodes only, and nothing about the balance factors is needed: the
proofs hold for the factors that avl.c really stores, right or wrong.  The steps are
those of the code: a node that is hung on a gap (`AVL_Insert`), one rotation or two,
the three ways of taking a node out (`AVL_Remove`), one node in the place of another
(`AVL_Replace`, `AVL_Move`), and, for the two loops that change the tree on the way up,
that every round keeps it.

Every way down ends, because fewer members fit between the bounds of a child than
between those of its parent; a climb ends, because it goes further to one side with every
round.  The
in-order sequence of a subtree consists of the members between its bounds, by
induction on their number: that gives `SearchTreeInvariant` (`SearchTree`).
A search keeps that the node it looks for, if there is one, lies between the bounds of
where it is; at the end, the last node before the gap is the neighbour on one side, and
`AVL_Next` or `AVL_Prev` of it the one on the other: `SearchesAgreeInvariant`
(`SearchesAgree`).  `Woven` begins with "there are bounds", so TLC does not check it;
it checks the two properties it implies.

**The demo's tasks** (`IpcTasksProofs`).  `ProgramsAreTasks` shows that what the four
tasks do are steps the kernel allows, so everything proved of the kernel holds of
them.  `FloatsRight` (`NeverFunny`) adds `TotalsAgree` to `IInv`: a listener's own
float is its integer total at every instruction of its loop, in the fpu if the listener
owns that and in its tcb if not; it is assumed that `Rounds` is small enough for a
float.  `SignalsHeard` (`ToldIsHeard`) needs that a listener that has been told still
has its signal.

**Interrupts and irq-scroll** (`IrqScrollProofs`).  `CriticalSound`: no handler runs in
a critical section, at any depth; the strengthening says where in a call of
`irq_enable` or `irq_disable` the depth and the mask may differ.  For the picture the
invariant is `ScrollInv`, of five parts: `Control`, where main and the handler are with
respect to each other and to the masks; `GoOrder`, which GO bits may be set there;
`Registers`, which have their types; `Rows`, that `line` is a whole number of steps; and
`Settings`, which registers of a layer have been stored where main's start-up is, and
that a layer that is shown has all of them.
`PictureInMemory` follows from it and from arithmetic on addresses; `NoHalfSetting` and
`Smooth` are action properties, and `Smooth` needs in addition by how much the stored
address may be ahead of the shown one at each point of the handler.

**The i2c bus and the audio port** (`AudioBeepProofs`).  For `ChannelsKept` the
invariant is that the words in the fifo alternate and end with
the channel before the one main is about to send; `ReadsReceived` follows from how many
words were there before the first of the two reads.  `CallsSound`
(`CallsDoTheirWork`) is about the driver, for any calls, any chip and any number of
refused bytes and restarts: as long as nothing happened that a call cannot recover from
(`~trouble`), `Sent` says that the bytes in the fifo and on the wire are the first part
of the message, and that the chip has obeyed it when it is whole; `Got` that those that
have come are the registers from the one asked for on; and `UnderWay`, `Over` and
`Spoiled` that neither a status bit nor a byte is left from a transfer that was given
up.
`ConfigurationSound` (`ConfiguredWhileOff`) follows from that and the order of the
calls in `setup_audio`.

**The monitor** (`LibraryProofs`).  `MonitorSound` (`NumbersReadBack`) is for any
`WordDigits` and `LINE`.  At each round of `ufmt` the digits written so far, read
onto what is left of the number, give the number (`Printing`); the zeros in front add
nothing (`PaddedReads`); so `parsenum` of what is shown is what was shown
(`ShownIsRead`).  `dstrtoul` takes a remainder at each digit and the meaning of the
digits only in the end, which is the same (`AccumulatedRemainder`, `DecimalIsRead`).
The invariant of the state (`MonitorInv`) is that the line is the corrected line, or
that with a backspace in front of it (one typed on an empty line), and that the address
to be shown next is 32 after the one in the text.

**Drawing, waves, page tables** (`LibraryProofs`).  Each part is proved under a
specification of its own, and `PartsRun` shows that a run of `library` is a behaviour
of each.  `DrawsSound` is for every size of a bitmap more than 20 pixels high;
`BoxesSound` for every box of the eight fills and every such bitmap whose rows are whole
chunks, as the end that the assembler routines keep is then a number of chunks before
that of the row (`ChunksBelow`); `ToneSound` and `SweepSound` for every wave length and
number of samples.  `MapSound` (`IdentityMap`) is for all sizes of two banks and all
starts of the second, at multiples of 32M: the invariant (`MapInv`) says that the table
holds exactly the ranges mapped so far, and each range begins and ends with a megabyte,
the last also with the end of the addresses.  No two ranges share a megabyte, unless the
second bank is put below its start; it then may share some with the first, all
`Misplaced`, and a supersection of the first that is spoiled by it has no megabyte
outside of these (`OneRange`).
`BootSound` (`BootMapRight`) is for every kernel that fits: its invariant (`BootInv`)
gives the number of each megabyte's second-level table from the order in which the
megabytes come up, hence no table serves two of them, and says that each page written
so far goes where the last range written so far says.

There is one lemma per action.  `CommonProofs` proves once what removing, pushing and
appending do to a sequence without repetitions, and what can be said of a `Loop`: that
its rounds exist as a function (`LoopSteps`), that it keeps what a round keeps
(`LoopKeeps`), and that it has ended when a number that every round lowers is used up
(`LoopEnds`).  Induction is by sets of numbers (`SetInduction`, from the well-foundedness
of the naturals), not by the library's theorems, which take a predicate as a parameter
and cannot be instantiated.

The theorems rest on the assumptions named in the modules, which TLC
evaluates for the instances: those on constants, among them that the nodes of lists and of the tree
are finitely many (`FiniteAssumption`, `NodesAssumption`), that two fields of the
television fit in a screen (`FieldsAssumption`), that reads over i2c ask for registers
the chip has (`ReadsAssumption`), that the rows of the screen are
whole chunks (`StrideAssumption`), and that a kernel's text and data are at most
62 megabytes together (`KernelAssumption`): `kernel_pages` has 64 tables, the start-up code
does not count them, and a larger kernel would have its tables run into the page of
`UART3`.

Only model-checked:

- the liveness properties (`ReadyRuns`, `ListenersRun`, `FaultyRetired`, `AllRun`,
  `SecondScreenDrawn`, `TunePlayed`, `WaveGoesOn`), as fairness and ENABLED are out of
  the prover's reach.

Every invariant and every action property of the passing runs and both refinements are proved.

What the proofs changed in the models: the neighbour of a key (`Nearest`) was a CASE
whose guards overlapped: TLC took the first that held, but the definition left the
choice open.  It is now one alternative after the other, as in the code.  The tree's and
the monitor's loops had been RECURSIVE operators.  `Keys` had been allowed to hold the
characters that end a line.

## 6. Plan

1. (done) lists, kernel, the kernel's earlier variants, demo tasks, tree; the
   invariants of the two kernels proved.
2. (done) interrupts, irq-scroll on the display, audio-beep on the i2c bus, page
   tables, drawing, fills, waves, monitor; the kernel's refinement, the critical
   sections and the audio port proved.
3. (done) proved: the lists and their refinement, `NoOvertaking`, the demo's tasks,
   irq-scroll, the i2c bus and the chip's configuration, drawing, fills, waves and
   both page tables.
4. (done) proved: the tree and its searches, the walk along a list, the numbers of the
   monitor.

Left: a proof that the balance factors would be right if `getBalance` returned signed
values, which says what a repair of avl.c needs, and the liveness
properties, once fairness is within the prover's reach.

## 7. Not modelled

gpio: each function changes bits of one bank's registers and keeps no state.
crashdump: a pure function of two files.  Register values that are only data (video
timings, encoder tables, clock and pin set-up), glyphs and colours, the format
interpreter of dprintf, performance counters, timing loops, the fatal dump with the
second exception it may meet, fiq and swi, and start-up code before `main`.  The
second overlay, `omap_disable_display` and `bus_i2c_init` have no caller that
depends on what they leave behind.  The window of a few instructions between
`irq_enable` and the switch to user mode in the kernel's `main` is before the
model's initial state.
