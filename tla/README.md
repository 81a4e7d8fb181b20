# Verification of QuasarOS

TLA+ models of the QuasarOS kernel and of the parts of its user programs that
drive it, TLC configurations that check them, and TLAPS proofs about them.
Source paths below are relative to the repository root.

| To | run |
|---|---|
| parse a module | `tlasany Sched.tla` |
| check a configuration | `tlc -config Sched.cfg Sched.tla` |
| check the proofs | `tlapm SchedProofs.tla` |

`PROJECT.json` lists the runs, the source lines each definition stands for, the
mistaken variants (`Definition_Variant`, kept beside each definition and used by
no action) that each property detects, the findings and the hazards.

## 1. The system

QuasarOS is a small x86_64 kernel. Everything runs in ring 0. CPU 0 boots, makes
two tasks (`kernel_idle` and the ELF `shell`), registers the timer handler and
halts; from the first timer interrupt on it executes tasks and never returns to
the boot context. CPU 1 is released during boot, loads a page map, prints a line
and loops for ever.

Every gate of the IDT is an interrupt gate (`attr 0x8E`, idt.c:54), so interrupt
handlers, exception handlers and system calls run with interrupts off: on CPU 0
each of them is atomic. Code of a task outside a system call, `sched_wrapper`
included, can be interrupted between any two instructions. These two facts
decide what is one action in the models.

### Inventory

| Component | Source | State | Operations | Interacts with | What makes it correct |
|---|---|---|---|---|---|
| Scheduler | src/sched/sched.c | `sched_list`, `sched_tid`, `sched_cid`, `sched_current_task`, task structs | create, switch, kill, remove | called by boot, system call 6, timer, page faults; calls VMM, heap, ELF loader | table dense, cursor at a live task, contexts never mixed, no starvation |
| Task wrapper | src/sched/sched.c:21-31 | the task's registers and state | run main, transmit, die, halt | scheduler, IPC | one signal per task, then removal |
| IPC queue | src/sched/ipc.c | `ipc_signals`, `ipc_queue_idx` | transmit, get, get_ret, dispatch | wrapper and page fault write, shell reads | a signal stays until dispatched and is found |
| Shell | exec/src/shell.c | line buffer, pid waited for | edit, split, run, wait, report | keyboard, ramdisk, IPC through system calls | line shown = line run; right result reported; comes back |
| System calls | src/exec/syscall.c | none | 21 cases | all of the above | each atomic |
| Interrupts | tables/idt, cpu/pic.c | handlers, frame on the stack, 8259s | enter, dispatch, EOI, iret | scheduler replaces the frame | every interrupt ended |
| Exceptions | idt.c:87-110 | none | kill the task or stop the CPU | IPC, scheduler | only the faulting task is affected |
| Page allocator | src/mm/pmm.c, bitmap.c | bitmap, next-fit index | init, alloc, free | VMM, heap, scheduler, ELF | no page owned twice, none lost |
| Virtual memory | src/mm/vmm.c | page maps, `vmm_current_page_map`, cr3 | new, load, delete, map, alloc | scheduler, heap, CPU 1 | loaded map exists; maps hold own pages |
| Heap | src/heap/heap.c | block headers | kmalloc, kfree, malloc, free | page allocator, VMM | blocks disjoint, reachable by their user |
| ELF loader | src/exec/elf | none | load segments | page allocator, VMM | segments mapped in the new task only |
| Keyboard | src/drivers/kb.c | one pending character, shift, caps | interrupt, get | shell | keys in order |
| Clock | src/drivers/rtc.c | registers of the chip | time, sleep | system call 0x14 | a sleep lasts what it says |
| CPU 1 | arch/x86_64/smp/smp.c | `vmm_current_page_map`, terminal | init | VMM, printf | does not disturb CPU 0 |
| Ramdisk | src/initrd, src/fs, initrd/ | image | build, read, size, list | shell, boot, programs | what is read is what was built |
| Terminal emulator | src/flanterm/flanterm.c | parser, modes, scroll region, saved state, colours | one byte | printf, system calls 0x0e-0x12, the backend | every sequence does what it says, cut anywhere |
| Terminal backend | flanterm/backends/fb.c | grid, queue, map, cursor, pixels | put, scroll, move, clear, flush | emulator | queue fits its array; pixels are the text |
| printf | src/libc/printf.c | output position | format into a buffer, to the screen | everything that prints | the standard's output, never past the buffer |
| cat, ls, hexdump | exec/src | a buffer | read, print | ramdisk, printf through system calls | what is shown is what is in the file |
| Locks | src/libc/lock.c | one flag | lock, unlock | everything | (excludes nobody, see below) |
| Mouse, window manager, framebuffer drawing, panic, ACPI, LAPIC, serial, GDT | | | | | |
| limine.h, sanitizer runtimes, the programs' own printf | | | | | |

Hard to test here: a timer interrupt between any two instructions of a task;
removal of a task while the cursor moves; pids reused; signals hidden, overwritten
or lost; the interrupt number replaced during the interrupt; the second CPU's one
write to shared state; memory running out; a clock read in pieces; a screen drawn
from a queue of differences, with the cursor only in its pixels; control sequences
that arrive in pieces and in any order; the corners of printf's flags and buffer
sizes; files that change while the image is built. `PROJECT.json`
lists each hazard with its line and the properties that cover it.

## 2. Modules

```
Sched <------ SchedProofs               PageAllocator
  ^  ^                                    ^ refines
  |  |                                  Pmm <---- PmmProofs, MCPmm
  |  +-- AddrSpace <---- AddrSpaceProofs, MCAddrSpace
  |
Kernel <---- KernelProofs               Irq, Rtc <---- DeviceProofs
  | \                                   Input <---- InputProofs
  |  +-- extends Ipc
  v refines
JobControl

Framebuffer                               Format ------> StandardPrintf
  ^                                         ^   is compared with
Terminal <---- TerminalProofs, MCTerminal Programs <---- ProgramsProofs, MCPrograms
  | refines                                 v
  v                                       Ramdisk
TextScreen
```

**Sched** (src/sched/sched.c, boot order of src/kernel/main.c). One action per
entry into the kernel: `BootCreate`, `pit_init`, `SysCreate`, `Kill`,
`sched_switch`, and the two ways the CPU stops, `IsrHalt` and `FaultInSyscall`.
`sched_switch` is the whole handler: save, resume, load the page map, advance,
and remove the task the cursor reaches if it is dead. A task's name is the order
of its creation: `kmalloc` never hands out a block twice, so the name stands for
the address of the struct. `task_regs` and `cpu` say whose context is saved where
and whose executes; that they could differ from the obvious task is the point of
`ContextInv`. `kfree` zeroes a removed struct, so its state reads `WAITING`.

**Ipc** and **Kernel** (src/sched/ipc.c, `sched_wrapper`, isr_handler's page
fault path, exec/src/shell.c:95-113). `Kernel` instantiates `Sched` and adds a
program counter per task. `sched_wrapper` transmits store by store in the order
of the compiled code: load the index, store pid, possibly load the index again,
store signal and ret, store the index plus one (the compiler may keep the index
in a register or not; `ReloadIdx` allows both). System calls of the shell are one
step each. Programs are kinds: `app` returns, `crash` page-faults, `badptr`
faults inside a system call, `trap` raises another exception, `spawner` starts
programs and does not wait, `shell` is a shell.

**JobControl** is the abstract specification of the above: a shell starts a job,
the job ends with a result once, the shell collects that result after it ended.
No table, pids, signals or scheduler. `Kernel!Jobs` is the refinement, with
`waiting` mapped from the shells' program counters.

**Pmm** (src/mm/pmm.c, bitmap.c). `pmm_init`, allocation that finds a block
(`AllocFits`), allocation that runs off the end (`AllocExhausted`) and `pmm_free`.
The search loop is given in closed form (lowest fit at or above the index), and
again as the loop of the code (`Search`, a recursive function of the block size);
`SearchAgrees` says that the two agree. **PageAllocator** is what it implements: disjoint blocks from a
set of free pages.

**AddrSpace** (src/mm/vmm.c, src/heap/heap.c, src/exec/elf/elf.c,
arch/x86_64/smp/smp.c) instantiates `Sched` and adds memory: what each page was
allocated as and for whom, what each page table holds, cr3, and the second CPU.
`vmm_map` walks the tables as the code does, level by level (`MapPage`), allocating and
clearing what is missing from the same memory; a table nobody cleared holds junk. `vmm_init`'s
loop maps all of memory to itself before anything else happens. Creating a task
allocates in the order of the code: struct, page map, then for each segment its pages
and the tables that map it (`LoadSegment`), then the stack. Removing it does what `sched_remove_task`
does with memory in the same step as the switch.
`MallocFaults` is a malloc whose block was mapped into the map CPU 1 had just
named: its header is written through cr3 and faults.

**Input** (src/drivers/kb.c, kb_map.h, exec/src/shell.c:7-94). The keyboard
interrupt against the shell's loop: fetch, echo, store, split into arguments,
clear. The line buffer starts as junk, as in the code. The echo goes to a screen
that has what `Terminal` has of it for this text: rows of `Columns` cells, a cursor
that stays past the end of a full row (`Show`), and flanterm's backspace, tab and line
feed (`Back`, `Tab`, `Feed`), so that `"\b \b"` erases what the code's does, right or
wrong. A prompt begins wherever the command's output ended (`Left`). `typed` and `tidy`
are history: the line as it was typed, and whether its echo met none of the three cases
in which the screen is not the line (section 5). Where the shell runs over `str`, `temp`
or `args` the model stops (`beyond`).

**Rtc** (src/drivers/rtc.c). The three register reads of `rtc_time` are three
steps, in the order hour, minute, second of the compiled code, and the clock may
tick between them. A second is taken to be long enough for two evaluations of
`rtc_time` (they take microseconds). Registers hold binary coded decimals.

**Irq** (tables/idt, cpu/pic.c). The path of one interrupt: entry, handler, end
of interrupt, iret, against the two 8259 chips, which are external and modelled
with their in-service bits and priorities. A task switch in the handler replaces
the frame, `int_no` included, with that of the resumed task; a task that never
ran has whatever its struct held (`Garbage`).

**Framebuffer** (src/flanterm/backends/fb.c). The terminal's drawing state as one
record `fb`: `grid` is what was drawn, `map` leads from a cell to its queued item,
`queue_i` counts the items, `framebuffer` holds the pixels. The backend's functions
are operators from `fb` to `fb`, named as in the code. The queue's order is left out
because no two items that `map` leads to are of one cell; its length is kept, since
that is what may run past the array. A flush draws cells whose colours are unchanged
dot by dot where the glyphs differ (`plot_char_fast`), others whole, and the cursor by
inverting pixels, which `grid` does not record.

**Terminal** (src/flanterm/flanterm.c) extends it with the emulator: one action per
branch of `flanterm_putchar`, `escape_parse`, `control_sequence_parse` and the rest,
taken one byte at a time until the string of a `flanterm_write` is used up and flushed,
and the system calls that clear the screen or set colours. Its state is grouped as the
code uses it: `parser`, `term` (modes, margins, charsets), `pen` (colours and what is
recorded of them), `saved`. **TextScreen** is what a console promises: lines of
characters and a place to write, with none of the above; `PlainText` says `Terminal`
implements it for the text the system prints.

**Format** (src/libc/printf.c) is the loop over a format string: one action per part
of a directive (flags, width, precision, length, specifier) and `print_integer` with
its backwards buffer in closed form. Integers have widths (`CharBits` to `LongBits`)
and are cut and signed as the code's casts do. **StandardPrintf** says what the C
standard and the library's documented extensions ask for, directive by directive, from
the parsed directive and not from the characters; `AsSpecified` compares the two. It is
instantiated twice: `Std` is the standard, `Own` the standard with printf.c's reading of
a negative `*` precision as 0 (printf.c:1086), the one place where the two differ in what
the run prints.

**Ramdisk** (initrd/quasfs.c, src/initrd/quasfs.c, src/fs/file.c). The builder, which
opens every file twice while `Edit` may change or remove one; an image of headers and
bytes; the reader. **Programs** puts `Format` and `Ramdisk` together under cat, ls and
hexdump, one action per system call they make.

## 3. Checks

Passing runs (the states are distinct ones):

| Run | States | Properties |
|---|---|---|
| `sched` | 5,910 | `ListInv`, `CursorInv`, `ContextInv`, `RemovedOnlyDead`, `NoStarvation` |
| `kernel_shell` | 17,013 | `NoEarlyWakeup`, `ReportTrue`, `NotBlocked`, `SignalKept`, `ShellResumes`, `Jobs` |
| `kernel_programs` | 35,552 | `OneSignalEach`, `EndedIsReaped` |
| `pmm` | 53,861 | `TypeOK`, `Accounting`, `Exclusive`, `SearchAgrees`, `Allocator` |
| `addr_space` | 1,033,226 | `LoadedAlive`, `MappedOwned`, `OneMapEach`, `ProgramStays`, `MallocMapped` |
| `input` | 1,035,236 | `LineIsEcho`, `ArgsSpellLine`, `KeysInOrder` |
| `rtc` | 234,357 | `OnTime`, `RegularReturns` |
| `irq` | 58,176 | `AllEnded`, `TimerServed` |
| `terminal` | 145,599 | `QueueFits`, `InkIsRecorded`, `WriteShows`, `RegionOnly` |
| `console` | 120,585 | `PlainText` |
| `programs` | 333,759 | `AsSpecified`, `Terminated`, `ReadBack`, `ProgramShows` |

Together they fire every action of every module. The other modules' `TypeOK` are
definitions to check with when a module is changed (those of `Sched` and `AddrSpace`
are proved). Section 4 says which of these properties are theorems.

What the newer properties say:

- `MappedOwned`, `ProgramStays`, `MallocMapped` look through the page tables as the CPU
  does: what a task's lower half reaches is its own and goes through tables of its own,
  its segments stay where they were linked, and every page of a heap block it got is
  there.
- `QueueFits`: `queue_i` never exceeds rows * cols, although an item can be queued, drawn
  early by the cursor and queued again within one flush.
- `WriteShows`: after each write the pixels are exactly those of the text, the cursor
  inverted where it stands and nowhere else. The right side is computed from the text
  alone, so a stale dot, cursor or colour anywhere violates it.
- `InkIsRecorded`: through bold, bright, reverse video, defaults, saves and restores, the
  colour in use is one of those the recorded index stands for, on the side it is now
  shown on, unless that side was last set past both (38, 48 and the system calls).
- `RegionOnly`: text written inside a scroll region changes nothing outside it.
- `LineIsEcho`: while a line is tidy, the screen has it from where the prompt ended, the
  cursor after it and nothing that was taken back, over as many rows as it takes.
  `ArgsSpellLine`: for every line that fits, tidy or not, the arguments spell what was typed.
- `AsSpecified`: printf's text, as much of it as is kept, the value it returns and `%n`
  are those of `StandardPrintf`, a negative `*` precision taken for 0; `AsStandard` is the
  same without that exception, and is false. `Terminated`: a buffer is filled without a gap, never
  past its size, and its last character is the only NUL.
- `ReadBack`: a file nobody changed during the build reads back exactly, whatever
  happened to the others. `ProgramShows`: cat, ls and hexdump print what the host had.

A run that finds a disagreement between the code and what its comments and callers say:

| Run | Shows |
|---|---|
| `lost_signal` | Two tasks returning together fill the same slot (ipc.c:34-37): one signal is overwritten, and the shell waits for ever. |

`NotBlocked`, `SignalKept` and `ShellResumes` hold in `kernel_shell`, with one shell
that runs one program at a time, and fail in this run and two of the configurations
below, where programs start programs or pass bad pointers, as the system calls allow.

Further configurations, each with one property that does not hold, kept to
reproduce the behaviour and not part of the runs:

| Configuration | Property | Behaviour |
|---|---|---|
| `KernelBlocked.cfg` | `NotBlocked` | `ipc_get` stops at the first used slot of another task (ipc.c:13): a signal nobody dispatches hides every later one. |
| `KernelHang.cfg` | `ShellResumes` | A page fault inside a system call loops with interrupts off (idt.c:98): the whole system stops. |
| `PmmExhausted.cfg` | `BlocksExist` | The out-of-memory panic (pmm.c:64-66) is unreachable; pages past the end of memory are handed out. |
| `SchedTable.cfg` | `TableFits` | The 17th task is stored past `sched_list[16]` (sched.c:61). |
| `KernelQueueFull.cfg` | `QueueFits` | Slots are never reused: the queue runs past its end (ipc.c:37), shown with two slots. |
| `KernelPidReuse.cfg` | `NoEarlyWakeup` | A new program gets the pid of an undispatched signal; the shell wakes at once (sched.c:39). |
| `AddrSpaceSmp.cfg` | `MallocInSpace` | CPU 1 overwrites `vmm_current_page_map`, and malloc maps elsewhere (smp.c:33). |
| `AddrSpaceHeap.cfg` | `UsableIsRoom` | A freed heap block is "usable" (heap.c:23) but never used again. |
| `AddrSpaceElf.cfg` | `SegmentsWhole` | A segment of several pages is allocated whole and mapped by one `vmm_map`, its first page only (elf.c:32). |
| `PrintfNegative.cfg` | `AsStandard` | printf is "An implementation of the C standard's printf" (printf.h:112), where a negative argument for the precision counts as none; printf.c:1081-1088 keeps `FLAGS_PRECISION` with precision 0, so `printf("%.*d", -1, 0)` prints nothing. |
| `RtcEarly.cfg` | `NeverEarly` | A torn first reading makes a sleep end too soon (rtc.c:43, 47). |
| `RtcMidnight.cfg` | `SleepReturns` | A sleep across midnight, or of 0 seconds missed by a tick, waits for a second that does not come that day (rtc.c:48). |

### Bounds

- `MaxCreated` is how many tasks are ever created: 6 for `sched`, enough for a
  task before, at and after the cursor to die in any order while others are
  created (4 besides idle and shell); 5 and 4 for `Kernel`: idle, shell and three
  (two) programs, so that a pid is reused once and two programs end together;
  4 for `AddrSpace`. The scheduler's theorems hold for every value.
- `IPC_SLOTS` is at least the number of signals the run can transmit.
- `Ret = {0, 1}`: the shell only distinguishes 0 from the rest.
- `Pmm`: ten pages, two usable ranges with a hole, the bitmap in the first;
  blocks of one to three pages: both ranges fill, fragment and run out. The
  theorems hold for every memory map.
- `AddrSpace`: tables of three levels and four entries for four and 512: an upper
  level, one in the middle and the lowest. `Pages` = 44: after the kernel's 15 tables
  there is room for idle, the shell and two programs at once, or for some of them and
  several heap blocks; where nothing fits, the model stops, since exhaustion is `Pmm`'s
  subject. A heap block is two pages for 4096; only that it is more than one matters.
  Programs have one segment, or two with the second of two pages, and start at page 3:
  1 MB is below the end of the 16 MB of tables that `vmm_init` allocates first, so
  no heap block is ever mapped over a program (`ProgramsBelowTables`, which the
  theorems about it assume and this instance keeps to). Since everything that allocates after a
  removal starts with a heap block, the single page of a freed page map is never taken
  again, in the code as in the model.
- `Input`: `MaxKeys = 5` presses: a line with an argument, a correction and a
  second command. `StrSize` = 4 for 512, `TempSize` = 3 for 50, `ArgSlots` = 2 for the 6
  pointers in 50 bytes: five presses overrun each of them. `Columns` = 4 with `Left` =
  {0, 1, 3, 4}: the prompt "> " begins at the first column, within the row, in the last
  column and past it, so it and the line wrap at every place. `TabSize` = 2: tab stops
  within the row and past its end. Tried also with 1 to 10 columns and six presses.
- `Rtc`: a day of 2 hours of 2 minutes of 11 seconds. Eleven makes the tens digit
  of the coded decimals change; two of each makes every carry happen; the sleeps
  0, 1, 11, 12, 25 are within a minute, one, and more than one minute, and across
  midnight from late starts.
- `Irq`: the timer, a handled and an unhandled line of the master and one of the
  slave and of another slave line; garbage below and above 7 after the subtraction.
- `terminal`: 11 by 3 pixels with a font of 2 by 1 and one column of spacing: three
  columns, three rows and a margin of one pixel on each side. Three columns and rows
  are the least with a first, a middle and a last, so that a region can leave out a
  row at either end. Any `MaxWrites` = 3 of 53 texts: every sequence after every other
  with something written before or between. The wide texts are one code point of two
  cells, the multi-byte ones two and three bytes long.
- `console`: two rows, columns of one dot; five writes, enough to wrap, scroll, clear
  and go on. A screen with tab stops in it is not needed: a tab goes to the last column.
- `programs`: `CharBits` = 5 to `LongBits` = 16 for 8 to 64, a number buffer of 8 for 32:
  values at each width's ends are cut, signed and overflow the buffer as the real ones
  would. Thirteen flag sets with every conversion, three widths and three precisions, every
  length, starred fields with negative widths and precisions among them, and several directives (`MCPrograms`); buffers of 0 to 7 characters. `RowLength` = 2 for 8: files of none, one, a
  full row, and more. `MaxEdits` = 1 change during a build; the theorem has no bound.
- Deadlock is not checked where the system can really stop: `IsrHalt` and
  `FaultInSyscall` halt CPU 0, and `Sched` and `AddrSpace` stop at their bounds.

### Fairness

- `Sched`, `Kernel`: weak fairness of `sched_switch`: the PIT runs at a fixed rate
  and, unless the CPU is halted, interrupts are enabled between system calls
  (`Irq!TimerServed` is why no other interrupt can stop it).
- `Kernel`: strong fairness of each task's own steps. A time slice is 10 ms, far
  longer than a step, and `NoStarvation` gives a listed task its slice again and
  again; but TLC's steps may always be preempted, so the step is enabled
  infinitely often rather than always. What a program or user decides is not fair.
- `Irq`: weak fairness of the handler, the end of interrupt and iret (the CPU
  executes), strong fairness of taking the timer: it has the highest priority.
- `Rtc`: the clock ticks and the CPU executes. `Pmm`, `AddrSpace` and `Input` state
  safety only and assume no fairness.

## 4. Proofs

Checked by TLAPS for all values of the constants, under the modules' named
assumptions, which TLC evaluates on the instances.

**SchedProofs** (assumes `SchedAssumption`: at least two tasks, NULL is no task).
`Invariance` proves `SchedInv`; from it follow `TypeCorrect`, `TableDense`,
`ResumesLiveTask`, `ContextsNeverMix` and the action property
`OnlyTheDeadAreRemoved`. None of the five is inductive alone. That the cursor's
task is alive needs that the running task, the only one that can die, is not
under the cursor (`NextIsOther`); which needs a dense table without duplicates
(`ListInv`), the idle task at index 0 (`BootInv`), and that a struct is zeroed
only when it leaves the table (`FreedInv`). `IndexAtMostId` bounds what pids can
be. Removal is the hard step: the lemmas first say what `ShiftDown` does to the
entries, then each conjunct follows.

**KernelProofs** (assumes `KernelAssumption`, `IpcAssumption`, `ProgramsAssumption`: NULL
is no result, there is a slot, programs are of the known kinds). Without any hypothesis,
for shells, spawners and faults of every kind: `SchedulerInvariance` (`SchedInv` holds in the
composition too, whose steps are the scheduler's or leave it alone), `TaskInvariance` (program counter,
result and task state agree) and `OneSignalPerTask`, whose invariant says that neither the queue's
index nor any copy of it a task has loaded exceeds the number of tasks that have transmitted;
a task may store an index that is stale, which is why signals may be fewer.

The rest is for one shell that runs programs one at a time, and says so: `OneAtATime` is
that no program is a shell or spawner and that `IPC_SLOTS` (256) is at least the number of
programs ever started. It cannot be dropped: `KernelPidReuse`, `KernelBlocked`,
`lost_signal` and `KernelQueueFull` are its counterexamples. `ShellInv` gives
`NoWakeupBeforeTheEnd`, `ReportsAreTrue`, `NeverBlocked` and `SignalsAreKept`, and
`JobsRefined` that every step is one of `JobControl` or a stutter. It says that at most one
program is not ended and it is the one created last; that the queue holds one signal for
each ended one, all dispatched but the last; and, store by store, what the slot being
written contains. That is what makes a repeated pid harmless here: the signals of earlier
holders are dispatched before the pid is given again.

**PmmProofs** (assumes `PmmAssumption`: the bitmap has a bit for every page and
lies in a usable entry). `Invariance` proves `PmmInv`; from it `TypeCorrect`,
`PagesAccounted` and `BlocksExclusive`, also after memory ran out. `SearchCorrect` proves
`SearchAgrees`: the loop finds the lowest fit for every memory and block size. `Refinement`
proves that every step is a step of `PageAllocator` or changes nothing it sees: a
block handed out past the end of memory maps to the part of it that exists.

**AddrSpaceProofs** (assumes `AddrSpaceAssumption`: sizes are positive numbers, NULL is no
page). Memory of any size, tables of any depth and width, programs of any segments. It
instantiates `SchedProofs` with `sched_current_task`, whose map CPU 0 has loaded, in place
of `vmm_current_page_map`, since CPU 1's store is the one thing the scheduler's invariant
does not survive; everything else of `SchedInv` carries over.

`MemoryInvariance` proves `MemInv`. Its heart is `Shape`: there is a level for every page
such that maps are at the top, an entry of a table leads to a table of the same owner one
level below, and no table has two parents. So walking from a root can neither leave the
tree nor reach the same table along two paths, and an entry set in one map changes no
other's. `Rooted` says whose the roots are. From these `TypeCorrect`, `LoadedMapAlive`,
`OneMapPerTask` and `ReachesOnlyItsOwn`. The steps are long because each handler is: a
creation is an allocation, a map, and an allocation and `LEVELS` table steps for every
segment; each is a lemma about the operator (`get_table`, `MapPage`, `elf_exec`, ...) that
says what it keeps of the tables it did not touch.

`ProgramsStay` and `MallocIsMapped` need more, and a hypothesis. malloc returns a physical
page and maps it to itself, in the address space where the program is: nothing in vmm.c or
heap.c keeps it from returning a page with the address of a segment, and TLC finds that it
does for memory and programs chosen so (`Pages` = 64, `Base` = 32). `ProgramsBelowTables`
says programs end below the last of the tables that `vmm_init` takes first, those of the
lowest level: 2^20 pages (4 GB, vmm.c:203) need 2^11 of 512 entries, and programs start at
page 256, so it holds for any below 8 MB. `SpaceInv` then says that those pages are `Kept`:
in use, and not as a map that a removal frees. So malloc returns none of them
(`ProgramsStay`), and a page it returns is mapped to itself for as long as its task is
listed. A malloc whose block went into the map that CPU 1 named faults at its header, which
ends CPU 0's execution: the case `MallocMapped` excludes with `halted`.

**InputProofs** (assumes `InputAssumption`: the bounds and sizes are positive, and output
ends at or before the end of a row). For any number of presses, size of the shell's
buffers, width of the terminal and of its tabs. `LineInv`, proved by `Invariance`, gives
`FetchedInOrder` (presses are numbered; the pending one was pressed after the last one
fetched). Its `TypedInv` says `str` has the line as it was typed, one edit behind from
the fetch to the store, and `EchoInv` that the screen shows it, one edit behind until the
echo. `EchoIsTheLine` proves `LineIsEcho` from it; the two lemmas it rests on are what the
echo of a letter adds wherever the cursor is (`ShowShows`) and that `"\b \b"` removes the
last character unless the cursor is at either end of a row (`EraseShows`).
`ArgumentsSpell` proves `ArgsSpellLine`: when a command is handled, `str` up to its first
NUL is the line that was typed (`LineIsTyped`), whatever `str` held before and whatever
the echo did, and what the loop gives from an index on, with
an argument begun at `start`, joined by spaces is the line from `start` on (`LoopSpells`, by
induction from the line's end backwards; `JoinedCons` is joining with one argument more at the front).
`TypeCorrect` proves `TypeOK`.

**DeviceProofs**, the interrupts (assumes `IrqAssumption`: lines 0 to 15 without 2, handled lines are
lines, garbage is a number). `EveryInterruptEnded` proves `AllEnded`. The
invariant `IrqInv` says what the controllers have in service at each point, and
that for a slave line the frame still holds that line's number when it is ended,
because only the timer's handler replaces the frame; a master line is ended
whatever the number.

**DeviceProofs**, the clock (assumes `RtcAssumption`: units that two decimal digits can
count, sleeps of whole seconds). `SleepsEndOnTime` proves `OnTime`. The invariant
`ClockInv` says two things. What rtc_time has added up is the hour, or the hour and the minute,
of the present second unless the clock ticked since (`Untorn`). And while a sleep
can still end as it should, clock and `elapsed` keep step towards `last_sec` (`InStep`): the
second to wake up in cannot pass before an untorn reading of it was compared, because a
second ends only after one. A torn reading that happens to equal `last_sec`
would be too early, so the invariant also bounds what has been read by the clock: the fields
are read from the largest to the smallest and the clock only grows before midnight, so a
torn sum is never ahead of it. The arithmetic is that of units within units for
any lengths of hour, minute and second (`Division`, `NextMultiple`, `OneQuotient`, `UnitsInUnits`),
which the provers do not know for a divisor that is not a numeral, and `Decimals`, that
bcd_to_bin undoes the chip's digits.

**TerminalProofs** (assumes `FramebufferAssumption`: at least one column and row, no
more rows than columns, a font with a blank; `NullAssumption`; `TerminalAssumption`:
what is written is bytes, glyphs are glyphs, lead bytes are followed by one to three
others; `SpecialAssumption`: the line drawing glyphs are in the font). Screens and fonts
of any size, any bytes in any order, any number of writes.

- `QueueAlwaysFits` and `QueueFitsText` prove `QueueFits`, for any sequence of the
  backend's operations (`FbSpec`) and for what the emulator makes of any text. The
  invariant `Counted` is stronger: `queue_i` is the number of cells `map` leads from. It
  is what makes every operation safe: `push_to_queue` counts a cell only if it had no
  item, and a flush empties both. The early `draw_cursor` is the case that breaks it
  between, and only within one flush. `CellsCount` bounds the cells by rows * cols through
  an injection into 1..(rows * cols).
- `TypeCorrect` proves `TypeOK`, from `TermInv`: every branch of the parser keeps the
  parser's state, the modes, the colours and the context well formed. For `fb` it rests
  on `Frames`, what an operation of the backend leaves alone: all but the queue, the map
  and the cursor.
- `InkAlwaysRecorded` proves `InkIsRecorded`, by what each SGR value does to a pen that
  is right; the list of values is followed by induction over its length.
- `TextKeepsToRegion` proves `RegionOnly`. Each operation has a lemma that says what it
  makes of the text (`Content`, the queued character of a cell or else the drawn one), so
  that the queue drops out of the argument.
- `FlushShowsText` proves `WriteShows`. The invariant is `Drawn`: until a flush, the pixels
  are those of `grid` with the cursor where it was last drawn, shown or not. A flush turns
  the pixels of each cell from those of `grid` into those of the text: the cases are the cell
  of the cursor, the one it left, one that is queued and one that is not. `OfCell` (a pixel is
  of one cell at most) needs the arithmetic of quotients, proved in `Division` and
  `OneQuotient`.
- `ConsoleIsPlain` proves `PlainText`, the refinement of `TextScreen`, in full: the initial
  states correspond and every step is one of `TextScreen` or a stutter. Its hypothesis
  `Printed` is what putchar_ does (main.c:116-119): a write is one byte and a NUL, which ends
  whatever the byte opened. It excludes the byte 9b, which opens a control sequence that
  a NUL does not end, and asks that NUL is no byte of UTF-8. The instance of `console` satisfies it.
  The invariant `Console` says the region is the whole screen, no mode is on, and what can be
  left of a write.

**ProgramsProofs**, the ramdisk (assumes `RamdiskAssumption`: command lines are sequences
of names, contents are sequences, `Missing` is neither). `RamdiskReadsBack` proves
`ReadBack`. The
invariant `Image` says that headers lie end to end in the order of the command line, that
an unchanged file's size is right, and that what is copied lies where its header says,
with the unchanged files' bytes; it is inductive because the builder writes the size the
header has, not the bytes it read (a short read is filled from the buffer).

**ProgramsProofs**, printf (assumes `FormatAssumption`: buffer sizes are positive, the
types' widths are in order, and powers of two are positive, which the provers know no
arithmetic for). `PrintfTerminates` proves `Terminated` of `FormatSpec`: any calls of a
set `Calls`, one after another. `Alphabet` says that no format or string has a NUL as a
character; `ArgumentsMatch`, assumed at every step, is the contract of a variadic
function: a directive finds an argument of its type. Every call of `programs` satisfies
both. The invariant `CallInv` says that while a call runs its gadget holds the characters
at 0..pos-1 that are before max_chars, no NUL among them; so each text put out must be
without NUL, which is why every stage of a number (digits, zeros, the digits taken back
for a prefix, prefix, sign, blanks) is followed, and why `FinalLetters` shows that never
more digits are taken back than zeros were added. A format that ends inside a directive
leaves the theorem's scope as it leaves its string (`PastTheEnd`).

**ProgramsProofs**, the programs (assumes `FormatAssumption`, `RamdiskAssumption` and
`PrintedAssumption`: rows are not empty, NULL is no name, bytes have codes, and a file
is shorter than an int can count).
`ProgramsShow` proves `ProgramShows` of `ProgramsSpec`, where every character goes through
the interpreter of formats. Its hypotheses: `Powers`, the law of powers of 2 and 16, which
the provers have no theory of; `Alphabet` as above; `Texts`, that what the programs print,
the names and the bytes other than NUL are letters, and NULL is no string. The
instance of `programs` satisfies all three. The argument has three layers:

- Numbers: the digits that `ntoa` takes from the low end, with the zeros of `%08x`, are the
  reference's, which are defined from the high end.
- A call: `Pending(text)` says what text the call in progress will have put out when it
  returns, from what its gadget holds and where in the format it is; `OutputStep` shows
  that each step leaves it so or returns, having printed that text. This also
  shows that no call of a program ends inside a directive.
- A program: `HexAt` says what hexdump has printed at each place of its loops (the rows
  before, the bytes of this one, the blanks, the characters), and `Sofar` the same of all
  three. `ShowInv` joins the two layers: printed is the text so far or, during a call,
  becomes it with that text. `ProgramShows` alone is not inductive, as it speaks
  only of programs that have ended. The ramdisk's `Image` is a conjunct, for a
  program is given the bytes that `RamdiskReadsBack` speaks of.

The reference's texts are flattened sequences of lines; what flattening does to one more
line is proved by induction over sets, as below.

The installed provers cannot instantiate a theorem about an operator, so induction is done
over sets: `SetInduction` is proved from the axioms of the natural numbers for a set of
numbers, and `Iteration` says that the recursive function a definition names exists and
satisfies its equation. The models' recursive functions (`Search`, `Shift`, `MapPages`,
`elf_exec`) are of this form for that reason.

Only model-checked, and why:

- Liveness, which is out of the prover's reach: `NoStarvation`, `ShellResumes`,
  `EndedIsReaped`, `RegularReturns`, `TimerServed`, and the fairness in `Jobs`.
- `AsSpecified`, for all conversions, flags, widths and precisions and for
  buffers that cut the text short. `ProgramsShow` does it for `%s`, `%c`, `%x` and `%08x`;
  the other conversions need an argument of the same kind each.

## 5. Abstractions and what is not modelled

- `sched_lock` is left out: `lock` returns at once when the flag is set, and on
  CPU 0 its callers have interrupts off, so it never changes an outcome there.
- The boot context's first interrupt saves nothing (`sched_current_task` is
  NULL); in `Irq` one task stands for it at the start.
- Memory contents: what `kfree` zeroes, including the bytes past its block and
  the stack it takes for a heap block, is not in `AddrSpace`. A task's data can be
  damaged in the code in ways these models do not show.
- `AddrSpace` leaves out the upper half of the page maps, which is the kernel's in each
  and complete after `vmm_init`, the kernel's image in it, and the entries' flags.
  What a program has past the first page of a segment faults when touched (`SegmentsWhole`).
- Writes past `sched_list` and `ipc_signals` are stated as properties, not
  followed into the memory they hit.
- `Input` says where a line runs over `str`, or an argument over `temp` or `args`
  (shell.c:10, 70, 71, none of which is checked), and does not follow the shell beyond.
  A line "help" makes no arguments; which letters a line has is not modelled.
- `Input`'s screen is not always the line, and `LineIsEcho` is about tidy lines only. Tab and
  escape are keys with characters (kb_map.h:6, 8), which the shell stores and echoes like
  letters (shell.c:32-35): a tab moves the cursor and prints nothing, an escape shows nothing
  (the NUL that `putchar_` sends after it ends the sequence), and the backspace that takes
  either back still steps back one cell and blanks it. A backspace where the cursor is past the end of
  a full row, or at the start of the next, erases another cell than the last character's
  (flanterm.c:1305-1307, fb.c:522-548). The model does all of it. What it leaves out is other
  output while a line is typed, which moves the screen under it, and a line longer than
  the whole screen, whose beginning scrolls away.
- How long a task is starved when tasks never stop dying: deaths are bounded by `MaxCreated`
  in `NoStarvation`.
- Scancodes without a map entry past the end of the tables are not modelled.
- `Terminal`: the canvas (a background image), font scaling and the callbacks for the
  host are not used by the kernel's calls and left out; the tables of wide, combining and
  code page characters keep the entries the runs need. A parameter above 255 of a 256
  colour sequence reads past `col256` (flanterm.c:371), and one that overflows is not
  modelled. raw_putchar
  bounds `cursor_y` by `cols` where `rows` is meant (fb.c:702); the model keeps that and
  assumes a screen at least as wide as high, in characters, as every screen it is
  started on is.
- `Format`: floating point is compiled out. A format that ends inside a directive makes
  the code read past its NUL (printf.c:1343); the model stops at `PastTheEnd`.
- `Ramdisk`: names are values, so the unchecked `strcpy` into `name[50]` (quasfs.c:27) is
  not followed; `quasfs_dir`'s undersized array (initrd/quasfs.c:40) is the heap's matter.
- `Programs`: cat and hexdump without the file's memory running out; app.c only as a kind
  of program in `Kernel`.
- Disagreements with what one would expect that properties allow, as the code has
  them: printf takes a negative `*` precision for 0 (`PrintfNegative.cfg`); cat prints on past the end of a file up to the next NUL; CSI X and CSI P with a
  count past the line blank the next one (flanterm.c:698-706); a backspace after a full
  line lands a column short (flanterm.c:1305); ESC 8 without ESC 7 gives black on black;
  the clear system call draws nothing until the next write.
- Mouse (`mouse_init` is never called), window manager, framebuffer drawing, ACPI, LAPIC,
  CPU 1's output and the lock with two CPUs are not modelled; serial, GDT, limine.h, the
  sanitizer runtimes and the programs' own printf (which none links) will not be: they
  hold no state the rest depends on. The ramdisk viewer is a host tool that prints.

## 6. Plan

Done, in this order: Sched, SchedProofs, Ipc, Kernel with JobControl, Pmm with
PageAllocator and PmmProofs, AddrSpace, Input, Rtc, Irq, DeviceProofs, Framebuffer and
Terminal with TextScreen, Format with StandardPrintf, Ramdisk,
Programs, KernelProofs, InputProofs, AddrSpaceProofs, TerminalProofs, ProgramsProofs.

Next, models:

1. `HeapBlocks`: headers, recorded lengths and what kfree and sched_remove_task
   zero, over the pages of `AddrSpace`.
2. `Lock`: two CPUs, printf and the terminal's queue, with `lock` as it is.
3. `Madt`, the walk of the ACPI table; pixel bounds of the framebuffer.

Next, proofs: the texts of `AsSpecified`, conversion by conversion.
