# Vailism OS in TLA+

Vailism OS is a monolithic x86-64 teaching kernel: one CPU, one address space,
a timer-driven round-robin scheduler, a bitmap page allocator, a first-fit heap,
a RAM file system, a system-call stub, PS/2 input, an ATA driver, a shell and a
desktop. This directory holds TLA+ models of its parts, the TLC runs that check
them on small instances, and TLAPS proofs of what matters most for every size.
Paths below are relative to `src/src/` unless they start with `src/README.md`.

## 1. Inventory

| Component | State | Operations | What must hold, and what makes it hard |
|---|---|---|---|
| Scheduler and context switch (`kernel/scheduler.c`, `arch/x86_64/context_switch.asm`) | `g_threads[]` (state, saved stack pointer, slice, deadline), `g_current_thread`, one stack per thread | `thread_create`, `scheduler_schedule`, `thread_sleep`, `thread_exit`, `scheduler_timer_tick`, `context_switch` | One running thread, the CPU on its stack; sleeps last long enough and not much longer; an exit is final; every thread gets its turn. There is no lock: calls come from thread code and from inside the timer interrupt |
| Interrupt controllers (`kernel/pic.c`) | request, service and mask registers of two 8259s | `pic_init`, `pic_unmask_irq`, `pic_send_eoi` | The end of interrupt names no line: it must clear the right one although handlers switch stacks before they send it |
| Stubs and dispatcher (`arch/x86_64/interrupts.asm`, `kernel/idt.c`) | handler table, frames on the interrupted stack | `isr_common_stub`, `isr_handler_dispatch` | Each interrupt is ended exactly once, after its handler |
| Timer (`kernel/timer.c`) | `g_timer_ticks` | `timer_callback`, `timer_get_ticks` | Ticks are counted; the slice is charged to the current thread |
| Boot (`kernel/main.c`) | none | `kmain` | Workers are created with interrupts off; then `sti`, the shell, and `hlt` for ever |
| Physical memory (`kernel/pmm.c`) | bitmap, total/free/used counters, search hint | `pmm_init`, `pmm_alloc_page(s)`, `pmm_free_page(s)` | No frame handed out twice, reserved memory never, counters equal to the bitmap, a request refused only when it must be |
| Virtual memory (`kernel/vmm.c`) | page tables in frames | `vmm_map_page`, `vmm_unmap_page`, `vmm_switch_pml4` | A walk allocates the missing tables; what happens when that fails half-way |
| Heap (`kernel/heap.c`) | list of blocks with a magic word | `kmalloc`, `kfree`, `krealloc`, `heap_expand` | Blocks tile the heap, live blocks are disjoint, neighbours merge; expansion may fail |
| VFS (`kernel/vfs.c`) | node tree, contents, 64 descriptors | `vfs_lookup/mkdir/create_file/open/read/write/close` | Names unique per directory; a descriptor's offset and its file agree; errors leave things as they were |
| System calls (`kernel/syscall.c`, `arch/x86_64/syscall.asm`) | MSRs, argument registers | `syscall_entry`, `syscall_dispatch` | Arguments reach the parameters they are meant for |
| Keyboard, mouse, PS/2 (`kernel/keyboard.c`, `mouse.c`, `ps2.c`) | shift/caps state; packet position, coordinates, buttons | scan code and packet decoders, in interrupts | The decoder's place in the stream; the coordinates stay on the screen |
| ATA (`kernel/ata.c`) | the drive's status | `ata_read_sector`, `ata_write_sector` | Order of commands and waits; errors |
| Shell (`kernel/shell.c`) | line buffer | `shell_handle_char`, commands, all inside the keyboard interrupt | The line never overflows; `gui` never returns |
| Windows (`kernel/gui.c`) | window list, focus, drag | `gui_create_window`, `gui_handle_mouse`, `gui_render_frame` | List order, focus and drag target agree |
| Console, serial, strings, GDT/TSS | cursor; tables | output, copying, start-up | Mostly output; the string functions' edge cases |

How they interact: the timer, keyboard and mouse interrupts enter through the
stubs and the dispatcher. The timer handler calls the scheduler from inside the
interrupt; the keyboard handler calls the shell, which calls the file system,
the heap, the page allocator and, for `gui`, the desktop loop, all inside the
interrupt as well. The desktop loop and the workers call the scheduler through
`thread_sleep`. Apart from the boot thread and the two workers nothing runs
concurrently, but every one of these calls shares the thread table and the
controllers' state.

`PROJECT.json` lists every component with its status, and every hazard at the
line where it bites.

## 2. Plan

| Part | Modules | Abstract specification | Proofs |
|---|---|---|---|
| 1. Scheduler, interrupt controllers, timer, kmain | `Pic`, `Scheduler` | `WorkerContract` | `SchedulerInvariant`, `SchedulerProofs` |
| 2. Page allocator | `Pmm` | `FrameAllocator` | `PmmProofs` |
| 3. Heap and page tables | `Heap`, composed with `Vmm` | `MemoryPool` | `NumberLemmas`, `VmmProofs`, `HeapProofs` |
| 4. File system and its callers | `Vfs`, `FileClients` | `OpenFiles` | `FilesProofs` |
| 5. Devices | `Screen`, `Keyboard`, `Mouse`, `Console`, `Shell`, composed by `Ps2`; `Ata`; all composed by `Devices` | | `DevicesProofs` |
| 6. Windows | `Gui` | | `GuiProofs` |
| 7. System-call entry | `SyscallEntry` | | |

The parts were modelled in this order, the one with the least forgiving
concurrency first. Each is written so that it can be proved about: parameters as
constants with named assumptions, one action per operation, no recursive
operators. The `MC` modules hold only values for the constants.

Every safety invariant of the passing runs is stated by a theorem. What is left: a user
program, should the kernel get one, which would compose `SyscallEntry` with the scheduler.

## 3. The modules of the scheduler

`Pic` models the two 8259s: `irr`, `isr` and `imr` are sets of lines. What
`pic.c` does is `InitialMask`, `Unmask` and `SendEoi`; how the chip acts on a
request (fully nested priority, the slave on line 2) is external hardware,
modelled from what the commands of `pic.c` rely on. A line in service holds back
itself and every line of lower priority.

`Scheduler` models the CPU, the stacks and the scheduler's code.

| Model | Code |
|---|---|
| `state`, `slice`, `until`, `rsp` | `thread_t` of each slot; `rsp[t]` is the stack on whose top the saved context lies |
| `current`, `ticks` | `g_current_thread`, `g_timer_ticks` |
| `stack[t]` | the functions that have not returned on the stack of `t`, each with the step it does next and the locals it needs later |
| `cpu`, `iflag` | the stack RSP points into; IF of RFLAGS |
| `job`, `left`, `made` | a worker's entry function and loop counter; kmain's progress |
| `ThreadCreate`, `EnableInterrupts` | `kmain` from `scheduler_init` on: creating the workers, then `sti`, the shell and the `hlt` loop |
| `Interrupt`, `EndOfInterrupt`, `InterruptReturn` | `isr_common_stub` and `isr_handler_dispatch` |
| `TimerCallback`, `InputCallback`, `StartDesktop` | the handlers of lines 0, 1 and 12 |
| `WakeSleepers`, `Scan`, `NoneReady`, `WaitForTick`, `Halt`, `Commit`, `ContextSwitch` | `scheduler_schedule`, split where an interrupt can come between with an effect, and the assembly switch |
| `WorkerCycle`, `DesktopCycle`, `GoToSleep`, `ThreadExit`, `Trampoline` | the threads' code: `thread_sleep` up to the deadline (lines 155-161), `thread_sleep` from the state on, `thread_exit`, the trampoline |

An interrupt frame lies on the stack of the thread it interrupted and stays
there when the handler switches away: the end of interrupt is sent when that
thread is resumed. RFLAGS is not saved by `context_switch`, so `iflag` belongs to
the CPU and not to a thread. The wait for a tick (`scheduler.c:121`) reads the tick, then
executes `sti` and `hlt`: where interrupts are on already, one can come between the two
(step `armed`).

`WorkerCycle` is one step, since kmain's workers sleep at once in every cycle. A cycle that
takes long is one whose step is taken late: the timer's line may be raised meanwhile, but
nothing is presented to the CPU (theorem `WorkersRunOn`), because the interrupt
that switched to the worker has not been ended (`kernel/idt.c:129`). So a worker is not
preempted, whatever `src/README.md:430` says of the scheduler, and `WorkersFinish` and `InputServed` hold because
these two workers sleep: fairness gives each cycle an end.

Left out: the contents of stacks other than return points; `yield` and
`timer_sleep` (no caller); exceptions (the machine halts); handlers of lines
3 to 15 other than the mouse (masked). A context saved on a foreign stack ends
the model at the next switch (`OwnStack` guards `ContextSwitch`): from there on
two threads overwrite each other's frames. Only runs with the desktop started
beside workers reach that.

`Desktop` says when `gui` can be typed: never, when no worker is left, or at any
time. `WorkerContract` is the abstract specification: ticks pass, a worker is
created, does a cycle when it is awake, exits when it has done them all.

### The modules of the page allocator

`Pmm` counts addresses and lengths in pages. The bitmap is the set of the bits
that are 1; only where the bits themselves are kept matters beside their values,
and `FrameOfBit` says it.

| Model | Code |
|---|---|
| `bitmap`, `free`, `used`, `last`, `total`, `base` | `g_bitmap`, `g_free_pages`, `g_used_pages`, `g_last_index`, `g_total_pages`, the address of `g_bitmap` |
| `memmap`, `IsMap` | the boot loader's memory map: sorted, disjoint entries |
| `Init` | `pmm_init`: the size and place of the bitmap, the usable pages, the bitmap's own, the first megabyte |
| `AllocPage`, `NextFree` | `pmm_alloc_page`: next fit from `g_last_index`, wrapping |
| `AllocRun`, `FirstRun`, `AllocNothing` | `pmm_alloc_pages`: first fit, which leaves the hint alone; zero pages |
| `FreePages` | `pmm_free_page` and `pmm_free_pages`: NULL, pages beyond the end and pages already free are passed over |
| `held`, `answer` | what the clients have, and the last reply: ghost state for the properties |

The searches read nothing that changes while they run, so each call is one step.
Clients are assumed to free what they hold, what is free already, or NULL; a client
that frees somebody else's frame would break any allocator. A `pmm_init` that
finds no room for the bitmap returns with a null pointer in its place and is left
out: nothing after it could run. `FrameAllocator` is the abstract specification.

### The modules of the heap

`Heap` counts addresses in bytes. `block` maps the address of each header in the
list to its size, whether it is free, and its two links; a block that is merged
leaves the map.

| Model | Code |
|---|---|
| `block`, `head`, `top` | `struct heap_block`, `g_heap_head`, `g_heap_top` |
| `frames`, `entry` of `Vmm` | what `pmm_alloc_page` still has, for pages and for page tables; the entries of the tables that are present |
| `call` | where the call under way is: the search, or `heap_expand` with so many pages to go |
| `live` | pointer -> bytes asked for: ghost state, what the clients have |
| `Kmalloc`, `Take` (with `FirstFit`, `Split`), `NothingFits` | `kmalloc` |
| `ExpandPage`, `ExpandFault`, `ExpandDone` (with `Appended`, `Grown`) | `heap_expand`, one step per page, its early return, and the write to a page that could not be mapped |
| `Kfree` (with `Freed`, `MergeNext`) | `kfree` |
| `Krealloc` | `krealloc`; when the block must move, `Take` frees the old one |

`krealloc` of a null pointer is `kmalloc`, and of size 0 `kfree`. All calls come from
kmain before interrupts are enabled or from inside the keyboard interrupt, which
nothing interrupts, so calls do not interleave. Clients write inside what they
asked for and free what they have: no header loses its magic number and the checks
of it are left out. Sizes and addresses do not wrap. `MemoryPool` is the abstract
specification.

`Vmm` is the tree of page tables as a function from an entry (a table and an index)
to a frame. `Walk` is `vmm_map_page`'s descent with `get_next_level`, which makes the
tables it misses and may find no frame for one; what was linked by then stays.
`Translate` is what the processor would find, and a header written where it finds
nothing is the page fault of `ExpandFault`. `vmm_init` takes over the tables that CR3 leads
to (`VmmInit`): of what the loader has mapped there, one page stands for those that share
tables with the heap's (`KernelPage`, below the heap, as the kernel is not, but under
the same entry of the root).

### The modules of the file system

A path is the sequence of the components between its slashes (`/a/` is `<<a, Empty>>`),
so that doubled and trailing slashes, the root and a relative path stay distinct cases
while no characters are handled. Each call of `vfs.h` is an operator from a state
(nodes, descriptors, result) to a state, because kmain's checks and the commands of the
shell are several calls in a row that nothing interrupts.

| Model | Code |
|---|---|
| `node`, `fd` | `struct vfs_node` with its list of children and its buffer; `g_fd_table` |
| `setup`, `VfsInit` | the calls `vfs_init` makes |
| `Find`, `Enter`, `Lookup`, `Parent` | `ramfs_finddir`, `vfs_lookup` (`Enter` is one turn of its loop), the split of a path at its last slash |
| `Mkdir`, `CreateFile`, `Open`, `Read`, `Write`, `Close` | the calls of `vfs.h`, with `ramfs_read` and `ramfs_write` |
| `Check` | kmain's two checks after `vfs_init` |
| `ShellCommand` (with `Cat`, `Touch`, `Save`) | `mkdir`, `cat`, `touch`, `write` |
| `SystemCall` | the cases of `syscall_dispatch` that reach the file system; any program may make them |

What a reader of the code might not expect is kept: the access mode of a descriptor is
stored and never looked at; truncation sets the size to 0 and keeps the buffer with its
bytes; a write beyond the end leaves a gap of whatever the buffer held; `vfs_open`
creates or truncates before it looks for a free descriptor; descriptors 1 and 2 of
`SYS_WRITE` are the console, also when the file system has handed them out. A buffer's
capacity and the junk a new buffer holds are in the model, so that a byte nobody wrote
can be told from one that somebody did.

Left out: names longer than a node keeps (127 bytes), a `kmalloc` that fails (it does
not return, see `heap_out_of_memory`), `vfs_list_dir` (output). `OpenFiles` is the
abstract specification: files are sequences of bytes in the order in which they were
made, and a descriptor is a file and an offset.

### The modules of the devices

`Ps2` composes the keyboard's and the mouse's decoder with the shell's line editor
and the console, since they run inside each other's interrupts; `Devices` adds the disk
in kmain's order.

| Model | Code |
|---|---|
| `boot` | what kmain has still to do from `ps2_init` to `sti` |
| `Configure`, `EnablePort`, `Order`, `Poll` | `ps2_init`, `ps2_mouse_write`, `ps2_read_data` as `mouse_init` uses them |
| `buffer`, `Arrive`, `raised` | the controller's one output byte with the mark of its device, and the interrupts (external) |
| `Callback`, `HandleScancode`, `HandleMouse` | `keyboard_callback` and `mouse_callback`, either of which takes whatever byte is there |
| `Keyboard!Scancode`, `Character` | `keyboard_handle_scancode`: shift, caps lock, the two tables |
| `Mouse!MouseByte` | `mouse_handle_byte`: the place in the packet, signs, overflow, clamping |
| `Shell`: `ShellInit`, `HandleChar` | `shell_init` step by step with interrupts on; `shell_handle_char` and the output of a command |
| `Console`: `Put` and its parts | `fb_putchar`: newline, backspace, wrapping, scrolling |
| `Ata` | `ata_init`, `ata_read_sector`, `ata_write_sector`, one read or write of a port at a time where the drive can move in between |

Thread 0 loads the cursor and stores it back one step later, so that a keystroke
handled between them is overwritten: the race is in the code and in the model. A
scroll is one step: no keystroke is lost in it that the load and store do not lose
as well. The keyboard, the mouse, the controller and the drive
are external: they answer at once, later, or, for the drive, with an error; a mouse that
replies after `ps2_read_data` gave up leaves its reply to the interrupt handler.

Left out: history, serial output and colours; ctrl and alt, which nothing reads; the
ninth bit of a movement (no packet moves further than 127); the bus no drive is on,
which reads as 0xFF. A call of the disk without a buffer is refused (`NoBuffer`).

### The module of the windows

`Gui` is the loop of `gui_run_desktop`: look at the mouse (`HandleMouse`, one action per
outcome: `Close`, `Grab`, `Activate`, `Miss`, `Drag`, `Release`), then paint (`Render`).
`window` is `g_windows` with the last one on top, `active` is `g_active_window`. A frame
says for each pixel what was painted there last. The pointer may be anywhere in every
frame, and so may the button: that the mouse is not heard in the program as it stands
(run `desktop_mouse`) is left out, for it would leave nothing to check. Contents of
windows are taken to fit in them; colours, text and the pointer's picture are left out. So are
the two ways out of `gui_init`: kmain halts where there is no framebuffer, and a `kmalloc`
that has no memory does not return (run `heap_out_of_memory`), so the compositor never falls
back to the front buffer.

### The module of the system call

`SyscallEntry` executes the stub of `arch/x86_64/syscall.asm` on registers: the
instruction itself, the pushes, the five moves one after the other, the call, and the
pops. The arguments of a call are five different values, so that it can be seen where each
one goes. No program runs in user mode in this kernel, so nothing enters the stub.

## 4. What the runs check

| Run | Instance | Result |
|---|---|---|
| `boot` | 4 slots, slice 5 as in the code, two workers of 3 cycles as in the code with periods of 6 and 10 ticks, `kmalloc` failing or not, 60 ticks, 2 inputs, no desktop | all properties hold |
| `desktop_alone` | 2 slots, slice 2, a desktop started when no worker is left, 10 ticks | the desktop's sleeps end, the books balance |
| `desktop_mouse` | desktop after the workers | `DesktopHearsMouse` is violated |
| `desktop_exit` | desktop at any time | `ExitIsFinal` is violated |
| `pmm` | three memory maps, requests of up to three pages | all properties hold |
| `pmm_bitmap` | a fourth map | `BitmapPrivate` is violated |
| `heap` | four to nine free frames before `vmm_init`'s tables, tables of three levels | all properties hold |
| `heap_out_of_memory` | five free frames | `KmallocReturns` is violated |
| `files` | 2 descriptors, up to 4 nodes, files of up to 3 bytes | all properties hold |
| `devices` | six scenarios of keys, packets and disk calls | all properties hold |
| `windows` | the three windows of `gui_init`, six places of the pointer | all properties hold |
| `syscall_arguments` | one call with five different arguments | `ArgumentsArrive` is violated |

No run uses symmetry. Deadlock is checked where the system cannot stop (`pmm`, `files`,
`windows`); the bound on ticks, the scenarios' budgets and the page fault
stop the others.

### Scheduler: `boot`, `desktop_alone`, `desktop_mouse`, `desktop_exit`

`MaxTicks` bounds the timer interrupts and `MaxInput` those of the keyboard and the
mouse. The number of workers is the program's own (two). The periods of kmain's workers
(30 and 50 ticks) are multiples of the slice, so every deadline would coincide with the
end of one; periods of 6 and 10 let deadlines fall inside a slice and with its end, and
60 ticks are enough for all cycles. A slice of 2 in the other runs is the least that
distinguishes a tick that reschedules from one that does not.

- `IInv`: the inductive invariant of section 5, found out here before it was proved.
- `OneRunning`: outside `scheduler_schedule` the CPU is on the stack of
  `g_current_thread`, the one thread in RUNNING.
- `OwnStack`, `NotReentered`: no stack pointer is saved under another thread; no
  call of `scheduler_schedule` finds another one under way, or is interrupted.
- `EoiBalanced`: the lines in service are those of the handlers on all stacks
  that have not sent their end of interrupt.
- `SleepRespected`, `WakeLatency`: a sleep lasts at least what was asked for and
  a sleeper is overdue by less than a slice.
- `ExitIsFinal`, `WorkersFinish`: `thread_exit` does not return; every worker that
  is created finishes.
- `InputServed`: a request of the keyboard or the mouse is acknowledged in the end.
- `KeepsContract`: `Scheduler` implements `WorkerContract`.
- `SleeperWakes`: the desktop's sleep ends.

Fairness (`FairSpec`): the CPU executes (weak fairness of `CpuStep`; it is
disabled only in a `hlt`), takes an interrupt presented for ever with IF set, and
the timer raises its line again and again. Nothing is assumed of input.

### Page allocator: `pmm`, `pmm_bitmap`

The geometry is shrunk so that its edges fall within a dozen pages: two bits to a
byte, two bytes to a page, two pages of low memory. The three maps have a hole and
reserved memory on top, low memory too small for the bitmap, and a number of pages
that is no multiple of a byte; requests go up to three pages, enough for a run to be
broken by one used page in its middle. Run `pmm_bitmap` adds a fourth map.

- `CountersAgree`: each counter, adjusted by what a call was asked, is what
  counting the bits would give.
- `ReservedKept`, `NothingLost`: what must not be handed out never is, and every
  other frame is held or free.
- `BitmapPrivate`: no client holds the frame that a bit of the bitmap lies in.
- `IsAllocator`: `Pmm` implements `FrameAllocator`; no frame has two holders and
  a request is refused only when no run of free frames is long enough, wherever
  the hint points.

### Heap: `heap`, `heap_out_of_memory`

An alignment of 2, headers of 4 and pages of 8 bytes (the code has 16, 32 and 4096)
make splits and merges cross pages. Tables of three levels with three entries each
are enough for the walk to miss none, one or both of the tables below the root. Six
numbers of free frames, four to nine, of which the kernel's page and its tables take three,
run out before, between and inside
expansions, and between a page and its table. The heap's first page shares the upper of
its tables with the kernel's page and misses the lower one. All are too few for the heap to reach the
end of the addresses (`FramesAssumption`); what the code does there, after a
gigabyte, is the hazard at `kernel/heap.c:57`. The three sizes are less than a page,
exactly one, and just too much for one because of the header.

- `WellFormed`: the blocks tile the heap and the links follow the tiles (`Tiled`),
  no two neighbours are free (`Coalesced`), and the others are what the clients
  have (`Owned`).
- `GrowsOnlyWhenFull`: pages are added only when no gap between the clients' blocks
  is large enough, however memory was split and freed.
- `ExpansionSuffices`: an expansion that got its pages is enough for the request.
- `HeapMapped`: the processor finds every page of the heap, each in a frame of its own,
  the kernel's page where it was, and no other.
- `IsPool`: `Heap` implements `MemoryPool`; nothing a client has overlaps anything.
- `EnoughMemoryReturns`: with frames for the pages and for the tables they enter
  (`NewTables`), `kmalloc` returns (`FairSpec`: a call that is made is executed).

Run `heap_out_of_memory` drops that condition, and `KmallocReturns` fails.

### File system: `files`

`vfs_init` is cut to one directory and one file, kmain's checks to that file, so that
later calls meet what they left behind. Two descriptors are enough to have the same file
open twice and to have none left; a least buffer of 2 and files of 3 make a buffer grow
once; the paths are one that is not absolute, the root, a plain name, one with a slash
at the end and one with two in a row. Each file or directory keeps to `MaxNodes`,
`MaxSize` and `MaxBuffers`: a call that would exceed them is not made.

- `WellFormed`: the nodes are a tree with one name once in each directory, and every
  descriptor refers to a node of it.
- `NoJunk`: a file's bytes, and those before the place of any descriptor, were written
  by somebody, though other descriptors truncate the file and buffers move: neither a
  read nor the gap a write leaves shows memory that nothing was written to.
- `CommandsCloseTheirFiles`: from every state, a command gives back the descriptor it
  took.
- `FailuresContained`: a call that returned -1 changed nothing; an open that found no
  descriptor has made or emptied its file by then, and touched neither another file nor a
  descriptor.
- `PathsStay`: what a path names it names for ever, whatever is made later.
- `KeepsContents`: `FileClients` implements `OpenFiles`.

### Devices: `devices`

A scenario says which keys are used and how often, whether there is a mouse and how
many packets it sends, and how many calls are made of the disk. They are chosen to share
what can interfere: keys typed into `shell_init`; both shift keys with an arrow behind
its prefix; caps lock with shift; a mouse with a shift key; a mouse with two packets; a
disk. `Key` waits until the last one is sent, which loses no order of bytes, for the
keyboard sends them in order. The text area has two lines of a few characters, so that
the banner scrolls it and what is typed wraps; the shell's line holds less than three. Sectors have two words, one more address than the drive has is
asked for.

- `CursorOnScreen`: whatever the keyboard handler writes between a load and a store of
  the cursor, no glyph is drawn outside the screen.
- `LineOnScreen`: at a prompt that nothing disturbed, the screen shows what will be
  executed.
- `NoByteIsStuck`: a byte in the controller has an interrupt that will have it read.
- `PointerAsMoved`: when `mouse_init` read both replies, the pointer is what the packets
  come to.
- `ShiftReleased`: shift is off once every key is up.
- `SectorTransferred`: a call that returned true has transferred the whole sector.
- `CallsReturn`: every call returns. `Fairness`: the driver runs on while it polls, and
  a drive that is busy is not so for ever. Nothing is assumed of a drive that is ready
  late: the bound on the polls covers it.

### Windows: `windows`

A screen of 16 by 16 with bars of 2, on which the three windows overlap as on a real
one. The six places are a close button, two title bars, the inside of a window, and two
corners of the screen, which drag a window against both bars and off both sides.

- `OneDrag`: only the active window is dragged, and no closed window is active.
- `GrabStays`: a dragged window stays where it was grabbed, except at the bars.
- `Reachable`: every window lies between the bars and can be grabbed again.
- `ShownIsHit`: a press goes to the window that is seen there.

### Disagreements between the code and its comments

1. `desktop_mouse`: the desktop runs inside the keyboard interrupt, which is
   never ended; the master holds back the slave's line and the mouse with it.
2. `desktop_exit`: the desktop calls the scheduler with interrupts enabled and
   the timer not in service, so a tick can come between the scan and the commit;
   the thread chosen may have exited by then. In the same runs a sleeper can be
   woken early (`SleepRespected`) and a stack pointer saved under the wrong thread
   (`OwnStack`); they have the same cause and no run of their own.
3. `pmm_bitmap`: `pmm_init` divides the number of pages by 8, rounding down, before
   it rounds up to pages (`kernel/pmm.c:48`). When the quotient is a whole number
   of pages and the division left a remainder (128 MiB and one to seven pages),
   the bits of the last pages lie in a frame that is not reserved for them.
4. `heap_out_of_memory`: `kmalloc` calls itself after `heap_expand` whether or not a
   page was added (`kernel/heap.c:107`). Without a free frame it never returns, and
   the branches its callers have for NULL (threads, files, the compositor) are dead
   code. `StackRefused` of `Scheduler` models that branch as it is written.
5. `syscall_arguments`: each move of the entry stub puts an argument one parameter too
   far, and none writes RSI (`arch/x86_64/syscall.asm:47`). The comment above them (line
   44) has a1 to a5 in the order of the parameters; the dispatcher gets a2, a1, a2, a3, a4.

A sixth is a theorem and no run: `src/README.md:430` and `include/scheduler.h:41` speak of
preemption, and `WorkersRunOn` shows that without
the desktop no worker is ever interrupted.

## 5. What is proved

`SchedulerInvariant` states the invariant `IInv`; `SchedulerProofs` what the stack
operations do to the shapes it describes, its preservation by every action, what
follows from it, and the refinement. All theorems are
of the form `Spec /\ Desktop = "never" => ...`, for every number of threads, slots,
jobs, periods, cycles, ticks and inputs, and assume only the named assumptions on
the constants in `Scheduler`.

The scheduler's properties are not inductive. `OneRunning` and `NotReentered` need to know why
a call of `scheduler_schedule` is never interrupted although nothing disables
interrupts in it for a thread's own call: the argument is that whenever the CPU is
off the boot thread's stack, or in `scheduler_schedule`, the timer interrupt taken
on the boot thread's stack has not been ended (`InService`), and line 0 in service
holds back every line (`TimerHoldsBack`). So an interrupt only ever finds the CPU
in kmain or in a handler about to return (`InterruptedCode`). The same fact means that
a worker that computed instead of sleeping would not be preempted (`WorkersRunOn`): sending
the end of interrupt earlier would need a lock in its place. The rest of the
invariant says what the stacks look like (`Stacks`), that the thread table agrees
with them (`Table`, `Running`), what each phase of `scheduler_schedule` knows of
what the earlier ones found (`Scheduling`), and how overdue a sleeper can be
(`Latency`). With the desktop started beside workers, `InService` is exactly what
breaks, and with it `ExitIsFinal` in run `desktop_exit`.

| Theorem | Statement |
|---|---|
| `Inductive` | `[]IInv` |
| `TypeCorrect`, `NeverReentered`, `TableAgrees`, `StacksOwned`, `SleepsLastLongEnough`, `ExitNeverReturns`, `WokenInTime` | the safety invariants of run `boot` |
| `EoisBalanced` | `EoiBalanced`, which run `desktop_alone` checks with the desktop |
| `ContractKept` | `KeepsContract`: the refinement of `WorkerContract` |
| `WorkersRunOn` | nothing is presented to the CPU while it is on a worker's stack |

`PmmProofs` proves all of run `pmm` for every memory map and geometry, from the
assumptions on the constants alone. `PInv` is the conjunction of the type invariant and
the first three, none of which is inductive alone. `CountersAgree`
needs `TypeOK` (the bits are pages, finitely many), `NothingLost` needs
`ReservedKept` (a frame given back is not a reserved one), and the types of the
counters need `CountersAgree`. That a refusal is justified rests on `LeastExists`: a
nonempty set of pages has a least element, so a search that finds nothing had
nothing to find.

| Theorem | Statement |
|---|---|
| `Inductive` | `[]PInv` |
| `TypeCorrect`, `CountersCorrect`, `ReservedNeverHeld`, `FramesConserved` | the type invariant and three safety invariants of run `pmm` |
| `BitmapStaysPrivate` | `BitmapPrivate`, if the bitmap has a bit for every page (`BitmapFits`) or the number of pages is a multiple of 8: the exact gap of run `pmm_bitmap` |
| `AllocatorImplemented` | `IsAllocator`: the refinement of `FrameAllocator` |

`HeapProofs` proves the safety invariants of run `heap` and the refinement, for every
page size, header, alignment, number of levels and entries, set of free frames and set
of sizes, from the assumptions of `Heap` and `Vmm`. `HInv` says of

- the list: headers lie inside the heap, a block ends where the next one begins or at
  the top, and the two links of neighbours agree (`Chain`); no two neighbours are free
  (`Packed`); the head is the first block (`Headed`);
- the clients: what they have are the blocks that are not free, each large enough
  (`Holds`). With `Chain` that makes what two clients have disjoint;
- the call under way: what is known of it in the search, and in each step of an
  expansion (`CallKept`, `ExpansionKept`): from its first page on, the free memory at the
  top is at least what it has added, from which `ExpansionSuffices` follows;
- the page tables (`Paged`): `VmmProofs` shows that the entries form a tree whose leaves
  are the pages mapped so far, in frames that are not free. `vmm_map_page` adds the path
  to one leaf and disturbs no other, also when it fails half-way. What `vmm_init` finds is
  the path to `KernelPage`, so the invariant starts from the same lemma (`MapPageMaps`).

`GrowsOnlyWhenFull` is the one that needs all of it: memory that no client has is
covered by free blocks that do not touch, so a gap that is large enough is one free block,
which the search would have taken. The prover takes no induction over lists; `NumberLemmas`
has what replaces it: a nonempty set of numbers has a least element (`LeastExists`), from
which follow an induction for a given set (`Induction`) and that a recursive function is
what its definition says (`RecursionExists`).

| Theorem | Statement |
|---|---|
| `HeapInvariant` | `[]HInv` |
| `HeapWellFormed` | `WellFormed`: `Tiled`, `Coalesced` and `Owned` |
| `HeapGrowsOnlyWhenFull`, `HeapExpansionSuffices` | when the heap grows, and that it is enough |
| `HeapPagesMapped` | `HeapMapped`: what the processor finds |
| `HeapIsPool` | `IsPool`: the refinement of `MemoryPool` |

`FilesProofs` proves all of run `files`, for every set of names, paths, texts, sizes,
number of descriptors and sequence of calls in `Setup` that makes no file under a path
used before, as `vfs_init`'s literal paths do not (`SetupAssumption`). Since each call is an
operator from states to states, `Sound` is a property of a state: it is typed, its nodes
are a tree in which children are made after their directory (`Tree`), descriptors point
into it (`Pointing`), and bytes up to a file's size and a descriptor's offset were written
(`Full`). There is one lemma for what each call does to a sound state (`Makes`,
`Creates`, `Opens`, `Reads`, `Writes`, `Closes`); kmain's checks and the commands compose
them (`Acts`). That no file of `vfs_init` is there already takes `Made`: each node so far
has one of the paths that were used (`Paved`).

| Theorem | Statement |
|---|---|
| `FilesInvariant` | `[]FInv`: the state between two calls is `Sound` |
| `FilesWellFormed`, `FilesNoJunk`, `CommandsClose` | the safety invariants of run `files` |
| `FilesFailSafely`, `FilesPathsStay` | `FailuresContained` and `PathsStay`, about steps |
| `FilesKeepContents` | `KeepsContents`: the refinement of `OpenFiles`, if a file may be made with or replaced by any text (`Seq(Byte) \subseteq Wholes`; TLC needs a finite set there) |

`GuiProofs` proves all of run `windows` for every screen,
sizes of bars, and places of the pointer; that the screen has room for the first
windows is `LayoutAssumption`. `GInv` adds `HeldByTitle`: the column by which
a window was grabbed is one of the window's, and not one of its close button. Without it
`Reachable` is not inductive: a drag keeps a window reachable because that column goes
with the pointer, which is on the screen, and the clamps keep the title bar between the
bars. `ShownIsHit` needs what a frame is (`Painted`): when the mouse is looked at, a pixel that shows a window
shows the last one in the list that covers it, since the painter's loop keeps that of the
windows so far (`Layered`). The search begins at the other end of
the same list.

| Theorem | Statement |
|---|---|
| `DragIsOfActive` | `OneDrag` |
| `DragFollowsPointer` | `GrabStays` |
| `WindowsCanBeGrabbed` | `Reachable` |
| `PressesGoToWhatIsSeen` | `ShownIsHit` |

`DevicesProofs` proves the safety invariants of run `devices` for every screen, map of
keys, scenario and drive. Each has an invariant of its own:

- `ByteWaits`: a byte has its interrupt raised from the moment the controller is
  configured, and not only once the CPU listens; before that the controller may raise
  none and hold a byte.
- `ShiftHeld`: what shift will be once the bytes on their way are through
  (`AfterAll`) is set only if a shift key is down. That bytes were polled away at
  boot does no harm because a shift that is off leads to one that is on only where one
  that is on would too (`ShiftMonotone`).
- `AtaInv`: where the driver and the drive are relative to each other. The words so far
  agree with the sector (`Transferring`), and a drive that is no longer busy after the
  last word has stored it or has failed (`Storing`), so a flush command that is
  lost because the drive was busy costs nothing.
- `MouseInv`: as long as `mouse_init` reads both replies, the controller, the mouse's
  queue and the decoder agree at each step of the boot (`Agreed`). From then on the
  mouse's bytes under way complete the packet that the decoder is in and are at
  most one packet more, and decoding them leads to where the mouse has moved
  (`InStep`); a byte of the keyboard's between them changes nothing.
- `CursorInv`: the cursor stays in a box (`Within`) that depends on how far thread 0 is
  with its character (`FarRight`, `Highest`, `Lowest`), and so does the value thread 0
  holds. A keystroke that is handled after thread 0 found room in the line and before it
  loads the column leaves the column one character beyond the last, and what thread 0
  stores is one more. So the margin must take two: `Padding >= 2 * FontWidth`
  (24 and 8 in `kernel/framebuffer.c`).
- `LineInv`: as long as nothing came in between, each step of `shell_init` accounts for
  what is behind the cursor (`Shown`): it is blank (`Blanks`), except for the glyph just
  drawn (`Written`) and the row that a newline is about to leave or to scroll (`Wrapped`).
  Every whole character keeps the cursor in the text area with nothing behind it (`Neat`),
  and so does a whole command, whatever it prints. At the prompt the glyphs of the line
  stand in front of the cursor (`Typed`), so that what a backspace or an Enter finds is known.
  A carriage return would put the cursor in front of what is there; nothing
  writes one: the line takes printable characters only, and the texts of the kernel and
  what its commands put into files have none (`ShellAssumption`).

| Theorem | Statement |
|---|---|
| `BytesAreRead` | `NoByteIsStuck` |
| `ShiftIsReleased` | `ShiftReleased` |
| `SectorsAreWhole` | `SectorTransferred` |
| `PacketsAreDecoded` | `PointerAsMoved` |
| `CursorStays` | `CursorOnScreen` |
| `LineIsShown` | `LineOnScreen` |

Only model-checked: the liveness properties (the prover has no rule for fairness
here); everything with the desktop started beside workers, where the invariant does not
hold. What a recursive definition computes is proved only where the recursion is
a function over numbers (the painter's loop, the output of a text); a general induction over
data is out of the prover's reach.

## 6. Not modelled

- GDT and TSS: tables written once at boot and never changed; nothing runs in user mode.
- Serial port: output only; nothing is read back.
- String library: its functions appear as what their callers get from them: a copy, a
  comparison, a length. The formatting functions only make text.
- Boot protocol and build: a third-party header and build files.

Partly modelled:

- Interrupt controllers: `pic_mask_irq` and `pic_disable` have no caller.
- Stubs and dispatcher: CPU exceptions halt the machine.
- Timer: `timer_sleep` has no caller.
- Boot: the halts where an answer of the boot loader is missing.
- Shell: the history, which has no reader, and the commands that only show something.
- Window manager: what is inside the windows, and the pointer's picture.

`PROJECT.json` gives the hazards no property covers, each with its reason.
