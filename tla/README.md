# Ferric-K in TLA+

Specifications of the Ferric-K kernel (`crates/`, `boot/`, `xtask/`), the
instances TLC checks, and theorems TLAPS proves. Paths below are relative to the
repository; `U/` is `crates/ferric-unsafe-core/src/`, `S/` is
`crates/ferric-safe-core/src/`. `PROJECT.json` holds the exact lines each
definition stands for.

To repeat the work: `tlc -workers 2 -config MCHeap.cfg MCHeap`, `tlapm HeapProofs.tla`. Of
the build tool, `X/` is `xtask/src/`.

## 1. The system

Ferric-K boots through Limine on x86_64 or aarch64, brings up a serial port,
the exception vectors, a heap and a framebuffer, and then runs one thread: a shell
on a text console, from which four full-screen applications start. There is one
CPU and no scheduler. What runs besides the thread is the timer interrupt and the
handlers of exceptions and panics, which never return.

| Part | State it keeps | Operations | What makes it correct |
|---|---|---|---|
| Spin lock, `OnceLock` (`U/sync.rs`) | a lock bit and a payload; EMPTY/BUSY/READY and a value | `lock`, `try_lock`, drop; `set`, `get`, `wait` | exclusion, no lost update, one winner, no reader before the write |
| Global cells (`U/serial.rs`, `pl011.rs`, `framebuffer.rs`, `ps2.rs`) | `OnceLock<Spinlock<T>>` | `init_*`, `with_*`, `with_*_try` | the two primitives together |
| Heap (`U/heap.rs`) | the region, headers and links inside it | install, `alloc`, `dealloc` | grants disjoint, aligned, nothing lost, full coalescing |
| Console (`U/console.rs`, `S/grid.rs`, `S/line_editor.rs`, `S/shell.rs`) | cells, cursor, the edited range; the line | put, prompt, edit, clear, render | the screen is the cells, the text is where the shell believes |
| Panic, exceptions (`U/panic.rs`, `interrupt.rs`, `console.rs`) | none of their own: the locks they find held | dump, panel, halt | never a deadlock, the report gets out |
| Timer (`U/interrupt.rs`, `pit.rs`, `gictimer.rs`, `time.rs`, `lib.rs`) | TICKS, IDLE_TICKS, the PIC or GIC, the interrupt mask | stub, wrapper, handler; `enable`, `wait_for_interrupt` | the thread does not notice; a sleeper wakes; idle is at most total |
| Input (`U/ps2.rs`, `input.rs`, `S/scancodes.rs`, `S/terminal.rs`) | decoder prefix and modifiers | `next_key` | the state follows the physical keys |
| Applications (`U/app.rs`, `keyboard.rs`, `gui.rs`, `slint_platform.rs`, `S/clock_app.rs`, `S/keyboard.rs`) | window, held key, modifiers, pending tap | one loop each | no key lost, nothing left on the screen |
| Hardware monitor (`U/monitor.rs`, `S/monitor.rs`) | the previous sample and second | sample, update once a second, leave | the numbers of a sample are ordered though ticks fall between its reads |
| Framebuffer (`U/framebuffer.rs`) | the captured layout; video memory | validate, pixel, rectangle, colour bars and their check | bars from edge to edge, no byte outside the surface |
| Boot (`U/lib.rs`, `gdt.rs`, `idt.rs`, `pit.rs`, `ps2.rs`, `serial.rs`, `limine.rs`, `arch/`, `mmu.rs`, `pl011.rs`, `gictimer.rs`, `qemu.rs`) | descriptors, PIC or GIC, page tables, exit status | one call after the other | a handler before the fault or interrupt that needs it; the exit code names the cause |
| Smoke driver (`X/runner.rs`, `qmp.rs`, the demos) | script step, attempts, deadline | type, wait for a marker, retry | progress in spite of lost keys, no command in the wrong place, no QEMU left behind |
| Build tool (the rest of `X/`) | files: payloads, marker, kernels, images | bootstrap, build, build-image, run, check, demo, clean | a success means what it says, whatever was cut short before |
| Logging, fonts, traits | written once | straight-line code | |

The parts meet in a few places. Everything that prints goes through `CONSOLE`
(a spin lock), then `FRAMEBUFFER` and `SERIAL` (cells). `alloc` and `dealloc`
take the heap's spin lock. The shell loop polls the input and sleeps in
`wait_for_interrupt`. The timer handler touches only atomics and the interrupt
controller. A fault or a panic can strike while any of those locks is held and
finds them as they are. An application owns the screen until Escape, after which
the console renders itself again. Driver and kernel share the keys on their way to the
guest and the serial log; the commands of the build tool share the working tree.

The behaviours that are hard: interleavings on the cells, lock order and
re-entrancy, handlers stacked over half-done work, an interrupt at any
instruction, addresses and roundings in the heap, scrolling under an edited line,
an interrupt half-way through the words that program its controller, lost keys and
retries that cross their answer, a build cut short between any two steps.
`PROJECT.json` lists each such place under `hazards`.

## 2. Modules

| Module | Models | Built on |
|---|---|---|
| `Spinlock`, `OnceLock` | `sync.rs`, one action per atomic access | |
| `SharedCell` | `OnceLock<Spinlock<T>>` and its users | both |
| `WriteOnce` | abstract: a value is chosen once and everyone sees it | |
| `HeapLayout` | addresses and roundings of `heap.rs`; the choice of region from the memory map | |
| `Heap` | the free list over blocks | `HeapLayout` |
| `HeapLinks` | the same operations on header words in memory, with callers that write all they were given | `Heap` |
| `Allocator` | abstract: disjoint aligned grants from one arena; an idle heap that is large enough never refuses | |
| `CrashPath` | the thread's locks, dump and panic handlers stacked above them | |
| `TextGrid` | `grid.rs` as functions on a grid | |
| `Console` | the console, the line editor and the shell as key and command actions | `TextGrid` |
| `TimerIrq` | interrupt entry, stub, wrapper, handler, return; `enable`; `wait_for_interrupt` | |
| `Monitor` | `run_monitor`: the reads of a sample, the load, the refresh | `TimerIrq` |
| `Framebuffer` | validation of a layout, pixels as bytes of video memory, the colour bars and their check | |
| `Boot` | `boot` in `lib.rs` and what it calls, on sound and on defective machines, with interrupts | `Framebuffer` |
| `Scancodes` | the scancode decoder and the terminal bytes, as functions | |
| `Input` | keyboard or terminal, the buffer that may overrun, `next_key` | `Scancodes` |
| `OnScreenKeyboard` | `run_keyboard`: keys, highlight, the deferred tap, the modifiers | `Scancodes` |
| `ClockApp` | `run_clock`: the held arrow, the window, what is repainted | `Scancodes` |
| `Session` | the shell, the clock and the on-screen keyboard on one stream of events | `Input`, `OnScreenKeyboard`, `ClockApp` |
| `SmokeDriver` | `run_with_injection` against a guest that answers late, loses keys or faults | |
| `Workspace` | the commands of the build tool on the files they leave | |
| `SharedCellProofs`, `HeapProofs`, `CrashProofs`, `ConsoleProofs`, `MonitorProofs`, `BootProofs`, `SessionProofs`, `BuildToolProofs` | proofs about the module they are named for; `HeapProofs` also about `HeapLinks`, `MonitorProofs` about `TimerIrq`, `BootProofs` about `Framebuffer`, `SessionProofs` about `Input`, `ClockApp` and `OnScreenKeyboard`; `BuildToolProofs` about `Workspace` and `SmokeDriver` | that module |
| `MC*` | small values for the constants; `MCHeapLinks` also a view | the module named |

Three refinements tie them: `HeapLinks` implements `Heap`, `Heap` implements
`Allocator`, `SharedCell` implements `WriteOnce`. The last two instantiate the abstract module;
`HeapLinks` extends `Heap` and binds its `free`, `size` and `pad` to what the memory says. Definitions named `Mutant...`
are not used by any specification: each is a plausible bug in the definition that
follows it, kept to show that a property would notice it.

### How state and actions correspond to the code

**SharedCell.** `locked` and `payload` are the fields of `Spinlock`; `spin[c]` is how
far context `c` is in `lock`, its closure and the drop. The closure is `+= 1`
split in load and store, so a missing exclusion loses an update. `state`, `value`
are the fields of `OnceLock`; `once[c]` is the place in `set`, `get` or `wait`,
with the compare-exchange, the write, the publishing store and the spin loops as
steps of their own, and the load of READY apart from the read of the value. The
weak compare-exchange may fail spuriously: a failure changes nothing, so it is a
stutter. Contexts stand for whatever may run between two instructions; the
kernel has one thread today, but both types declare themselves `Sync`.
Acquire and release pairs are taken at their word: steps are sequentially
consistent.

**Heap.** `start`, `end`, `free`, `size[b]` and `pad[p]` are the fields of `Heap`, of the
headers and the padding words; `live` is what callers hold. `Alloc` is the whole
of `alloc`: the first block that fits in list order, the carve or the unlink, the
padding word. `Dealloc` is all of `dealloc` with its early returns. Each is one
step because the global allocator runs it under a spin lock. `HeapLinks` has the
same operations where `s.mem[a]` is a word and `s.head` the field `free`: links are stores, in
the code's order, and stale words stay. Its actions read and write `s`, `start` and `end`, with `live` for the callers;
`free`, `size` and `pad` of `Heap` only record (`View`) what one reads by walking the list
and following the paddings, and no action looks at them. `ImplementsHeap` is the `Spec` of `Heap`. Callers free what they were given, once, as the `GlobalAlloc`
contract says. `checked_add` overflows are not modelled: addresses are far below
2^64. The callers fill all their bytes with the mark `User`; if the allocator read
or wrote one of them the mark would show.

**CrashPath.** An activity of the thread is a script of `lock`, `work`, `drop`;
`Script` has one per caller of the locks. `holder[l]` is the stack frame that has a lock:
0 the thread, i the i-th handler. `Exception` and `Panic` push a handler at any
step; handlers proceed try-lock by try-lock. `surface` and `geometry` say whether there
is a framebuffer and whether the console's cell buffer can hold it, which decides if
`expect` panics inside the panic handler. The bar test and the boot lines before
the vectors exist are before the model's initial state.

**Console.** `con` is the `Console` struct, `shown` the framebuffer cell by cell, `line`
the editor's line and `wire` the line on the serial terminal. A key or a command is
one action, with the rendering and mirroring it causes; the lock is held meanwhile
or nothing else runs. Colours and the shape of glyphs are left out. `above` is a history
variable: the rows that should be above the prompt, computed from line lengths and
not from the grid.

**TimerIrq.** `stack` holds the words pushed since the interrupt, each tagged by what
it is, `regs` says for every register whether it has the thread's value, a stack
address or what the handler left; `skew` is the alignment the interrupt found.
`masked` is IF or the DAIF bits. The steps are: entry through the gate, stub up
to its call, wrapper up to its call, handler, wrapper's return, pops, `iretq`. On
aarch64 the handler has no actions: `enable` clears the mask bit A and leaves I, so an IRQ is
never taken, and a pending one only ends the `wfi`.

**Monitor.** `now` counts the timer's periods, and `TimerIrq` makes ticks of those it
is not too late for. The three reads of a sample (`reads`) are steps of their own, with
interrupts between them; `Uptime` is the TSC where there is one, else TICKS. `shown` is
what the window shows. The loop never sleeps: it runs while the thread is in `run`.

**Framebuffer, Boot.** `vram` is bytes; a pixel is a little-endian word of one to four of
them, so that padding, overlapping channels and the end of a row are where the code has
them. `stage` is the call `boot` is about to make, one action each (`Boot` is their
disjunction); a bar is drawn per step, and so is each of the ten writes that program
the two 8259A, since interrupts of the firmware's days may be pending. `pic` is the master:
vector base, mask, requests, and how far its initialisation is. `gates` and `gdt` are the
tables loaded, `vbar` the aarch64 vectors, `mapped` the level-1 slots mapped. An
interrupt or access that nothing handles ends in stage `lost`. `machine` is what the kernel
finds: UART good, absent or dead, the loader's answers, framebuffers, memory, page
tables. Exit codes are computed as QEMU does, from the status and the port.

**Input, Session.** A keystroke puts its scancodes on `wire`; each byte reaches `buffer` in a
step of its own, or is lost when it is full. The kernel takes one byte per step
(`MidEvent`, `NextKey`), so that a poll can stop between a prefix and its code;
`NoKey` is the `None` that ends a drain. `due` is the other account of the same keys: the
events by what the keys mean, with the modifiers the user holds. The shell, `kb` and
`clk` are never in front together; the locals of `run_keyboard` and `run_clock` start
afresh with each command. A pass of an application's loop after its drain is one step:
nothing but the input changes under it. In `kb`, `want` is history: the text if every
key took effect when it was handled. Time is a choice in `ClockPass`: any pass
may find that the repeat period or a second is over.

**SmokeDriver.** `step`, `typed`, `attempts` are the variables of the closure, `sending` the
keys `send_input` has not sent yet, `keys` those on their way. The guest is as much of the
kernel as the script can tell: which application reads the keys, its line, field,
selection and deferred tap, the markers it prints. A marker is in `out` when the guest has
printed it and in the driver's log (`logged`) when the reader thread has copied it. A key
may be lost, the connection may break, the guest may fault; the ten seconds of grace may run
out at any time, as often as `MaxHasty` allows while an answer is still to come. The
deadline strikes only when nothing else can happen: it is far longer than
any answer takes.

**Workspace.** A command is a list of steps (`todo`), fixed when it starts except where the
code looks again (`compile`, `firmware`); each step may fail or be the last before an
interruption (`Stop`). `file[f]` is absent, torn (opened for a copy and not filled) or the
version it was made from; an `image` remembers the stage it reached and what it was made
from: truncated (`Created`; what of the files has been copied does not matter, the loaders come
last), with all its files (`Staged`), or past `bios-install` (`Installed`). `InputsPresent` is what `assemble` looks for
first; `CanStage` and `CanInstall` are what its later steps need, and a step without it
fails (`AssemblyFails`). On x86_64 an image boots by the stages that `bios-install` writes; on aarch64 UEFI needs
the files only (`BootStages`). Between commands the user moves to another Limine pin, edits, upgrades QEMU, gains or
loses the compiler or the distribution's `limine`, deletes a file. `boot/limine.conf` is in the
sources and taken to be there. `scars` and `unbuilt` are history.

## 3. Runs

| Run | Bounds | Shows |
|---|---|---|
| `shared_cell` | 3 contexts, 2 values, 2 updates | exclusion, no lost update, agreement, `ImplementsWriteOnce`, calls return and release; ~118 000 states |
| `heap` | maps with usable, short, unaligned and reserved entries, the static arena; 6 layouts | tiling, accounting, grants, coalescing, `ImplementsAllocator`; ~255 000 states |
| `heap_links` | a region of 30 words, 4 layouts | list shape and callers' bytes (`MemorySound`), `ImplementsHeap`; ~119 000 states |
| `crash_path` | both targets, 2 writes per dump, 3 stacked handlers | no deadlock but the known one, report on the wire, whole panel, halt; ~25 000 states |
| `console` | 4 columns, 3 rows, lines of up to 6, replies of 0 to 2 lines | screen, text and cursor, wire; ~20 000 states |
| `timer_irq` | shell and monitor, both targets, both alignments, 4 ticks, a second of 2 periods, passes of up to 2 | the thread undisturbed, idle time, what the monitor tells, wake-up; ~231 000 states |
| `session` | 4 keystrokes after a command's Enter, 10 keys with repeat or 6 terminal bytes, a buffer of 2 bytes, one byte lost | decoder, text, held arrow, screen, Escape; ~1 250 000 states |
| `smoke` | both scripts, 3 attempts, 2 lost keys, 1 hasty retry | what is typed reaches its application, every outcome has its cause, the driver returns; ~221 000 states |
| `workspace` | 3 payloads, 2 versions, 2 changes by the user, 2 failed or interrupted commands | a successful bootstrap, check, demo or run means what it says; a missing input is noticed before the image is truncated; ~7 140 000 states |
| `boot` | both targets, sound machines and those with one or two defects, 9 framebuffers of 7 to 9 pixels a row in 44 bytes, 2 ticks, 1 key | nothing unhandled, exit code names a cause, bars exact, boot ends; ~57 000 states |
| `timer_irq_regs`, `session_shift` | as above | a statement of the code's comments that does not hold (section 5) |

Type invariants are not run by themselves: where one is proved (section 4) it is part
of the inductive invariant, and the refinement runs check the rest.

Why the bounds are enough. *Contexts*: one writer, one rival and one reader are the
most that any property names at once. *Heap*: the regions hold at least three blocks so that a freed one
has a free neighbour on the left, the right, both and none; the layouts include
size 0, alignment 1, alignments beyond the header's, sizes that leave a remainder
above and below `MIN_BLOCK`, and one that fits only the whole heap. The links run
holds six minimal blocks. The heap's state space is finite without further
bounds. *Crashes*: three handlers are a panic in the panic of a fault; further ones only
repeat, because a handler holds at most two locks. *Console*: prompt and line take up to
two of three rows, so a line wraps, reaches the corner, scrolls with the prompt on
screen, and is erased back over the wrap. The assumption `ConsoleAssumption`
(a prompt leaves room on its row, prompt and line fit the screen) holds for the
kernel's prompt of 10 and 128 characters on any real framebuffer. *Keys*: the properties of the decoder
relate a modifier, a second one, a key and what is left of a sequence, which four
keystrokes hold; with two bytes of buffer the kernel can be ahead of the keyboard, in the
middle of a sequence or behind it, and the six bytes of the pause key overrun it. A
layout of rows of 2, 2 and 1 keys has every way to run into an edge or a shorter row, and
a window of 2 by 2 on 5 by 4 in steps of 2 meets each border, from the middle and
from next to it. *Ticks*: a nap, an interrupt before it and one during it need three; a
second of two periods puts a tick inside and between the seconds the monitor shows.
*Smoke*: one lost key shows which step cannot stand it, two are needed to exhaust
a step that can; one hasty retry puts its keys behind an answer that was already on its way.
*Workspace*: one payload that x86_64 boots from, one that aarch64 does and one that `bootstrap` asks for
and no image holds; a command cut short, a change, and a second cut over what the first left.
*Boot*: with two defects the first that is found decides; 7 pixels are one per bar, 9 leave
unequal bars, 6 none; pixels of one, two and three bytes, with and without padding.
`MaxTicks`, `MaxElapsed`, `MaxUpdates`, `MaxStrokes`, `MaxLaunches`, `MaxKeys`, `MaxLost`,
`MaxHasty`, `MaxEvents`, `MaxStops`, `MaxCrashes` and `Over` bound the behaviours; all appear in guards and
nowhere in the code (`MaxAttempts` is the code's).

`CHECK_DEADLOCK FALSE` is set where the system stops: a halted CPU, a cell nobody sets
that somebody waits for, a timer at its bound, a driver that has returned, a boot that has
ended. In the heap, console, session and workspace runs deadlock is checked.

### Fairness

Safety needs none. `shared_cell` gives each context weak fairness on the steps inside a call
(the thread keeps running) and none on starting calls. It does not assume strong
fairness of `lock`: a context may lose the race for ever, and `CallsReturn` claims no
more than the code's loops give. `crash_path` has weak fairness on handler steps: a
handler runs with interrupts off until it halts. `timer_irq` has it on the periodic timer, on
the steps of the interrupt, which the CPU takes when unmasked, and on the return
of a `wfi` with an interrupt pending; not on the thread, which may work
as long as it likes between naps. `session` has it on the kernel's loops, which poll for
ever, and on the arrival of a byte already sent; the user need not do anything. `smoke` has it
on the guest and on the driver, two programs that keep running, the deadline being a
step of the driver's; not on the loss of a key or on a hasty retry. `boot` has it on the calls of
`boot`, on interrupts that are pending and unmasked, and on the timer; not on keys.

## 4. Proofs

For every value of the constants:

* `SharedCellProofs`: type correctness, `GuardsExclusive`, `NoLostUpdate`, `WinnerAgreed`,
  and that the cell implements `WriteOnce`.
* `HeapProofs`: type correctness, `Tiled`, `BlocksAccounted`, `GrantsInside`, `NoAdjacentFree`,
  `HeapInRegion`, and that the heap implements `Allocator`; of the memory, that `HeapLinks`
  implements `Heap`, and `MemorySound`.
* `CrashProofs`: `NeverWedged`, `ReportOnWire`, `PanelWhole`.
* `ConsoleProofs`: `ScreenFresh`, `TextInPlace`, `WireAgrees`, for every geometry, prompt, line
  length and set of replies.
* `MonitorProofs`: `ThreadUndisturbed`, `IdleWithinTime` and `MonitorTells`.
* `BootProofs`: `NeverLost`, `OutcomeNamesCause`, `SurfaceExact`, for any set of machines and
  any framebuffers.
* `SessionProofs`: `StreamFaithful`, `DeafOnlyWithoutPauseEnd`, `HeldIsDown`, `NoAfterimage`,
  `TextAsTyped`, for any number of keystrokes, size of the buffer, layout and screen.
* `BuildToolProofs`: `BootstrapMeansReady`, `PassMeansCurrent`, `FailedCheckExplained`,
  `RefusalKeepsImage`, for any list of payloads and any history of commands;
  `TypedIntoItsApplication`, for any number of attempts, lost keys and hasty retries;
  `OutcomeExplained`, for three attempts or more.

*Assumptions* are the named ones on the constants: contexts, values and bounds are
of the right kind (`Uninit` and `None` are not values, the lock's and the cell's users
are the same contexts); layouts are pairs of a natural size and a positive alignment, in `HeapLinks` one that `Layout`
can have, of 1, 2, 4 or a multiple of 8 bytes (`AlignAssumption`); the
higher-half offset and the static arena lie above address 0 and the arena can hold one block
(`HeapLayout`); targets are the two there are; a dump has at least one part; a second
has at least one period; the payloads are a sequence that contains the ones the two targets load, and
the loader and the firmware are none of them (`WorkspaceAssumption`); keys are those the
decoder has codes for, and Pause (`KeysAssumption`); the on-screen layout has a row and no empty
row (`LayoutAssumption`); the grid has a row and a column (`GridAssumption`); the prompt leaves
room on its row, prompt and line fit the screen, and prompt, greeting, replies and glyphs
are printable, one line each, as `LineEditor::handle` and the `println!`s have it
(`ConsoleAssumption`); the channels and sides of a framebuffer are small enough for the arithmetic
of the code not to wrap, and the loader has mapped all its pixels if `from_layout` accepts it
(`BootAssumption`). TLC evaluates each of them in the runs. One theorem assumes more:
`OutcomeIsExplained` has `MaxAttempts >= 3`, where the code's `MAX_ATTEMPTS` is 3. With two attempts it is
false, as TLC shows: one lost Enter then fails the test, because the word typed again only ends up
behind the one that stands on the line.

*The cell.* The properties are not inductive. `IInv` adds that a context
between load and store of `+= 1` still holds the payload it loaded, that at most one
context is past the winning compare-exchange, that the state byte is BUSY exactly then,
and that a reference exists only when READY. Each step of the lock and of the cell
keeps it; the refinement maps READY to the value and everything else to "unset", so
the publishing store is the only step of `WriteOnce`.

*The heap.* `IInv` is the conjunction of the invariants and `Boot`, which says
what the variables are before the region is installed. They need each other: that
`dealloc` finds the block of a grant (`AlwaysRecovers`) rests on `GrantsInside`; that merging
keeps the tiling rests on `BlocksAccounted`, since a block on the list twice would be
absorbed and stay. The steps reduce to three changes: cutting a block (`CarveStep`), taking
it whole (`TakeStep`), and growing a block over its neighbours (`MergeStep`, instantiated
four ways). The refinement adds that an idle heap is one free block (`IdleHeap`, from tiling
and coalescing), which is why it cannot refuse what fits. `Bounds` remembers the region that
was installed, from which the rounding gives `HeapInRegion`.

*The memory.* `MemorySound` is not inductive: that the links are right says nothing of the
words a later merge will read. `MemInv` is `IInv` of the heap that is read from the memory, `View`, and `Sound`:
the memory is `Linked` along `free`, payloads are on word boundaries, the callers' bytes are theirs. `NodesAre` turns
`Linked` round: the walk of such a memory returns that list. Each list operation then has a lemma that says along which list
the memory is linked afterwards and which words were written: `UnlinkIs`
(`RemoveAt`), `CutIs` (`ReplaceAt`), `PrependIs` (`Cons`). The written words lie in headers or paddings of free or just handed out
blocks, and `GrantsInside` with tiling keeps those apart from every grant. So `MemAlloc` is `Alloc`, `MemDealloc` is one of the four merges,
chosen as the walk chooses (`RightAbsorbed`, `LeftGrown`, `PutInFront`), and the step lemma of `Heap` gives `IInv`
afterwards: no invariant of `Heap` is proved twice. A chain of null tests, an order of two stores or a stale word that mattered would
show in one of these lemmas.

*Crashes.* `ReportInv`: a panic past its first place has told its message, a dump that has not
halted lacks a part, and a panic above another frame found a panic at `grid`, the
only place that panics. `PanelInv` says at every place of the panic handler what a handler that
found its locks free still has, and that the screen is red only between the fill and the text.
`WedgeInv` says what is taken while the thread runs: at place i of a script exactly the
locks that its prefix took and did not drop. `Balance` is that account; `ScriptsBalanced`
shows that every script has one and never takes a lock twice, by putting the
scripts together from nested parts. Handlers only try, so none of them can wait, except the
aarch64 dump at `lock`.

*Console.* `Drawn(g, rows, d, s)` says what a grid shows of a text: finished rows, of which the
first d have scrolled off, the line s being written behind them, and the cursor where they end. A
glyph keeps it in each of its three outcomes (same row, next row, scroll: `GlyphDrawn`), a newline
turns the line into rows (`NewlineDrawn`: the cursor's row determines how many rows `Wrap` makes, as a
cell lies in one row only), and induction on the length of a text extends both to `put_text`,
`println!` and whole replies. `Trimmed` shows that d, which the grid knows as `scrolled`, is the number of
rows that `Fit` drops by counting lines, so that the edit moves up with its prompt.
`ShellInv` adds what `set_edit_line` relies on: the edit starts behind the prompt, and on a line that
does not reach the end of the prompt's row `edited_cells` is exact. That last conjunct is why the
early return for an empty line never leaves a character behind; on longer lines `edited_cells` may be
too small (section 5, item 4), and the proofs use it only as the number of cells blanked.
`RepaintedExact`: a cell that is neither in the old nor in the new range has not changed.

*Timer.* `ClockInv` orders idle, entered and ticks through a nap: on x86_64 whoever wakes has been
through a handler that counted. `StackInv` says for every place of the interrupt how many words
are on the stack, that the five words of the frame are where the entry put them (`FrameIntact`), that the
nine registers are where the stub pushed them (`RegsSaved`), and that the wrapper's r12 points at the
word its epilogue must return to. Since the aligned and the unaligned entry differ by
one word, all depths are sums with `skew`. `MonitorInv` adds that nothing naps while
the monitor runs, so that idle is the same in all reads of a pass, and that every
read is of the past.

*Boot.* `CpuReady` says at each stage which tables are loaded and which slots are mapped. The 8259A
needs `Halfway`: with n of the ten words still to come, how far the chip is with its
initialisation, its base and its mask; while it is initialised it raises nothing, and when it
raises again its base is 32 and only the timer and the keyboard are unmasked.
`OutcomeInv` stands beside it: `WireInv` has the markers sent by each stage, `FoundInv` what each stage
has learned of the machine, so that a boot which goes on has excluded every defect it has passed,
`ExitInv` that an exit has named one, and `SurfaceInv` that the bars drawn so far are on the
surface and everything else in video memory is as it was. Three arguments carry it. `Verdict`: `from_layout`
refuses a layout exactly when something in `Bad` is wrong with it. `SamePixel`: with rows no longer than the
pitch, two pixels share no byte, so a bar disturbs neither the others nor the padding.
`ReadBack`: the bytes of a word below 2^bpp read back as the word, and `EncodeFits` that three disjoint
channels make such a word. Powers of two and the loop over the bytes are recursive functions, whose laws are
proved by induction in set form (`SetInduction`).

*Session.* `StreamInv` is about the whole stream: what the decoder will tell of the bytes
in the buffer and on the wire, appended to what it owes, is `due`. `Decode` is a recursive
function, so its laws (`DecodeNothing`, `DecodeOneMore`, `DecodeCat`) are proved by well-founded induction
in set form, and each keystroke is shown to append to the stream what decodes to the events by its meaning,
from any state of the decoder that it can be in. Once a byte is lost the claim is off,
but not the account of the pause sequence that explains deafness. `ClockInv` says that the arrow a
gliding window follows is one whose release is still owed to the clock, and that the screen in
front is the console with the window drawn at its origin, whatever positions came before. `Deferred` says that a tap not yet delivered
is the only difference between the text and what it should be.

*Workspace.* The step lists of all commands are `Ordered`: `create` comes right after the
`inputs` of the same image, `stage` right after `create` and `install` right after `stage`. Concatenation keeps
that, and so does taking off the head except that the next step must then be covered by what
has just been done: `ImageInv` says that before each of the three everything `inputs` looked for
is still there. A command between truncation and `install` can then only be
about to stage or to install (`Midway`), and either step has what it needs, unless the tool is torn. The other three properties are one
invariant, `WorkInv`, about what is left of a command (`LeftOf`): `BootstrapInv` says for each step
of a materialization which payloads are at the pin by then, `LoadersInv` that outside a
materialization every payload is of the version its record names unless that is scarred, `PassInv`
what was compiled, staged and booted before the steps that are left, `CheckInv` what a check has
already found or put right. A command
that is interrupted leaves no promise, so only what it wrote counts.

*Smoke driver.* A marker once printed stays in the log, and a step typed again is read later than the
driver believes; so that the marker of a step has come says little by itself. `SmokeInv` cuts the script
into eight segments such that each application is opened by a word of one segment only (`Opens`) and
closed by the Escape of a later one (`Closes`). Keys on their way are in the order of their segments
(`InOrder`), a garbled word being of any, so the guest passes through the segments in order:
`Reached(n)` says what can be open, on the line or in the log when the last key it took was of
segment n. Since n is at most the segment typed before the step that is due, the application of that
step cannot be closed yet, and no other can be open (`AtHome`).

*Its outcome.* `OutcomeInv` stands beside `SmokeInv`. What can be said whatever has gone wrong: where the guest
can be, given the log (`Frames`; `Located` draws the conclusions); that every lost key is its own mishap (`Fresh`), so that
two losses count as two; that nobody says `halt` before the last step (`HaltLast`), so that a guest that
halted has printed every marker. What holds while the guest lives and nothing has gone wrong that explains a timeout
(`Blameless`) is `Going`, in four parts. `Window`: an application is sent no Escape but its own. `Prompt`: the
keys at the prompt are whole lines, with at most the line begun that is being typed, unless a key was lost
(`Tidy`). `OnKeys`: the field, the selection and the pending tap of the on-screen keyboard, step by step. `Enough`: a step
typed in full has its answer underway, except that one lost key spoils one typing, and the lost
Enter of a word at the prompt the next one too. That exception is what three attempts are for. The guest's steps keep `Going`
(`GuestKept`), and so do the driver's: a hasty retry that is not to blame was not of a fragile step
(`RetypeKept`), a loss that is not to blame was the first one and in a step that can be repeated
(`LosesKept`). At the deadline nothing is left to be done (`Still`), so nothing can be underway, so the answer is
in the log, and the driver would have gone on (`TimeoutBlamed`).

Only model-checked: liveness (`CallsReturn`, `CrashHalts`, `SleepEnds`, `EscapeReturns`,
`DriverReturns`, `BootEnds`), which is out of the provers' reach.

## 5. Where the code and its comments disagree

Two have a run of their own; the others are in the models and show in the exceptions that the
properties make, or were met while reading.

1. `U/interrupt.rs:420-423` says the interrupt wrapper saves and restores two registers in
   r12 and r13. It overwrites r12 and r13 of the interrupted thread, and neither it nor
   the stub restores them. Run `timer_irq_regs`; `ThreadUndisturbed` covers the others.
2. `U/keyboard.rs:141-142` says that the shift of the keyboard and the shift drawn on the screen
   stay in sync. `state.get()` of a `Cell` returns a copy and `press_shift` changes
   that, so the model never changes, for shift and for caps (lines 91, 95, 144, 150, 156).
   Run `session_shift`. Physical capitals still come out right, as the scancode
   decoder has modifiers of its own.
3. `U/interrupt.rs:66-69` says a dump cannot deadlock on the serial lock. On aarch64 it
   takes the lock unconditionally (line 79), so a fault inside a serial write
   waits for itself. `NeverWedged` and `CrashHalts` make exactly this exception.
4. `U/console.rs:130-131` says an edited line is repainted with the cells it drew before
   blanked. When the line scrolls the screen, `edited_cells` is computed from the
   origin before the scroll (lines 138 and 173), a row too low; the next repaint blanks too
   few cells. `TextInPlace` claims the text and leaves out the cells behind it.
5. `U/interrupt.rs:713` and `:727` say that `enable` clears DAIF.I. `msr daifclr, #4` clears
   A; I would be 2. Interrupts stay masked on aarch64, TICKS stays 0, and the monitor's load
   with it.
6. `Serial::new` says "`None` when absent or dead". A UART that never sets DATA_READY is waited for
   without a bound (`serial.rs:78` and on; the exception in `BootEnds`), and a byte that
   arrives between the FIFO reset and the loopback is taken for a failed probe.
7. `init_from_boot_info` answers "false when none qualifies" and looks only at the first RGB
   framebuffer: a later one that qualifies is not tried.
8. `X/image.rs:60-62` says that without a compiler the tool on PATH is used. A `limine` tool that an
   earlier bootstrap built is kept and used, although it is of another pin
   (`FailedCheckExplained`). A bootstrap that was cut short while it copied over a tree
   whose marker matches is taken for complete by the next one (`BootstrapMeansReady`).
9. `run` boots any image that exists, a half-made one too. One that was cut short between staging and
   `bios-install` fails on x86_64 and passes `run --arch arm64 --smoke`: UEFI finds all it
   needs, so that this run passes does not mean that the image was finished (`PassMeansCurrent`; a check or a
   demo assembles its image first). A `limine` tool that was cut short while it was compiled is found by
   `is_file` and fails only after the image was truncated, the one exception of `RefusalKeepsImage`.
   A torn `BOOTX64.EFI` is never noticed: the smoke boot of x86_64 is BIOS.
10. `install_linux` lacks the word `install` for dnf (`X/platform.rs:282-293`). The driver leaves QEMU
   running when `connect` or `send_input` returns through `?` (`OutcomeExplained`).
11. Smaller ones: the "2 MiB block" of aarch64 is put in a level-1 slot, where it maps 1 GiB, which
   is why the GIC can be reached; a usable region too small for the self-test is installed
   and `heap_smoke` panics where the arena would have served (the `tiny` memory of `Boot`);
   surfaces narrower than 7 pixels fail the self-test; a pitch that is not a multiple of
   the pixel size is accepted; the comment on the IDT names an IST for vector 8, which
   has no gate; KEYBOARD_FAULT and success share an exit code on a POSIX host, for a
   status nothing returns.

## 6. Not modelled, and why

Logging, fonts, API types and the crate roots have no state that changes. Bytes of a UART
transmission, the encoding of descriptors, the QMP messages, the ELF and FAT readers of the image
validation, and text formatting are conversions no property is about. The time the clock
shows and the drawing of its face are left out. Of the input, the
layout has one letter, one other key and the space; the text field is edited at its
end only; holding CapsLock until it repeats toggles it at every repeat, in the decoder and in the
reference alike. Slint's own rendering is external. Weak
memory order is not modelled (see SharedCell). `IrqGuard` has no user outside its
tests. The products in `encode_channel` and `verify_color_bars` overflow with channels of more than 56
bits or more than 2^32 / 3 rows, and a channel of 64 bits overflows its shift; layouts like that do not
occur, and `Channels` and `Sides` leave them out. The
conversion of ticks to nanoseconds is left out: the model's unit is the period.
`HeapInRegion` is proved and has no run of its own. On Windows the build tool takes other branches; the model
follows the others.

## 7. Plan

* The time of day the clock shows, and the refresh of the monitor's window in front of the
  same input as the other applications.
