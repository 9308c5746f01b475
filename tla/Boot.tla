-------------------------------- MODULE Boot -------------------------------
(***************************************************************************)
(* The boot sequence (boot in lib.rs and what it calls), from the loader's *)
(* handoff to the shell, on a machine that may miss a part, with           *)
(* interrupts coming in as soon as the CPU takes them.                     *)
(*                                                                         *)
(* `machine' is what the kernel finds: the UART, the loader's answers, the *)
(* framebuffers, the memory, and on aarch64 the loader's page tables.      *)
(* `stage' is the call boot() is about to make.  A fault or an interrupt   *)
(* with no handler leaves the CPU `lost': a reset on x86_64, a loop        *)
(* through a vector nobody installed on aarch64.                           *)
(***************************************************************************)
EXTENDS Framebuffer

CONSTANTS Machines,   \* the machines it may boot on
          MaxTicks,   \* bound on the ticks (model checking only)
          MaxKeys     \* bound on the keys pressed during boot (likewise)

(* The layouts whose arithmetic does not wrap: encode_channel multiplies a *)
(* byte and 2^size - 1 in 64 bits, verify_color_bars 3 and the height in   *)
(* 32, and from_limine refuses a width of more than 32 bits.               *)
Channels == [size : 0..56, shift : 0..255]
Sides == {n \in Nat : n < 2^30}

Layouts ==
  [rgb : BOOLEAN, width : Sides, height : Sides, pitch : Nat, bpp : Nat,
   red : Channels, green : Channels, blue : Channels]

(* The loader has mapped every pixel of a layout that qualifies.           *)
InMemory(l) ==
  (l.height - 1) * l.pitch + l.width * BytesPerPixel(l) <= VramSize

ASSUME BootAssumption ==
  /\ MaxTicks \in Nat /\ MaxKeys \in Nat
  /\ \A m \in Machines :
       /\ m.framebuffers \in Seq(Layouts)
       /\ \A i \in 1..Len(m.framebuffers) :
            FromLayout(m.framebuffers[i]) => InMemory(m.framebuffers[i])

VARIABLES machine, stage,
          bar,         \* the colour bar to draw next
          wire,        \* the markers sent on the serial line
          exit,        \* the status given to QEMU, or -1
          gates,       \* x86_64: vectors with a gate, and the selectors loaded
          gdt,
          vbar,        \* aarch64: the vector table is installed
          pic,         \* the master 8259A [base, imr, irr, icw]
          todo,        \* bytes still to write to the two of them
          lapic,       \* the local APIC is enabled and masks the 8259A
          irqsOn,      \* RFLAGS.IF
          mapped,      \* aarch64: GiB of physical memory the window shows
          keys,        \* scancodes in the 8042
          line,        \* a byte came in before the UART was looped back
          ticks, pressed

cpuVars == <<gates, gdt, vbar, lapic, irqsOn, mapped>>
picVars == <<pic, todo>>
outVars == <<wire, exit>>
worldVars == <<keys, line, ticks, pressed>>
drawVars == <<bar, surfaceVars>>
vars == <<machine, stage, outVars, cpuVars, picVars, worldVars, drawVars>>

X86 == machine.arch = "x86_64"
Running == stage \notin {"exited", "halted", "lost"}

Chip(base, imr, irr, icw) ==
  [base |-> base, imr |-> imr, irr |-> irr, icw |-> icw]

Init ==
  /\ machine \in Machines
  /\ stage = IF X86 THEN "uart" ELSE "collect"
  /\ wire = <<>> /\ exit = -1
  /\ gates = {} /\ gdt = FALSE /\ vbar = FALSE
  /\ \E irr \in SUBSET {0} :
       pic = Chip(8, 0..7, irr, 0)
  /\ todo = <<>>
  /\ lapic = TRUE /\ irqsOn = FALSE
  /\ mapped = {}
  /\ keys \in 0..1 /\ line = FALSE /\ ticks = 0 /\ pressed = 0
  /\ bar = 0
  /\ SurfaceInit

Exit(status) ==
  /\ stage' = "exited"
  /\ exit' = status

Say(marker) == wire' = Append(wire, marker)

STATUS_BOOT_INFO_MISSING == 32
STATUS_UART_FAULT == 48
STATUS_FRAMEBUFFER_MISSING == 64
STATUS_FRAMEBUFFER_FAULT == 80

(* What QEMU hands its parent: (status << 1) | 1 or the status, of which a *)
(* POSIX wait keeps eight bits.                                            *)
ExitCode == (IF X86 THEN 2 * exit + 1 ELSE exit) % 256
-----------------------------------------------------------------------------
(* x86_64: the UART.  Its receiver is cleared, then looped back and made   *)
(* to echo a probe.  No port reads as ones; a dead one is waited for.      *)
ProgramUart ==
  /\ stage = "uart"
  /\ stage' = "loopback"
  /\ line' = FALSE
  /\ UNCHANGED <<machine, outVars, cpuVars, picVars, keys, ticks, pressed,
                 drawVars>>

ProbeUart ==
  /\ stage = "loopback" /\ machine.uart # "dead"
  /\ IF machine.uart = "good" /\ ~line
     THEN stage' = "gdt" /\ UNCHANGED exit
     ELSE Exit(STATUS_UART_FAULT)
  /\ UNCHANGED <<machine, wire, cpuVars, picVars, worldVars, drawVars>>

LoadGdt ==
  /\ stage = "gdt"
  /\ stage' = "idt"
  /\ gdt' = TRUE
  /\ UNCHANGED <<machine, outVars, gates, vbar, lapic, irqsOn, mapped, picVars,
                 worldVars, drawVars>>

IRQ0_VECTOR == 32

Vectors == (0..7) \cup {9, 13, 14, 16, 18, 20, 30, IRQ0_VECTOR}

LoadIdt ==
  /\ stage = "idt"
  /\ stage' = IF machine.build = "exception" THEN "divide" ELSE "pic"
  /\ gates' = Vectors
  /\ UNCHANGED <<machine, outVars, gdt, vbar, lapic, irqsOn, mapped, picVars,
                 worldVars, drawVars>>

Raised(vector) == IF gdt /\ vector \in gates THEN "halted" ELSE "lost"

Divide ==
  /\ stage = "divide"
  /\ stage' = Raised(0)
  /\ Say("DUMP")
  /\ UNCHANGED <<machine, exit, cpuVars, picVars, worldVars, drawVars>>
-----------------------------------------------------------------------------
(* The 8259A: ICW1 clears the mask and the edges it has seen, three more   *)
(* initialisation words follow on the data port, and what comes after them *)
(* there is the mask.                                                      *)
MASTER_MASK == (0..7) \ {0, 2}

(* A bug to compare with: the fourth word is left out, so that the chip    *)
(* takes the mask for it.                                                  *)
MutantRemapPic ==
  <<<<"cmd1", 17>>, <<"cmd2", 17>>, <<"data1", 32>>, <<"data2", 40>>,
    <<"data1", 4>>, <<"data2", 2>>, <<"data1", MASTER_MASK>>,
    <<"data2", 0..7>>>>

RemapPic ==
  <<<<"cmd1", 17>>, <<"cmd2", 17>>, <<"data1", 32>>, <<"data2", 40>>,
    <<"data1", 4>>, <<"data2", 2>>, <<"data1", 1>>, <<"data2", 1>>,
    <<"data1", MASTER_MASK>>, <<"data2", 0..7>>>>

PicTakes(port, byte) ==
  \/ port = "cmd1" /\ pic' = Chip(pic.base, {}, {}, 2)
  \/ port = "data1" /\ pic.icw = 2 /\ pic' = Chip(byte, pic.imr, pic.irr, 3)
  \/ /\ port = "data1" /\ pic.icw \in {3, 4}
     /\ pic' = Chip(pic.base, pic.imr, pic.irr, IF pic.icw = 3 THEN 4 ELSE 0)
  \/ port = "data1" /\ pic.icw = 0 /\ pic' = Chip(pic.base, byte, pic.irr, 0)
  \/ port \in {"cmd2", "data2"} /\ UNCHANGED pic

InitPit ==
  /\ stage = "pic"
  /\ stage' = "remap"
  /\ todo' = RemapPic
  /\ UNCHANGED <<machine, outVars, cpuVars, pic, worldVars, drawVars>>

WritePic ==
  /\ stage = "remap" /\ todo # <<>>
  /\ PicTakes(Head(todo)[1], Head(todo)[2])
  /\ todo' = Tail(todo)
  /\ UNCHANGED <<machine, stage, outVars, cpuVars, worldVars, drawVars>>

ProgramPit ==
  /\ stage = "remap" /\ todo = <<>>
  /\ stage' = "ps2"
  /\ UNCHANGED <<machine, outVars, cpuVars, picVars, worldVars, drawVars>>

(* ps2::init: the output buffer is drained; the global is set only here,   *)
(* so that it cannot refuse.                                               *)
FlushKeyboard ==
  /\ stage = "ps2"
  /\ IF keys > 0
     THEN keys' = keys - 1 /\ UNCHANGED stage
     ELSE stage' = "lapic" /\ UNCHANGED keys
  /\ UNCHANGED <<machine, outVars, cpuVars, picVars, line, ticks, pressed,
                 drawVars>>

(* A bug to compare with: the local APIC stays on. *)
MutantRevertToPicMode ==
  /\ stage = "lapic"
  /\ stage' = "sti"
  /\ UNCHANGED <<machine, outVars, cpuVars, picVars, worldVars, drawVars>>

RevertToPicMode ==
  /\ stage = "lapic"
  /\ stage' = "sti"
  /\ lapic' = FALSE
  /\ UNCHANGED <<machine, outVars, gates, gdt, vbar, irqsOn, mapped, picVars,
                 worldVars, drawVars>>

EnableIrqs ==
  /\ stage = "sti"
  /\ stage' = "collect"
  /\ irqsOn' = TRUE
  /\ UNCHANGED <<machine, outVars, gates, gdt, vbar, lapic, mapped, picVars,
                 worldVars, drawVars>>
-----------------------------------------------------------------------------
(* Interrupts.  The handler of IRQ0 counts the tick and acknowledges it.   *)
TimerFires ==
  /\ ticks < MaxTicks /\ 0 \notin pic.irr /\ X86
  /\ pic' = [pic EXCEPT !.irr = @ \cup {0}]
  /\ UNCHANGED <<machine, stage, outVars, cpuVars, todo, worldVars, drawVars>>

KeyPressed ==
  /\ pressed < MaxKeys /\ X86
  /\ pressed' = pressed + 1
  /\ keys' = keys + 1
  /\ pic' = [pic EXCEPT !.irr = @ \cup {1}]
  /\ UNCHANGED <<machine, stage, outVars, cpuVars, todo, line, ticks,
                 drawVars>>

LineByte ==
  /\ stage = "loopback" /\ ~line
  /\ line' = TRUE
  /\ UNCHANGED <<machine, stage, outVars, cpuVars, picVars, keys, ticks,
                 pressed, drawVars>>

TakeInterrupt ==
  /\ Running /\ irqsOn /\ ~lapic
  /\ \E irq \in pic.irr \ pic.imr :
       /\ pic' = [pic EXCEPT !.irr = @ \ {irq}]
       /\ IF gdt /\ pic.base + irq = IRQ0_VECTOR /\ IRQ0_VECTOR \in gates
          THEN ticks' = ticks + 1 /\ UNCHANGED stage
          ELSE stage' = Raised(pic.base + irq) /\ UNCHANGED ticks
  /\ UNCHANGED <<machine, outVars, cpuVars, todo, keys, line, pressed,
                 drawVars>>
-----------------------------------------------------------------------------
(* limine::collect: the base revision, the direct map and the memory map   *)
(* are required, a framebuffer is not.                                     *)
Answered == {"revision", "hhdm", "memmap"} \subseteq machine.answers

Collect ==
  /\ stage = "collect"
  /\ CASE ~Answered ->
            /\ Exit(STATUS_BOOT_INFO_MISSING)
            /\ IF X86 THEN Say("BOOT INFO MISSING") ELSE UNCHANGED wire
       [] Answered /\ X86 ->
            Say("BOOT OK") /\ stage' = "framebuffer" /\ UNCHANGED exit
       [] OTHER -> stage' = "map" /\ UNCHANGED outVars
  /\ UNCHANGED <<machine, cpuVars, picVars, worldVars, drawVars>>

(* map_uart_window: the top-level entry must be a table, and the slot of   *)
(* the window's GiB free or already what it is about to become.            *)
UART0_BASE == 144   \* in MiB
GICD_BASE == 128
L1Index(mib) == mib \div 1024
Reaches(base) == L1Index(base) \in mapped

InsertBlock(tables) == tables \in {"free", "ours"}

MapUartWindow ==
  /\ stage = "map"
  /\ IF InsertBlock(machine.tables)
     THEN /\ mapped' = mapped \cup {L1Index(UART0_BASE)}
          /\ stage' = "pl011" /\ UNCHANGED exit
     ELSE Exit(STATUS_UART_FAULT) /\ UNCHANGED mapped
  /\ UNCHANGED <<machine, wire, gates, gdt, vbar, lapic, irqsOn, picVars,
                 worldVars, drawVars>>

(* A device register behind no mapping is a synchronous exception. *)
Access(base, next) ==
  stage' = IF Reaches(base) THEN next
           ELSE IF vbar THEN "halted" ELSE "lost"

InitPl011 ==
  /\ stage = "pl011"
  /\ Access(UART0_BASE, "vbar")
  /\ IF Reaches(UART0_BASE) THEN Say("BOOT OK") ELSE UNCHANGED wire
  /\ UNCHANGED <<machine, exit, cpuVars, picVars, worldVars, drawVars>>

InstallVectors ==
  /\ stage = "vbar"
  /\ vbar' = TRUE
  /\ stage' = IF machine.build = "exception" THEN "brk" ELSE "gic"
  /\ UNCHANGED <<machine, outVars, gates, gdt, lapic, irqsOn, mapped, picVars,
                 worldVars, drawVars>>

Break ==
  /\ stage = "brk"
  /\ stage' = IF vbar THEN "halted" ELSE "lost"
  /\ Say("DUMP")
  /\ UNCHANGED <<machine, exit, cpuVars, picVars, worldVars, drawVars>>

(* gictimer::init, and enable, which clears DAIF.A and no more. *)
InitGicTimer ==
  /\ stage = "gic"
  /\ Access(GICD_BASE, "framebuffer")
  /\ UNCHANGED <<machine, outVars, cpuVars, picVars, worldVars, drawVars>>
-----------------------------------------------------------------------------
(* The framebuffer, its self-test and the heap, on both targets. *)
InitFramebuffer ==
  /\ stage = "framebuffer"
  /\ \/ /\ Capture(machine.framebuffers)
        /\ stage' = "bars"
        /\ UNCHANGED exit
     \/ /\ ~Qualifies(machine.framebuffers)
        /\ Exit(STATUS_FRAMEBUFFER_MISSING)
        /\ UNCHANGED surface
  /\ UNCHANGED <<machine, wire, cpuVars, picVars, worldVars, bar, vram>>

DrawColorBars ==
  /\ stage = "bars"
  /\ IF BarFits(bar)
     THEN /\ DrawBar(bar)
          /\ bar' = bar + 1
          /\ stage' = IF bar = 6 THEN "verify" ELSE "bars"
          /\ UNCHANGED exit
     ELSE Exit(STATUS_FRAMEBUFFER_FAULT) /\ UNCHANGED <<bar, vram>>
  /\ UNCHANGED <<machine, wire, cpuVars, picVars, worldVars, surface>>

VerifyBars ==
  /\ stage = "verify"
  /\ IF VerifyColorBars
     THEN Say("FRAMEBUFFER OK") /\ stage' = "heap" /\ UNCHANGED exit
     ELSE Exit(STATUS_FRAMEBUFFER_FAULT) /\ UNCHANGED wire
  /\ UNCHANGED <<machine, cpuVars, picVars, worldVars, drawVars>>

(* The largest usable region is installed even when it is too small for    *)
(* heap_smoke, whose allocations then panic; with no usable region at all  *)
(* the static arena serves.                                                *)
InitHeap ==
  /\ stage = "heap"
  /\ IF machine.memory = "tiny"
     THEN stage' = "halted" /\ Say("PANIC")
     ELSE IF machine.build = "panic"
     THEN stage' = "halted" /\ wire' = wire \o <<"HEAP OK", "PANIC">>
     ELSE stage' = "kmain" /\ Say("HEAP OK")
  /\ UNCHANGED <<machine, exit, cpuVars, picVars, worldVars, drawVars>>
-----------------------------------------------------------------------------
Boot ==
  \/ ProgramUart \/ ProbeUart \/ LoadGdt \/ LoadIdt \/ Divide
  \/ InitPit \/ WritePic \/ ProgramPit \/ FlushKeyboard
  \/ RevertToPicMode \/ EnableIrqs
  \/ Collect
  \/ MapUartWindow \/ InitPl011 \/ InstallVectors \/ Break \/ InitGicTimer
  \/ InitFramebuffer \/ DrawColorBars \/ VerifyBars \/ InitHeap

Next == Boot \/ TakeInterrupt \/ TimerFires \/ KeyPressed \/ LineByte

Spec == Init /\ [][Next]_vars

(* The CPU runs, takes the interrupts it is not shielded from, and the PIT *)
(* is periodic.  Nobody has to press a key.                                *)
FairSpec ==
  Spec /\ WF_vars(Boot) /\ WF_vars(TakeInterrupt) /\ WF_vars(TimerFires)
-----------------------------------------------------------------------------
(* The CPU never takes a fault or an interrupt it has no handler for, not  *)
(* even a key nobody waits for or a timer that has fired since the         *)
(* firmware's days; and what it takes a handler for is what the build asks *)
(* for, or memory too small for the heap's self-test (boot's order, the    *)
(* gates of idt.rs, the masks of pit.rs, the window of aarch64.rs).        *)
NeverLost ==
  /\ stage # "lost"
  /\ stage = "halted" => machine.build # "normal" \/ machine.memory = "tiny"

(* What is wrong with a machine, said without the code.  A byte that meets *)
(* the UART between the clearing of its receiver and the loopback spoils   *)
(* the probe, so that it is a defect here.                                 *)
Bad(l) ==
  \/ 0 \in {l.width, l.height, l.bpp}
  \/ l.bpp \notin {8 * n : n \in 0..8}
  \/ l.pitch < l.width * (l.bpp \div 8)
  \/ \E c \in {"red", "green", "blue"} :
       l[c].size = 0 \/ ~(ChannelBits(l[c]) \subseteq 0..l.bpp - 1)
  \/ \E c, d \in {"red", "green", "blue"} :
       c # d /\ ChannelBits(l[c]) \cap ChannelBits(l[d]) # {}

FirstOf(framebuffers) ==
  {framebuffers[i] : i \in {i \in 1..Len(framebuffers) :
     /\ framebuffers[i].rgb
     /\ \A j \in 1..i - 1 : ~framebuffers[j].rgb}}

Defects ==
  (IF X86 /\ (machine.uart # "good" \/ line) THEN {97} ELSE {})
    \cup (IF ~X86 /\ machine.tables \notin {"free", "ours"} THEN {48} ELSE {})
    \cup (IF Answered THEN {} ELSE {IF X86 THEN 65 ELSE 32})
    \cup (IF \E l \in FirstOf(machine.framebuffers) : ~Bad(l) THEN {}
          ELSE {IF X86 THEN 129 ELSE 64})
    \cup (IF \E l \in FirstOf(machine.framebuffers) : l.width < 7
          THEN {IF X86 THEN 161 ELSE 80} ELSE {})

(* The exit code names something that is wrong with the machine, a machine *)
(* that reaches the shell has nothing wrong with it, and the last marker on*)
(* the line says how far it came (the codes are those of qemu.rs's docs).  *)
OutcomeNamesCause ==
  /\ stage = "exited" => ExitCode \in Defects
  /\ stage = "kmain" =>
       Defects = {} /\ wire = <<"BOOT OK", "FRAMEBUFFER OK", "HEAP OK">>
  /\ "BOOT OK" \in ToSet(wire) /\ stage = "exited" =>
       ExitCode \in {129, 161, 64, 80}

(* The bars cover the surface when the self-test says so, and never a byte *)
(* beyond it (Framebuffer).                                                *)
SurfaceExact ==
  /\ PaddingUntouched
  /\ "FRAMEBUFFER OK" \in ToSet(wire) => BarsFromEdgeToEdge

(* Boot comes to an end: an exit, a halt, or a shell whose clock runs on   *)
(* x86_64.  A UART that never says that data is ready is waited for in     *)
(* vain, contrary to the doc of Serial::new.                               *)
Ended ==
  \/ stage \in {"exited", "halted"}
  \/ stage = "kmain" /\ (X86 => ticks = MaxTicks)
  \/ stage = "loopback" /\ machine.uart = "dead"
BootEnds == <>[]Ended
=============================================================================
