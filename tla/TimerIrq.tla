------------------------------ MODULE TimerIrq ------------------------------
(***************************************************************************)
(* The timer interrupt and the thread that sleeps on it (interrupt.rs,     *)
(* pit.rs, time.rs, wait_for_interrupt in lib.rs).                         *)
(*                                                                         *)
(* On x86_64 the stub's effect on registers and stack is followed word by  *)
(* word: a register holds the interrupted thread's value, a stack address  *)
(* or whatever the handler left there.  On aarch64 `enable' clears the     *)
(* bit A of DAIF and leaves I set, so a timer interrupt is never taken: it *)
(* stays pending, and only ends the wfi.                                   *)
(***************************************************************************)
EXTENDS Integers, Sequences, SequencesExt

CONSTANTS Arches,      \* the targets: subset of {"x86_64", "aarch64"}
          MaxTicks     \* bound on TICKS (model checking only)

ASSUME TimerAssumption ==
  /\ Arches \subseteq {"x86_64", "aarch64"}
  /\ MaxTicks \in Nat

CallerSaved == {"rax", "rcx", "rdx", "rsi", "rdi", "r8", "r9", "r10", "r11"}
CalleeSaved == {"rbx", "rbp", "r12", "r13", "r14", "r15"}
Regs == CallerSaved \cup CalleeSaved

VARIABLES arch,
          thread,       \* "boot", "run", or where it is in wait_for_interrupt
          masked,       \* the interrupt masks set: "I" is IF clear, or DAIF.I
          cpu,          \* "thread", or the part of the interrupt path it is in
          regs,         \* the register file
          stack,        \* the words pushed since the interrupt
          skew,         \* the interrupted stack pointer, in words mod 2
          pending,      \* the timer asks for an interrupt
          inService,    \* it was taken and not yet ended (EOI)
          ticks, idle,  \* TICKS, IDLE_TICKS
          entered       \* wait_for_interrupt's entered_ticks

deviceVars == <<pending, inService>>
timeVars == <<ticks, idle, entered>>
cpuVars == <<masked, cpu, regs, stack, skew>>
vars == <<arch, thread, cpuVars, deviceVars, timeVars>>

DAIF == {"D", "A", "I", "F"}

Live == <<"live", 0>>
Junk == <<"junk", 0>>
Address(n) == <<"address", n>>
Word(w) == <<w, 0>>
Push(s, w) == Append(s, w)

Init ==
  /\ arch \in Arches
  /\ thread = "boot"
  /\ masked = IF arch = "x86_64" THEN {"I"} ELSE DAIF
  /\ cpu = "thread"
  /\ regs = [r \in Regs |-> Live]
  /\ stack = <<>>
  /\ skew \in {0, 1}
  /\ pending = FALSE
  /\ inService = FALSE
  /\ ticks = 0 /\ idle = 0 /\ entered = 0
-----------------------------------------------------------------------------
(* sti clears IF; daifclr takes D, A, I, F as bits 3, 2, 1, 0 of its       *)
(* operand, and the code gives it 4.                                       *)
InThread == cpu = "thread"

Enable ==
  /\ InThread /\ thread = "boot"
  /\ thread' = "run"
  /\ masked' = IF arch = "x86_64" THEN {} ELSE masked \ {"A"}
  /\ UNCHANGED <<arch, cpu, regs, stack, skew, deviceVars, timeVars>>

(* wait_for_interrupt: read the ticks, hlt or wfi, count what passed.  An  *)
(* interrupt that comes before the hlt does not end it; a pending one ends *)
(* a wfi even when it is masked.                                           *)
Enter ==
  /\ InThread /\ thread = "run"
  /\ thread' = "entered"
  /\ entered' = ticks
  /\ UNCHANGED <<arch, cpuVars, deviceVars, ticks, idle>>

Sleep ==
  /\ InThread /\ thread = "entered"
  /\ thread' = "asleep"
  /\ UNCHANGED <<arch, cpuVars, deviceVars, timeVars>>

(* A bug to compare with: the time since boot is counted, not the nap. *)
MutantRecordIdle ==
  /\ InThread /\ thread = "woken"
  /\ thread' = "run"
  /\ idle' = idle + ticks
  /\ UNCHANGED <<arch, cpuVars, deviceVars, ticks, entered>>

RecordIdle ==
  /\ InThread /\ thread = "woken"
  /\ thread' = "run"
  /\ idle' = idle + (IF ticks >= entered THEN ticks - entered ELSE 0)
  /\ UNCHANGED <<arch, cpuVars, deviceVars, ticks, entered>>

Woken == thread' = IF thread = "asleep" THEN "woken" ELSE thread

WfiReturns ==
  /\ arch = "aarch64"
  /\ InThread /\ thread = "asleep"
  /\ pending
  /\ Woken
  /\ UNCHANGED <<arch, cpuVars, deviceVars, timeVars>>
-----------------------------------------------------------------------------
(* The timer: PIT and 8259A, or generic timer and GIC. *)
TimerFires ==
  /\ ~pending
  /\ ticks + (IF inService THEN 1 ELSE 0) < MaxTicks
  /\ pending' = TRUE
  /\ UNCHANGED <<arch, thread, cpuVars, inService, timeVars>>

-----------------------------------------------------------------------------
(* x86_64: the CPU aligns the stack and pushes its frame; an interrupt     *)
(* gate then clears IF.                                                    *)
Frame ==
  <<Word("ss"), <<"rsp", Len(stack)>>, <<"rflags", masked>>, Word("cs"),
    Word("rip")>>
Aligned(s) == IF (skew + Len(s)) % 2 = 0 THEN s ELSE Push(s, Word("pad"))

Deliver ==
  /\ pending /\ ~inService /\ "I" \notin masked
  /\ pending' = FALSE
  /\ inService' = TRUE
  /\ masked' = masked \cup {"I"}
  /\ cpu' = "stub"
  /\ stack' = Aligned(stack) \o Frame
  /\ UNCHANGED <<arch, thread, regs, skew, timeVars>>

Pushed == <<"r11", "r10", "r9", "r8", "rdi", "rsi", "rdx", "rcx", "rax">>
Popped == <<"rax", "rcx", "rdx", "rsi", "rdi", "r8", "r9", "r10", "r11">>

(* irq_stub_irq0, to its call. *)
Save ==
  /\ cpu = "stub"
  /\ LET saved == stack \o <<Word("error"), Word("vector")>>
                        \o [i \in DOMAIN Pushed |-> regs[Pushed[i]]]
     IN  /\ regs' = [regs EXCEPT !["rdi"] = Address(Len(saved))]
         /\ stack' = Push(saved, Word("return"))
  /\ cpu' = "wrapper"
  /\ UNCHANGED <<arch, thread, masked, skew, deviceVars, timeVars>>

(* A bug to compare with: Rust is called on the stack as it is. *)
MutantWrap ==
  /\ cpu = "wrapper"
  /\ regs' = [regs EXCEPT !["r12"] = Address(Len(stack)), !["r13"] = @]
  /\ stack' = Push(stack, Word("return"))
  /\ cpu' = "handler"
  /\ UNCHANGED <<arch, thread, masked, skew, deviceVars, timeVars>>

(* irq_handler_wrapper, to its call: r12 and r13 are overwritten here. *)
Wrap ==
  /\ cpu = "wrapper"
  /\ regs' = [regs EXCEPT !["r12"] = Address(Len(stack)), !["r13"] = regs["rdi"]]
  /\ stack' = Push(Aligned(stack), Word("return"))
  /\ cpu' = "handler"
  /\ UNCHANGED <<arch, thread, masked, skew, deviceVars, timeVars>>

(* A bug to compare with: the master PIC is never told. *)
MutantHandleNoEoi ==
  /\ cpu = "handler"
  /\ ticks' = ticks + 1
  /\ regs' = [r \in Regs |-> IF r \in CallerSaved THEN Junk ELSE regs[r]]
  /\ stack' = Front(stack)
  /\ cpu' = "unwrap"
  /\ UNCHANGED <<arch, thread, masked, skew, deviceVars, idle, entered>>

(* irq_common and handle_timer_irq: bump_tick, then the EOI.  Compiled     *)
(* Rust keeps the callee-saved registers and nothing else.                 *)
Handle ==
  /\ cpu = "handler"
  /\ ticks' = ticks + 1
  /\ inService' = FALSE
  /\ regs' = [r \in Regs |-> IF r \in CallerSaved THEN Junk ELSE regs[r]]
  /\ stack' = Front(stack)
  /\ cpu' = "unwrap"
  /\ UNCHANGED <<arch, thread, masked, skew, pending, idle, entered>>

(* mov rsp, r12; ret. *)
Unwrap ==
  /\ cpu = "unwrap"
  /\ stack' = SubSeq(stack, 1, regs["r12"][2] - 1)
  /\ cpu' = "restore"
  /\ UNCHANGED <<arch, thread, masked, regs, skew, deviceVars, timeVars>>

(* The pops, and add rsp, 16 over the vector and the error code. *)
Restore ==
  /\ cpu = "restore"
  /\ LET n == Len(stack)
         at(r) == CHOOSE i \in DOMAIN Popped : Popped[i] = r
     IN  /\ regs' = [r \in Regs |->
                       IF r \in CallerSaved THEN stack[n + 1 - at(r)] ELSE regs[r]]
         /\ stack' = SubSeq(stack, 1, n - 9 - 2)
  /\ cpu' = "iret"
  /\ UNCHANGED <<arch, thread, masked, skew, deviceVars, timeVars>>

Iretq ==
  /\ cpu = "iret"
  /\ masked' = stack[Len(stack) - 2][2]
  /\ stack' = SubSeq(stack, 1, stack[Len(stack) - 3][2])
  /\ cpu' = "thread"
  /\ Woken
  /\ UNCHANGED <<arch, regs, skew, deviceVars, timeVars>>
-----------------------------------------------------------------------------
IrqStep == Deliver \/ Save \/ Wrap \/ Handle \/ Unwrap \/ Restore \/ Iretq

Next ==
  Enable \/ Enter \/ Sleep \/ WfiReturns \/ RecordIdle \/ TimerFires \/ IrqStep

Spec == Init /\ [][Next]_vars

(* The timer is periodic, the CPU takes a pending interrupt and runs its   *)
(* handler, and a wfi with one pending returns.                            *)
FairSpec ==
  Spec /\ WF_vars(TimerFires) /\ WF_vars(IrqStep) /\ WF_vars(WfiReturns)
-----------------------------------------------------------------------------
(* Types and bounds: the frames of one interrupt at a time are on the      *)
(* stack, at most 19 words of the CPU, the stub and the wrapper.           *)
Tags ==
  {"live", "junk", "address", "ss", "rsp", "rflags", "cs", "rip", "pad",
   "error", "vector", "return"}

TypeOK ==
  /\ arch \in Arches
  /\ thread \in {"boot", "run", "entered", "asleep", "woken"}
  /\ masked \subseteq DAIF
  /\ cpu \in {"thread", "stub", "wrapper", "handler", "unwrap", "restore", "iret"}
  /\ DOMAIN regs = Regs /\ \A r \in Regs : regs[r][1] \in Tags
  /\ Len(stack) \in 0..20 /\ \A i \in DOMAIN stack : stack[i][1] \in Tags
  /\ skew \in {0, 1}
  /\ pending \in BOOLEAN /\ inService \in BOOLEAN
  /\ ticks \in 0..MaxTicks /\ idle \in Nat /\ entered \in 0..ticks

ContextRestored ==
  cpu = "thread" =>
    /\ stack = <<>>
    /\ \A r \in Regs \ {"r12", "r13"} : regs[r] = Live
    /\ arch = "x86_64" /\ thread # "boot" => masked = {}

RustAligned == cpu = "handler" => (skew + Len(stack) - 1) % 2 = 0

(* An interrupt is invisible to the thread it interrupts, but for the two  *)
(* registers the wrapper uses: the same stack pointer, every other         *)
(* register as it was, interrupts enabled again (irq_stub_irq0).  And Rust *)
(* is entered with the stack aligned as the SysV ABI asks, at a multiple   *)
(* of 16 before the call pushed its return address, wherever the interrupt *)
(* found the thread's stack (irq_handler_wrapper).                         *)
ThreadUndisturbed == ContextRestored /\ RustAligned

(* The idle time never exceeds the time, which the monitor's CPU load      *)
(* divides it by; and on x86_64 a nap always counts, since the only thing  *)
(* that ends one is a tick (wait_for_interrupt, record_idle).              *)
IdleWithinTime ==
  /\ idle + (IF thread \in {"asleep", "woken"} THEN ticks - entered ELSE 0) <= ticks
  /\ arch = "x86_64" /\ thread = "woken" => entered < ticks

(* A thread asleep in wait_for_interrupt wakes, as long as the timer runs  *)
(* (the bound MaxTicks stops it).                                          *)
TimerSpent == ticks = MaxTicks /\ ~pending
SleepEnds == thread = "asleep" ~> (thread # "asleep" \/ TimerSpent)

(* What the wrapper's comment says of r12 and r13: saved, preserved across *)
(* the Rust call, and both restored before the stub goes on.               *)
BothRestored == cpu = "thread" => regs["r12"] = Live /\ regs["r13"] = Live

=============================================================================
