----------------------------- MODULE CrashPath -----------------------------
(***************************************************************************)
(* Kernel code on one CPU, and the ways it dies (console.rs, panic.rs,     *)
(* interrupt.rs).                                                          *)
(*                                                                         *)
(* The one thread of the kernel runs activities, each a nest of spin locks *)
(* around its work.  A CPU exception can strike between any two steps and  *)
(* a panic can be raised by any of them; neither unwinds, so every lock    *)
(* held at that moment stays held under the handler, and a handler that    *)
(* waits for one waits for ever.  Handlers stack up: a fault inside a      *)
(* handler starts another one above it.                                    *)
(*                                                                         *)
(* The model starts where the exception vectors and the serial port are    *)
(* up (lib.rs, after idt::init or interrupt::init).                        *)
(***************************************************************************)
EXTENDS Integers, Sequences, SequencesExt

CONSTANTS Arches,       \* the targets: subset of {"x86_64", "aarch64"}
          DumpParts,    \* serial_write calls of one exception dump on x86_64
          MaxCrashes    \* bound on stacked handlers (model checking only)

ASSUME CrashAssumption ==
  /\ Arches \subseteq {"x86_64", "aarch64"}
  /\ DumpParts \in Nat \ {0}
  /\ MaxCrashes \in Nat

Locks == {"CONSOLE", "FRAMEBUFFER", "SERIAL", "RENDER_BUFFER", "HEAP", "WINDOW"}

Free == -1
Thread == 0      \* frame 0; frame i > 0 is crashes[i]

VARIABLES arch,
          surface,    \* the framebuffer: "none", one the cell buffer can hold
                      \* ("fits") or a larger one ("large")
          geometry,   \* Console.cols and rows, in the same terms
          thread,     \* what the thread is doing and how far it is
          holder,     \* the frame that holds each lock, or Free
          crashes,    \* the handlers on the stack, the running one last
          text,       \* whose text the console cells hold: a frame
          screen      \* what the framebuffer shows: <<kind, frame>>

vars == <<arch, surface, geometry, thread, holder, crashes, text, screen>>

Top == Len(crashes)
Running == crashes = <<>>
Handler == crashes[Top]
IsFree(l) == holder[l] = Free
Take(l) == holder' = [holder EXCEPT ![l] = Top]
Drop(l) == holder' = [holder EXCEPT ![l] = Free]
Goto(pc) == crashes' = [crashes EXCEPT ![Top].pc = pc]
-----------------------------------------------------------------------------
(* The thread's activities: <<"lock", l>>, <<"drop", l>> and work.         *)
With(l, body) == <<<<"lock", l>>>> \o body \o <<<<"drop", l>>>>
Work(w) == <<<<"work", w>>>>

Render == With("FRAMEBUFFER", Work("render"))
Send == With("SERIAL", Work("send"))
OnHeap == With("HEAP", Work("heap"))

(* A bug to compare with: the prompt is printed with print!, which takes   *)
(* the lock that its caller holds.                                         *)
MutantPrompt == With("CONSOLE", With("CONSOLE", Work("put") \o Send) \o Render)

Prompt == With("CONSOLE", Work("put") \o Send \o Render)

PrintText == With("CONSOLE", Work("put") \o Send)
PrintLine == With("CONSOLE", Work("put") \o Render \o Send)
EditLine == With("CONSOLE", Work("put") \o Render)
RenderNow == With("CONSOLE", Render)
SetGeometry == With("CONSOLE", Work("geometry"))
Redraw == With("FRAMEBUFFER", Work("draw"))
SetWindow == With("WINDOW", OnHeap)
RenderAndBlit ==
  With("RENDER_BUFFER",
       OnHeap \o Work("pixels") \o With("FRAMEBUFFER", Work("draw")))

Script ==
  [print |-> PrintText, println |-> PrintLine, new_prompt |-> Prompt,
   set_edit_line |-> EditLine, render_now |-> RenderNow,
   set_geometry |-> SetGeometry, mirror_to_serial |-> Send, redraw |-> Redraw,
   alloc |-> OnHeap, set_window |-> SetWindow, render_and_blit |-> RenderAndBlit]

Idle == [act |-> "idle", pc |-> 1]
Busy == thread.act # "idle"
Op == Script[thread.act][thread.pc]

(* The boot path brings the console up last. *)
Allowed(a) ==
  CASE a = "mirror_to_serial" -> TRUE
    [] a \in {"redraw", "alloc"} -> surface # "none"
    [] a = "set_geometry" -> surface # "none" /\ geometry = "none"
    [] OTHER -> geometry # "none"

Advance ==
  thread' = IF thread.pc = Len(Script[thread.act]) THEN Idle
            ELSE [thread EXCEPT !.pc = @ + 1]

(* A screen with more cells than CELL_COUNT fails TextGrid::new(..).expect *)
(* and the indexing in blit_cell.                                          *)
Overfull(w) == w \in {"put", "render"} /\ geometry = "large"
-----------------------------------------------------------------------------
Init ==
  /\ arch \in Arches
  /\ surface = "none"
  /\ geometry = "none"
  /\ thread = Idle
  /\ holder = [l \in Locks |-> Free]
  /\ crashes = <<>>
  /\ text = Thread
  /\ screen = <<"console", Thread>>

InitFramebuffer ==
  /\ Running /\ ~Busy
  /\ surface = "none"
  /\ surface' \in {"fits", "large"}
  /\ UNCHANGED <<arch, geometry, thread, holder, crashes, text, screen>>

Begin(a) ==
  /\ Running /\ ~Busy
  /\ Allowed(a)
  /\ thread' = [act |-> a, pc |-> 1]
  /\ UNCHANGED <<arch, surface, geometry, holder, crashes, text, screen>>

ThreadLock ==
  /\ Running /\ Busy /\ Op[1] = "lock"
  /\ IsFree(Op[2])
  /\ Take(Op[2])
  /\ Advance
  /\ UNCHANGED <<arch, surface, geometry, crashes, text, screen>>

ThreadDrop ==
  /\ Running /\ Busy /\ Op[1] = "drop"
  /\ Drop(Op[2])
  /\ Advance
  /\ UNCHANGED <<arch, surface, geometry, crashes, text, screen>>

ThreadWork ==
  /\ Running /\ Busy /\ Op[1] = "work"
  /\ ~Overfull(Op[2])
  /\ geometry' = IF Op[2] = "geometry" THEN surface ELSE geometry
  /\ Advance
  /\ UNCHANGED <<arch, surface, holder, crashes, text, screen>>
-----------------------------------------------------------------------------
OnStack(kind, pc, told, paintable) ==
  [kind |-> kind, pc |-> pc, told |-> told, paintable |-> paintable]

(* A handler starts above everything that is on the stack.  paintable is a *)
(* history: at that moment nobody held what the crash screen needs, and    *)
(* the screen has a size the cell buffer can hold.                         *)
Raise(kind, pc) ==
  /\ Top < MaxCrashes
  /\ crashes' = Append(crashes,
       OnStack(kind, pc, 0, /\ IsFree("CONSOLE") /\ IsFree("FRAMEBUFFER")
                            /\ surface = "fits"))
  /\ UNCHANGED <<arch, surface, geometry, thread, holder, text, screen>>

Halted == Top > 0 /\ Handler.pc = "halt"

Panic == Running /\ Raise("panic", "tell")

Exception ==
  /\ ~Halted
  /\ Raise("dump", IF arch = "x86_64" THEN "try" ELSE "lock")

Parts(kind) == IF kind = "dump" /\ arch = "x86_64" THEN DumpParts ELSE 1

Tells(pc) ==
  crashes' = [crashes EXCEPT ![Top] =
    OnStack(Handler.kind, pc, Handler.told + 1, Handler.paintable)]

At(kind, pc) == Top > 0 /\ Handler.kind = kind /\ Handler.pc = pc
-----------------------------------------------------------------------------
(* exception_common: each part of the dump goes through serial_write. *)
NextPart == IF Handler.told + 1 = Parts("dump") THEN "halt" ELSE "try"

(* A bug to compare with: what found the port busy is dropped. *)
MutantDumpSkips ==
  /\ At("dump", "try")
  /\ ~IsFree("SERIAL")
  /\ Goto("halt")
  /\ UNCHANGED <<arch, surface, geometry, thread, holder, text, screen>>

(* with_serial_try answers false; write_emergency goes around the lock. *)
DumpRaw ==
  /\ At("dump", "try")
  /\ ~IsFree("SERIAL")
  /\ Tells(NextPart)
  /\ UNCHANGED <<arch, surface, geometry, thread, holder, text, screen>>

(* x86_64: with_serial_try; aarch64: with_serial, which waits. *)
DumpTakesSerial ==
  /\ At("dump", "try") \/ At("dump", "lock")
  /\ IsFree("SERIAL")
  /\ Take("SERIAL")
  /\ Goto("send")
  /\ UNCHANGED <<arch, surface, geometry, thread, text, screen>>

DumpSends ==
  /\ At("dump", "send")
  /\ Drop("SERIAL")
  /\ Tells(NextPart)
  /\ UNCHANGED <<arch, surface, geometry, thread, text, screen>>
-----------------------------------------------------------------------------
(* panic, then console::render_panic. *)
PanicTells ==
  /\ At("panic", "tell")
  /\ Tells("console")
  /\ UNCHANGED <<arch, surface, geometry, thread, holder, text, screen>>

(* A bug to compare with: the panic path takes the console like println. *)
MutantPanicWaits ==
  /\ At("panic", "console")
  /\ IsFree("CONSOLE")
  /\ Take("CONSOLE")
  /\ Goto(IF geometry = "none" THEN "size" ELSE "grid")
  /\ UNCHANGED <<arch, surface, geometry, thread, text, screen>>

PanicTriesConsole ==
  /\ At("panic", "console")
  /\ IF IsFree("CONSOLE")
       THEN /\ Take("CONSOLE")
            /\ Goto(IF geometry = "none" THEN "size" ELSE "grid")
       ELSE /\ Goto("halt")
            /\ UNCHANGED holder
  /\ UNCHANGED <<arch, surface, geometry, thread, text, screen>>

PanicTriesSize ==
  /\ At("panic", "size")
  /\ IF surface # "none" /\ IsFree("FRAMEBUFFER")
       THEN /\ Take("FRAMEBUFFER")
            /\ Goto("measure")
       ELSE /\ Goto("grid")
            /\ UNCHANGED holder
  /\ UNCHANGED <<arch, surface, geometry, thread, text, screen>>

PanicMeasures ==
  /\ At("panic", "measure")
  /\ Drop("FRAMEBUFFER")
  /\ Goto("set_geometry")
  /\ UNCHANGED <<arch, surface, geometry, thread, text, screen>>

PanicSetsGeometry ==
  /\ At("panic", "set_geometry")
  /\ geometry' = surface
  /\ Goto("grid")
  /\ UNCHANGED <<arch, surface, thread, holder, text, screen>>

PanicGrid ==
  /\ At("panic", "grid")
  /\ geometry # "large"
  /\ text' = IF geometry = "none" THEN text ELSE Top
  /\ Goto("release")
  /\ UNCHANGED <<arch, surface, geometry, thread, holder, screen>>

(* panic_grid's own expect: the panic handler panics, holding CONSOLE. *)
PanicInPanic ==
  /\ At("panic", "grid")
  /\ geometry = "large"
  /\ Raise("panic", "tell")

(* A bug to compare with: the guard lives on to the end of the block. *)
MutantPanicKeepsConsole ==
  /\ At("panic", "release")
  /\ Goto("paint")
  /\ UNCHANGED <<arch, surface, geometry, thread, holder, text, screen>>

PanicReleases ==
  /\ At("panic", "release")
  /\ Drop("CONSOLE")
  /\ Goto("paint")
  /\ UNCHANGED <<arch, surface, geometry, thread, text, screen>>

PanicTriesFramebuffer ==
  /\ At("panic", "paint")
  /\ IF surface # "none" /\ IsFree("FRAMEBUFFER")
       THEN /\ Take("FRAMEBUFFER")
            /\ Goto("fill")
       ELSE /\ Goto("halt")
            /\ UNCHANGED holder
  /\ UNCHANGED <<arch, surface, geometry, thread, text, screen>>

PanicFills ==
  /\ At("panic", "fill")
  /\ screen' = <<"red", Top>>
  /\ Goto("again")
  /\ UNCHANGED <<arch, surface, geometry, thread, holder, text>>

PanicTriesConsoleAgain ==
  /\ At("panic", "again")
  /\ IF IsFree("CONSOLE")
       THEN /\ Take("CONSOLE")
            /\ Goto("render")
       ELSE /\ Goto("unlock")
            /\ UNCHANGED holder
  /\ UNCHANGED <<arch, surface, geometry, thread, text, screen>>

PanicRenders ==
  /\ At("panic", "render")
  /\ screen' = IF geometry = "none" THEN screen ELSE <<"text", text>>
  /\ Drop("CONSOLE")
  /\ Goto("unlock")
  /\ UNCHANGED <<arch, surface, geometry, thread, text>>

PanicUnlocks ==
  /\ At("panic", "unlock")
  /\ Drop("FRAMEBUFFER")
  /\ Goto("halt")
  /\ UNCHANGED <<arch, surface, geometry, thread, text, screen>>
-----------------------------------------------------------------------------
HandlerStep ==
  \/ DumpRaw \/ DumpTakesSerial \/ DumpSends
  \/ PanicTells \/ PanicTriesConsole
  \/ PanicTriesSize \/ PanicMeasures \/ PanicSetsGeometry
  \/ PanicGrid \/ PanicInPanic \/ PanicReleases
  \/ PanicTriesFramebuffer \/ PanicFills
  \/ PanicTriesConsoleAgain \/ PanicRenders \/ PanicUnlocks

Next ==
  \/ InitFramebuffer
  \/ \E a \in DOMAIN Script : Begin(a)
  \/ ThreadLock \/ ThreadDrop \/ ThreadWork
  \/ Panic \/ Exception
  \/ HandlerStep

Spec == Init /\ [][Next]_vars

(* The CPU executes the handler; exceptions strike only so often. *)
FairSpec == Spec /\ WF_vars(HandlerStep)
-----------------------------------------------------------------------------
(* Every variable stays in its range; a lock is held by a frame that is on *)
(* the stack, and a handler writes no more than its report has.            *)
TypeOK ==
  /\ arch \in Arches
  /\ surface \in {"none", "fits", "large"}
  /\ geometry \in {"none", surface}
  /\ Busy => /\ thread.act \in DOMAIN Script
             /\ thread.pc \in DOMAIN Script[thread.act]
  /\ holder \in [Locks -> {Free} \cup (0 .. Top)]
  /\ \A i \in 1 .. Top : crashes[i].told \in 0 .. Parts(crashes[i].kind)
  /\ text \in 0 .. Top
  /\ screen[2] \in 0 .. Top

(* The running frame is about to spin on a lock that is taken.  There is   *)
(* one CPU and the holder is this frame or one beneath it, so it spins for *)
(* ever.                                                                   *)
Spins(l) ==
  /\ ~IsFree(l)
  /\ \/ Running /\ Busy /\ Op = <<"lock", l>>
     \/ l = "SERIAL" /\ At("dump", "lock")

(* No path of the kernel locks itself out: neither the activities with     *)
(* their nested locks nor the handlers over whatever they interrupted.     *)
(* The one way is aarch64's, whose dump waits for the port lock.           *)
NeverWedged ==
  \A l \in Locks : Spins(l) => arch = "aarch64" /\ At("dump", "lock")

(* When the CPU stops, the report of the handler that stopped it is on the *)
(* wire in full, whoever held the port; and where a panic was followed by  *)
(* a panic of its own crash screen, the first message went out before.     *)
ReportOnWire ==
  Halted =>
    /\ Handler.told = Parts(Handler.kind)
    /\ \A i \in 1 .. Top - 1 :
         crashes[i + 1].kind = "panic" => crashes[i].told = Parts(crashes[i].kind)

(* A panic that stops the CPU leaves no half-painted screen: it shows      *)
(* either what was there before or this panic's own text, and the text     *)
(* whenever both locks were free and the cells could hold the screen.      *)
PanelWhole ==
  Halted /\ Handler.kind = "panic" =>
    /\ screen # <<"red", Top>>
    /\ Handler.paintable => screen = <<"text", Top>>

(* A handler stops the CPU in the end, whatever it interrupted; on aarch64 *)
(* unless it waits for the port.                                           *)
CrashHalts == ~Running ~> Halted \/ Spins("SERIAL")
=============================================================================
