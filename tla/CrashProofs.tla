---------------------------- MODULE CrashProofs ----------------------------
(***************************************************************************)
(* What the handlers of CrashPath leave behind, for any number of them     *)
(* stacked and any length of the dump: proofs about CrashPath.             *)
(*                                                                         *)
(* A handler never returns, so that a frame under the running one stays as *)
(* it was interrupted; the invariants say something of the running frame   *)
(* and of how a frame came to lie on another.                              *)
(***************************************************************************)
EXTENDS CrashPath, SequenceTheorems, TLAPS

DumpPcs == {"try", "lock", "send", "halt"}
PanicPcs ==
  {"tell", "console", "size", "measure", "set_geometry", "grid", "release",
   "paint", "fill", "again", "render", "unlock", "halt"}

Frame ==
  [kind : {"dump", "panic"}, pc : DumpPcs \cup PanicPcs, told : Nat,
   paintable : BOOLEAN]

StackOK ==
  /\ arch \in {"x86_64", "aarch64"}
  /\ crashes \in Seq(Frame)
  /\ holder \in [Locks -> Int]

(* How much of its report a handler has sent. *)
Reported(f) ==
  /\ f.kind = "panic" => f.told = IF f.pc = "tell" THEN 0 ELSE 1
  /\ f.kind = "dump" /\ f.pc = "halt" => f.told = Parts("dump")
  /\ f.kind = "dump" /\ f.pc # "halt" => f.told < Parts("dump")

ReportInv ==
  /\ StackOK
  /\ \A i \in 1..Top : Reported(crashes[i])
  /\ \A i \in 1..Top - 1 :
       crashes[i + 1].kind = "panic" =>
         crashes[i].kind = "panic" /\ crashes[i].pc = "grid"
-----------------------------------------------------------------------------
(* What a step of the running handler does to the stack. *)
LEMMA Moves ==
  ASSUME StackOK, Top > 0, NEW pc \in DumpPcs \cup PanicPcs, Goto(pc)
  PROVE  /\ crashes' \in Seq(Frame) /\ Top' = Top
         /\ \A i \in 1..Top - 1 : crashes'[i] = crashes[i]
         /\ Handler' \in Frame
         /\ Handler'.kind = Handler.kind /\ Handler'.pc = pc
         /\ Handler'.told = Handler.told
         /\ Handler'.paintable = Handler.paintable
<1>1. Top \in 1..Len(crashes) /\ Handler \in Frame
  BY DEF StackOK, Top, Handler
<1>2. crashes' = [crashes EXCEPT ![Top] = [Handler EXCEPT !.pc = pc]]
  BY DEF Goto, Handler
<1>3. [Handler EXCEPT !.pc = pc] \in Frame BY <1>1 DEF Frame
<1>4. crashes' \in Seq(Frame) /\ Len(crashes') = Len(crashes)
  BY <1>1, <1>2, <1>3 DEF StackOK
<1>5. Handler' = [Handler EXCEPT !.pc = pc]
  BY <1>1, <1>2, <1>4 DEF StackOK, Top, Handler
<1>6. \A i \in 1..Top - 1 : crashes'[i] = crashes[i]
  BY <1>1, <1>2 DEF StackOK, Top
<1> QED BY <1>1, <1>3, <1>4, <1>5, <1>6 DEF Frame, Top

LEMMA Tellings ==
  ASSUME StackOK, Top > 0, NEW pc \in DumpPcs \cup PanicPcs, Tells(pc)
  PROVE  /\ crashes' \in Seq(Frame) /\ Top' = Top
         /\ \A i \in 1..Top - 1 : crashes'[i] = crashes[i]
         /\ Handler' \in Frame
         /\ Handler'.kind = Handler.kind /\ Handler'.pc = pc
         /\ Handler'.told = Handler.told + 1
         /\ Handler'.paintable = Handler.paintable
<1>1. Top \in 1..Len(crashes) /\ Handler \in Frame
  BY DEF StackOK, Top, Handler
<1> DEFINE new == [kind |-> Handler.kind, pc |-> pc, told |-> Handler.told + 1,
                   paintable |-> Handler.paintable]
<1>2. crashes' = [crashes EXCEPT ![Top] = new] BY DEF Tells, OnStack
<1>3. new \in Frame BY <1>1 DEF Frame
<1> HIDE DEF new
<1>4. crashes' \in Seq(Frame) /\ Len(crashes') = Len(crashes)
  BY <1>1, <1>2, <1>3 DEF StackOK
<1>5. Handler' = new
  BY <1>1, <1>2, <1>4 DEF StackOK, Top, Handler
<1>6. \A i \in 1..Top - 1 : crashes'[i] = crashes[i]
  BY <1>1, <1>2 DEF StackOK, Top
<1> QED BY <1>1, <1>3, <1>4, <1>5, <1>6 DEF Frame, Top, new

LEMMA Raises ==
  ASSUME StackOK, NEW k \in {"dump", "panic"}, NEW pc \in DumpPcs \cup PanicPcs,
         Raise(k, pc)
  PROVE  /\ crashes' \in Seq(Frame) /\ Top' = Top + 1
         /\ \A i \in 1..Top : crashes'[i] = crashes[i]
         /\ Handler'.kind = k /\ Handler'.pc = pc /\ Handler'.told = 0
         /\ Handler'.paintable = (/\ IsFree("CONSOLE") /\ IsFree("FRAMEBUFFER")
                                  /\ surface = "fits")
<1> DEFINE new ==
      [kind |-> k, pc |-> pc, told |-> 0,
       paintable |-> /\ IsFree("CONSOLE") /\ IsFree("FRAMEBUFFER")
                     /\ surface = "fits"]
<1>1. crashes' = Append(crashes, new) BY DEF Raise, OnStack
<1>2. new \in Frame BY DEF Frame
<1> HIDE DEF new
<1>3. /\ crashes' \in Seq(Frame) /\ Len(crashes') = Len(crashes) + 1
      /\ \A i \in 1..Len(crashes) : crashes'[i] = crashes[i]
      /\ crashes'[Len(crashes) + 1] = new
  BY <1>1, <1>2 DEF StackOK
<1>4. Handler' = new BY <1>3 DEF Handler, Top
<1> QED BY <1>3, <1>4 DEF Top, new
-----------------------------------------------------------------------------
(* The reports. *)
LEMMA PartsPositive == \A k : Parts(k) \in Nat \ {0}
BY CrashAssumption DEF Parts

LEMMA ReportStart == Init => ReportInv
BY CrashAssumption DEF Init, ReportInv, StackOK, Top, Free

LEMMA TopMoved ==
  ASSUME ReportInv, Top > 0, UNCHANGED arch,
         crashes' \in Seq(Frame), Top' = Top,
         \A i \in 1..Top - 1 : crashes'[i] = crashes[i],
         Handler'.kind = Handler.kind, Reported(Handler)',
         holder' \in [Locks -> Int]
  PROVE  ReportInv'
<1>1. Top \in Nat BY DEF ReportInv, StackOK, Top
<1>2. ASSUME NEW i \in 1..Top PROVE Reported(crashes[i])'
  <2>1. CASE i = Top BY <2>1 DEF Handler
  <2>2. CASE i \in 1..Top - 1
    BY <2>2 DEF ReportInv, Reported, Parts
  <2> QED BY <1>1, <2>1, <2>2
<1>3. ASSUME NEW i \in 1..Top - 1, crashes'[i + 1].kind = "panic"
      PROVE  crashes'[i].kind = "panic" /\ crashes'[i].pc = "grid"
  <2>1. crashes[i + 1].kind = "panic"
    <3>1. CASE i + 1 = Top BY <1>3, <3>1 DEF Handler
    <3>2. CASE i + 1 \in 1..Top - 1 BY <1>3, <3>2
    <3> QED BY <1>1, <3>1, <3>2
  <2> QED BY <2>1 DEF ReportInv
<1>4. \A i \in 1..Top' - 1 :
        crashes'[i + 1].kind = "panic" =>
          crashes'[i].kind = "panic" /\ crashes'[i].pc = "grid"
  BY <1>3
<1>5. \A i \in 1..Top' : Reported(crashes[i])' BY <1>2
<1> QED BY <1>4, <1>5 DEF ReportInv, StackOK

LEMMA Stacked ==
  ASSUME ReportInv, NEW k \in {"dump", "panic"},
         NEW pc \in DumpPcs \cup PanicPcs, Raise(k, pc),
         k = "panic" => pc = "tell" /\ (Top = 0 \/ At("panic", "grid")),
         k = "dump" => pc # "halt"
  PROVE  ReportInv'
<1>1. StackOK /\ Top \in Nat BY DEF ReportInv, StackOK, Top
<1>2. /\ crashes' \in Seq(Frame) /\ Top' = Top + 1
      /\ \A i \in 1..Top : crashes'[i] = crashes[i]
      /\ Handler'.kind = k /\ Handler'.pc = pc /\ Handler'.told = 0
  BY <1>1, Raises
<1>3. UNCHANGED <<arch, holder>> BY DEF Raise
<1>4. crashes'[Top + 1] = Handler' BY <1>2 DEF Handler
<1>5. ASSUME NEW i \in 1..Top + 1 PROVE Reported(crashes[i])'
  <2>1. CASE i = Top + 1
    BY <1>2, <1>3, <1>4, <2>1, PartsPositive DEF Reported, Parts
  <2>2. CASE i \in 1..Top BY <1>2, <1>3, <2>2 DEF ReportInv, Reported, Parts
  <2> QED BY <1>1, <2>1, <2>2
<1>6. ASSUME NEW i \in 1..Top, crashes'[i + 1].kind = "panic"
      PROVE  crashes'[i].kind = "panic" /\ crashes'[i].pc = "grid"
  <2>1. CASE i = Top
    <3>1. k = "panic" BY <1>2, <1>4, <1>6, <2>1
    <3> QED BY <1>2, <2>1, <3>1 DEF At, Handler
  <2>2. CASE i \in 1..Top - 1
    BY <1>1, <1>2, <1>6, <2>2 DEF ReportInv
  <2> QED BY <1>1, <2>1, <2>2
<1>7. Top' - 1 = Top BY <1>1, <1>2
<1> QED BY <1>1, <1>2, <1>3, <1>5, <1>6, <1>7 DEF ReportInv, StackOK

(* The holders after a step of the running frame. *)
LEMMA HolderKept ==
  ASSUME StackOK, NEW l, Take(l) \/ Drop(l) \/ UNCHANGED holder
  PROVE  holder' \in [Locks -> Int]
BY DEF StackOK, Take, Drop, Free, Top

LEMMA ReportStep == ReportInv /\ [Next]_vars => ReportInv'
<1> SUFFICES ASSUME ReportInv, [Next]_vars PROVE ReportInv'
  OBVIOUS
<1> USE DEF ReportInv
<1>1. Top \in Nat BY DEF StackOK, Top
<1>2. ASSUME UNCHANGED <<arch, crashes>>, holder' \in [Locks -> Int]
      PROVE  ReportInv'
  BY <1>2 DEF StackOK, Top, Reported, Parts
<1>3. ASSUME NEW pc \in DumpPcs \cup PanicPcs, Top > 0, Goto(pc),
             UNCHANGED arch, holder' \in [Locks -> Int],
             (pc = "halt") => Handler.kind = "panic",
             Handler.pc # "tell", Handler.pc # "halt", pc # "tell"
      PROVE  ReportInv'
  <2>1. Reported(Handler) BY <1>1, <1>3 DEF Handler
  <2>2. /\ crashes' \in Seq(Frame) /\ Top' = Top
        /\ \A i \in 1..Top - 1 : crashes'[i] = crashes[i]
        /\ Handler'.kind = Handler.kind /\ Handler'.pc = pc
        /\ Handler'.told = Handler.told
    BY <1>3, Moves
  <2>3. Reported(Handler)' BY <1>3, <2>1, <2>2 DEF Reported, Parts
  <2> QED BY <1>3, <2>2, <2>3, TopMoved
<1>4. CASE InitFramebuffer \/ \E a \in DOMAIN Script : Begin(a)
  BY <1>2, <1>4 DEF InitFramebuffer, Begin, StackOK
<1>5. CASE ThreadLock \/ ThreadDrop \/ ThreadWork
  BY <1>2, <1>5, HolderKept DEF ThreadLock, ThreadDrop, ThreadWork
<1>6. CASE Panic
  BY <1>6, Stacked DEF Panic, Running, Top, PanicPcs
<1>7. CASE Exception
  BY <1>7, Stacked DEF Exception, DumpPcs
<1>8. CASE PanicInPanic
  BY <1>8, Stacked DEF PanicInPanic, PanicPcs
<1>9. CASE DumpRaw \/ DumpSends
  <2>1. Top > 0 /\ Handler.kind = "dump" /\ Handler.pc \in {"try", "send"}
    BY <1>9 DEF DumpRaw, DumpSends, At
  <2>2. NextPart \in DumpPcs /\ Tells(NextPart) /\ UNCHANGED arch
    BY <1>9 DEF DumpRaw, DumpSends, NextPart, DumpPcs
  <2>3. holder' \in [Locks -> Int]
    BY <1>9, HolderKept DEF DumpRaw, DumpSends
  <2>4. Reported(Handler) /\ Handler \in Frame
    BY <1>1, <2>1 DEF Handler, StackOK, Top
  <2>5. /\ crashes' \in Seq(Frame) /\ Top' = Top
        /\ \A i \in 1..Top - 1 : crashes'[i] = crashes[i]
        /\ Handler'.kind = Handler.kind /\ Handler'.pc = NextPart
        /\ Handler'.told = Handler.told + 1
    BY <2>1, <2>2, Tellings
  <2>6. Reported(Handler)'
    BY <2>1, <2>2, <2>4, <2>5, PartsPositive
       DEF Reported, Parts, NextPart, Frame
  <2> QED BY <2>1, <2>2, <2>3, <2>5, <2>6, TopMoved
<1>10. CASE PanicTells
  <2>1. /\ Top > 0 /\ Handler.kind = "panic" /\ Handler.pc = "tell"
        /\ "console" \in PanicPcs /\ Tells("console")
        /\ UNCHANGED <<arch, holder>>
    BY <1>10 DEF PanicTells, At, PanicPcs
  <2>2. Reported(Handler) BY <1>1, <2>1 DEF Handler
  <2>3. /\ crashes' \in Seq(Frame) /\ Top' = Top
        /\ \A i \in 1..Top - 1 : crashes'[i] = crashes[i]
        /\ Handler'.kind = Handler.kind /\ Handler'.pc = "console"
        /\ Handler'.told = Handler.told + 1
    BY <2>1, Tellings
  <2>4. Reported(Handler)' BY <2>1, <2>2, <2>3 DEF Reported
  <2>5. holder' \in [Locks -> Int] BY <2>1 DEF StackOK
  <2> QED BY <2>1, <2>3, <2>4, <2>5, TopMoved
<1>11. CASE DumpTakesSerial
  BY <1>3, <1>11, HolderKept DEF DumpTakesSerial, At, DumpPcs
<1>12. CASE PanicTriesConsole
  BY <1>3, <1>12, HolderKept DEF PanicTriesConsole, At, PanicPcs
<1>13. CASE PanicTriesSize
  BY <1>3, <1>13, HolderKept DEF PanicTriesSize, At, PanicPcs
<1>14. CASE PanicMeasures \/ PanicSetsGeometry \/ PanicGrid \/ PanicReleases
  BY <1>3, <1>14, HolderKept
     DEF PanicMeasures, PanicSetsGeometry, PanicGrid, PanicReleases, At,
         PanicPcs
<1>15. CASE PanicTriesFramebuffer
  BY <1>3, <1>15, HolderKept DEF PanicTriesFramebuffer, At, PanicPcs
<1>16. CASE PanicFills \/ PanicRenders \/ PanicUnlocks
  BY <1>3, <1>16, HolderKept
     DEF PanicFills, PanicRenders, PanicUnlocks, At, PanicPcs
<1>17. CASE PanicTriesConsoleAgain
  BY <1>3, <1>17, HolderKept DEF PanicTriesConsoleAgain, At, PanicPcs
<1>18. CASE UNCHANGED vars
  BY <1>2, <1>18 DEF vars, StackOK
<1> QED BY <1>4, <1>5, <1>6, <1>7, <1>8, <1>9, <1>10, <1>11, <1>12, <1>13,
           <1>14, <1>15, <1>16, <1>17, <1>18 DEF Next, HandlerStep

(* When the CPU stops, the report is on the wire, and so is that of a      *)
(* panic whose crash screen panicked: for any number of handlers, and any  *)
(* length of the dump (exception_common, panic).                           *)
THEOREM ReportsGoOut == Spec => []ReportOnWire
<1>1. ReportInv => ReportOnWire
  <2> SUFFICES ASSUME ReportInv, Halted PROVE ReportOnWire
    BY DEF ReportOnWire
  <2>1. Top \in Nat \ {0} /\ Reported(Handler)
    BY DEF ReportInv, StackOK, Halted, Handler, Top
  <2>2. Handler \in Frame /\ Handler.kind \in {"dump", "panic"}
    <3>1. Handler \in Frame BY <2>1 DEF ReportInv, StackOK, Handler, Top
    <3> QED BY <3>1 DEF Frame
  <2>3. Handler.told = Parts(Handler.kind)
    BY <2>1, <2>2 DEF Halted, Reported, Parts
  <2>4. ASSUME NEW i \in 1..Top - 1, crashes[i + 1].kind = "panic"
        PROVE  crashes[i].told = Parts(crashes[i].kind)
    BY <2>1, <2>4 DEF ReportInv, Reported, Parts
  <2> QED BY <2>3, <2>4 DEF ReportOnWire
<1> QED BY ReportStart, ReportStep, <1>1, PTL DEF Spec
-----------------------------------------------------------------------------
(* The panel.  What the running frame, a panic, has and what it has done. *)
Usable == IsFree("FRAMEBUFFER") /\ surface = "fits"
Unsized == geometry = "none" => surface = "none" \/ ~IsFree("FRAMEBUFFER")

PanelAt(pc) ==
  LET ready == Handler.paintable IN
  /\ pc \in {"tell", "console"} /\ ready => IsFree("CONSOLE") /\ Usable
  /\ pc = "size" /\ ready => Usable
  /\ pc = "measure" /\ ready => surface = "fits"
  /\ pc = "set_geometry" /\ ready => Usable
  /\ pc \in {"grid", "release", "paint"} =>
       Unsized /\ (ready => Usable /\ geometry = "fits")
  /\ pc \in {"release", "paint", "fill", "again", "render"} /\ ready => text = Top
  /\ pc \in {"paint", "fill", "again"} => IsFree("CONSOLE")
  /\ pc \in {"fill", "again", "render"} => geometry # "none"
  /\ pc \in {"unlock", "halt"} /\ ready => screen = <<"text", Top>>
  /\ pc \notin {"again", "render"} => screen # <<"red", Top>>

PanelInv ==
  /\ StackOK
  /\ surface \in {"none", "fits", "large"}
  /\ geometry \in {"none", surface}
  /\ text \in 0..Top
  /\ screen \in {"console", "red", "text"} \X (0..Top)
  /\ Top > 0 /\ Handler.kind = "panic" => PanelAt(Handler.pc)

LEMMA PanelStart == Init => PanelInv
BY CrashAssumption DEF Init, PanelInv, StackOK, Top, Free, Thread

(* A step of the running panic, from one place to the next. *)
LEMMA PanelStep == PanelInv /\ [Next]_vars => PanelInv'
<1> SUFFICES ASSUME PanelInv, [Next]_vars PROVE PanelInv'
  OBVIOUS
<1> USE DEF PanelInv
<1>1. Top \in Nat BY DEF StackOK, Top
<1>2. ASSUME UNCHANGED <<arch, crashes, text, screen>>, Top = 0,
             holder' \in [Locks -> Int],
             surface' \in {"none", "fits", "large"},
             geometry' \in {"none", surface'}
      PROVE  PanelInv'
  BY <1>2 DEF StackOK, Top
<1>3. ASSUME NEW k \in {"dump", "panic"}, NEW pc \in DumpPcs \cup PanicPcs,
             Raise(k, pc), k = "panic" => pc = "tell"
      PROVE  PanelInv'
  <2>1. /\ crashes' \in Seq(Frame) /\ Top' = Top + 1
        /\ Handler'.kind = k /\ Handler'.pc = pc
        /\ Handler'.paintable = (/\ IsFree("CONSOLE") /\ IsFree("FRAMEBUFFER")
                                 /\ surface = "fits")
    BY <1>3, Raises
  <2>2. UNCHANGED <<arch, surface, geometry, holder, text, screen>>
    BY <1>3 DEF Raise
  <2>3. screen[2] \in 0..Top /\ screen[2] # Top + 1 BY <1>1
  <2>4. k = "panic" => PanelAt("tell")'
    BY <2>1, <2>2, <2>3 DEF PanelAt, Usable, IsFree
  <2>5. text' \in 0..Top' /\ screen' \in {"console", "red", "text"} \X (0..Top')
    BY <1>1, <2>1, <2>2
  <2> QED BY <1>3, <2>1, <2>2, <2>4, <2>5 DEF StackOK
<1>4. ASSUME NEW pc \in DumpPcs \cup PanicPcs, Top > 0,
             Goto(pc) \/ Tells(pc), UNCHANGED <<arch, surface>>,
             holder' \in [Locks -> Int], geometry' \in {"none", surface},
             text' \in 0..Top, screen' \in {"console", "red", "text"} \X (0..Top),
             Handler.kind = "panic" /\ Top' = Top
               /\ Handler'.paintable = Handler.paintable => PanelAt(pc)'
      PROVE  PanelInv'
  <2>1. /\ crashes' \in Seq(Frame) /\ Top' = Top
        /\ Handler'.kind = Handler.kind /\ Handler'.pc = pc
        /\ Handler'.paintable = Handler.paintable
    BY <1>4, Moves, Tellings
  <2> QED BY <1>4, <2>1 DEF StackOK
<1>5. CASE InitFramebuffer \/ (\E a \in DOMAIN Script : Begin(a))
             \/ ThreadLock \/ ThreadDrop \/ ThreadWork
  BY <1>2, <1>5, HolderKept
     DEF InitFramebuffer, Begin, ThreadLock, ThreadDrop, ThreadWork, Running,
         Top, StackOK
<1>6. CASE Panic \/ PanicInPanic
  BY <1>3, <1>6 DEF Panic, PanicInPanic, PanicPcs
<1>7. CASE Exception
  BY <1>3, <1>7 DEF Exception, DumpPcs
<1>8. CASE DumpRaw \/ DumpSends \/ DumpTakesSerial
  <2>1. Top > 0 /\ Handler.kind = "dump"
    BY <1>8 DEF DumpRaw, DumpSends, DumpTakesSerial, At
  <2>2. PICK pc \in DumpPcs : Goto(pc) \/ Tells(pc)
    BY <1>8 DEF DumpRaw, DumpSends, DumpTakesSerial, NextPart, DumpPcs
  <2>3. /\ UNCHANGED <<arch, surface, geometry, text, screen>>
        /\ holder' \in [Locks -> Int]
    BY SMTT(60), <1>8, HolderKept DEF DumpRaw, DumpSends, DumpTakesSerial
  <2> QED BY <1>4, <2>1, <2>2, <2>3
<1>9. CASE HandlerStep /\ ~(DumpRaw \/ DumpSends \/ DumpTakesSerial)
             /\ ~PanicInPanic
  <2> DEFINE Same == Top' = Top /\ Handler'.paintable = Handler.paintable
  <2> SUFFICES ASSUME Top > 0, Handler.kind = "panic", PanelAt(Handler.pc)
               PROVE  PanelInv'
    BY <1>9
       DEF HandlerStep, PanicTells, PanicTriesConsole, PanicTriesSize,
           PanicMeasures, PanicSetsGeometry, PanicGrid, PanicReleases,
           PanicTriesFramebuffer, PanicFills, PanicTriesConsoleAgain,
           PanicRenders, PanicUnlocks, At
  <2> USE DEF At, PanelAt, Usable, Unsized, IsFree, PanicPcs, Locks, Free,
              StackOK, Take, Drop
  <2>1. CASE PanicTells
    BY <1>4, <2>1 DEF PanicTells
  <2>2. CASE PanicTriesConsole
    BY ZenonT(60), <1>4, <2>2, HolderKept DEF PanicTriesConsole
  <2>3. CASE PanicTriesSize
    BY ZenonT(60), <1>4, <2>3, HolderKept DEF PanicTriesSize
  <2>4. CASE PanicMeasures
    BY <1>4, <2>4, HolderKept DEF PanicMeasures
  <2>5. CASE PanicSetsGeometry
    BY <1>4, <2>5 DEF PanicSetsGeometry
  <2>6. CASE PanicGrid
    BY SMTT(60), <1>1, <1>4, <2>6 DEF PanicGrid
  <2>7. CASE PanicReleases
    BY ZenonT(60), <1>4, <2>7, HolderKept DEF PanicReleases
  <2>8. CASE PanicTriesFramebuffer
    BY <1>4, <2>8, HolderKept DEF PanicTriesFramebuffer
  <2>9. CASE PanicFills
    BY SMTT(60), <1>1, <1>4, <2>9 DEF PanicFills
  <2>10. CASE PanicTriesConsoleAgain
    BY <1>4, <2>10, HolderKept DEF PanicTriesConsoleAgain
  <2>11. CASE PanicRenders
    BY <1>1, <1>4, <2>11, HolderKept DEF PanicRenders
  <2>12. CASE PanicUnlocks
    BY ZenonT(60), <1>4, <2>12, HolderKept DEF PanicUnlocks
  <2> QED BY <1>9, <2>1, <2>2, <2>3, <2>4, <2>5, <2>6, <2>7, <2>8, <2>9,
             <2>10, <2>11, <2>12 DEF HandlerStep
<1>10. CASE UNCHANGED vars
  BY <1>10 DEF vars, StackOK, Top, Handler, PanelAt, Usable, Unsized, IsFree
<1> QED BY <1>5, <1>6, <1>7, <1>8, <1>9, <1>10 DEF Next, HandlerStep

(* A panic that stops the CPU leaves the screen as it was or paints its    *)
(* own text, never half of it (render_panic, panic_grid).                  *)
THEOREM PanelsAreWhole == Spec => []PanelWhole
<1>1. PanelInv => PanelWhole
  BY DEF PanelInv, PanelWhole, PanelAt, Halted
<1> QED BY PanelStart, PanelStep, <1>1, PTL DEF Spec
-----------------------------------------------------------------------------
(* The thread.  A script is balanced when it takes no lock it holds, drops *)
(* only what it holds, and holds nothing in the end.                       *)
Works == {"put", "send", "render", "heap", "geometry", "draw", "pixels"}
Ops == {"lock", "drop", "work"} \X (Locks \cup Works)

(* h[i] is what is held before the i-th operation of s. *)
Balance(s, h, B) ==
  /\ h \in [1..Len(s) + 1 -> SUBSET B]
  /\ h[1] = {} /\ h[Len(s) + 1] = {}
  /\ \A i \in 1..Len(s) :
       \/ s[i][1] = "lock" /\ s[i][2] \notin h[i] /\ h[i + 1] = h[i] \cup {s[i][2]}
       \/ s[i][1] = "drop" /\ s[i][2] \in h[i] /\ h[i + 1] = h[i] \ {s[i][2]}
       \/ s[i][1] = "work" /\ h[i + 1] = h[i]

Balanced(s, B) == s \in Seq(Ops) /\ \E h : Balance(s, h, B)

LEMMA WorkBalanced == ASSUME NEW w \in Works PROVE Balanced(Work(w), {})
<1> DEFINE s == Work(w)  h == [i \in 1..2 |-> {}]
<1>1. s \in Seq(Ops) /\ Len(s) = 1 /\ s[1] = <<"work", w>> BY DEF Work, Ops
<1>2. Balance(s, h, {}) BY <1>1 DEF Balance
<1> QED BY <1>1, <1>2 DEF Balanced

LEMMA Larger ==
  ASSUME NEW s, NEW B, NEW C, B \subseteq C, Balanced(s, B) PROVE Balanced(s, C)
BY DEF Balanced, Balance

LEMMA CatBalanced ==
  ASSUME NEW s, NEW t, NEW B, Balanced(s, B), Balanced(t, B)
  PROVE  Balanced(s \o t, B)
<1>1. s \in Seq(Ops) /\ t \in Seq(Ops) BY DEF Balanced
<1>2. PICK g : Balance(s, g, B) BY DEF Balanced
<1>3. PICK k : Balance(t, k, B) BY DEF Balanced
<1> DEFINE m == Len(s)  n == Len(t)  st == s \o t
           h == [i \in 1..m + n + 1 |-> IF i <= m THEN g[i] ELSE k[i - m]]
<1>4. /\ m \in Nat /\ n \in Nat
      /\ st \in Seq(Ops) /\ Len(st) = m + n
      /\ \A i \in 1..m : st[i] = s[i]
      /\ \A i \in m + 1..m + n : st[i] = t[i - m]
  BY <1>1
<1>5. h \in [1..Len(st) + 1 -> SUBSET B]
  BY <1>2, <1>3, <1>4 DEF Balance
<1>6. h[1] = {} /\ h[Len(st) + 1] = {}
  BY <1>2, <1>3, <1>4 DEF Balance
<1>7. ASSUME NEW i \in 1..m PROVE h[i] = g[i] /\ h[i + 1] = g[i + 1]
  <2>1. h[m + 1] = k[1] /\ k[1] = {} /\ g[m + 1] = {}
    BY <1>2, <1>3, <1>4 DEF Balance
  <2>2. h[i] = g[i] /\ (i < m => h[i + 1] = g[i + 1]) BY <1>4
  <2>3. i = m \/ i < m BY <1>4
  <2> QED BY <2>1, <2>2, <2>3
<1>8. ASSUME NEW i \in m + 1..m + n
      PROVE  i - m \in 1..n /\ h[i] = k[i - m] /\ h[i + 1] = k[(i - m) + 1]
  BY <1>4
<1> HIDE DEF h, st, m, n
<1>9. ASSUME NEW i \in 1..Len(st)
      PROVE  \/ st[i][1] = "lock" /\ st[i][2] \notin h[i] /\ h[i + 1] = h[i] \cup {st[i][2]}
             \/ st[i][1] = "drop" /\ st[i][2] \in h[i] /\ h[i + 1] = h[i] \ {st[i][2]}
             \/ st[i][1] = "work" /\ h[i + 1] = h[i]
  <2>1. CASE i \in 1..m
    BY SMTT(60), <1>2, <1>4, <1>7, <2>1 DEF Balance, m
  <2>2. CASE i \in m + 1..m + n
    BY SMTT(60), <1>3, <1>4, <1>8, <2>2 DEF Balance, n
  <2>3. i \in 1..m \/ i \in m + 1..m + n BY <1>4
  <2> QED BY <2>1, <2>2, <2>3
<1>10. Balance(st, h, B) BY <1>5, <1>6, <1>9 DEF Balance
<1> QED BY <1>4, <1>10 DEF Balanced, st

LEMMA WithBalanced ==
  ASSUME NEW l \in Locks, NEW s, NEW B, Balanced(s, B), l \notin B
  PROVE  Balanced(With(l, s), B \cup {l})
<1>1. s \in Seq(Ops) BY DEF Balanced
<1>2. PICK g : Balance(s, g, B) BY DEF Balanced
<1> DEFINE n == Len(s)  w == With(l, s)
           h == [i \in 1..n + 3 |-> IF i = 1 \/ i = n + 3 THEN {}
                                    ELSE g[i - 1] \cup {l}]
<1>3. /\ <<"lock", l>> \in Ops /\ <<"drop", l>> \in Ops
      /\ <<<<"lock", l>>>> \in Seq(Ops) /\ <<<<"drop", l>>>> \in Seq(Ops)
  BY DEF Ops
<1>4. /\ n \in Nat
      /\ w \in Seq(Ops) /\ Len(w) = n + 2
      /\ w[1] = <<"lock", l>> /\ w[n + 2] = <<"drop", l>>
      /\ \A i \in 2..n + 1 : w[i] = s[i - 1]
  BY <1>1, <1>3 DEF With
<1>5. h \in [1..Len(w) + 1 -> SUBSET (B \cup {l})]
  BY <1>2, <1>4 DEF Balance
<1>6. h[1] = {} /\ h[Len(w) + 1] = {} /\ h[2] = {l} /\ h[n + 2] = {l}
  BY <1>2, <1>4 DEF Balance
<1>7. ASSUME NEW i \in 2..n + 1
      PROVE  /\ i - 1 \in 1..n
             /\ h[i] = g[i - 1] \cup {l} /\ h[i + 1] = g[(i - 1) + 1] \cup {l}
  BY <1>4
<1>8. \A i \in 1..n : l \notin g[i] /\ l \notin g[i + 1]
  BY SMTT(60), <1>2 DEF Balance
<1> HIDE DEF h, w, n
<1>9. ASSUME NEW i \in 1..Len(w)
      PROVE  \/ w[i][1] = "lock" /\ w[i][2] \notin h[i] /\ h[i + 1] = h[i] \cup {w[i][2]}
             \/ w[i][1] = "drop" /\ w[i][2] \in h[i] /\ h[i + 1] = h[i] \ {w[i][2]}
             \/ w[i][1] = "work" /\ h[i + 1] = h[i]
  <2>1. CASE i = 1 BY <1>4, <1>6, <2>1
  <2>2. CASE i = n + 2
    <3>1. h[i] = {l} /\ h[i + 1] = {} /\ w[i] = <<"drop", l>> BY <1>4, <1>6, <2>2
    <3> QED BY <3>1
  <2>3. CASE i \in 2..n + 1
    <3>1. PICK j \in 1..n : j = i - 1 BY <1>7, <2>3
    <3>2. h[i] = g[j] \cup {l} /\ h[i + 1] = g[j + 1] \cup {l} /\ w[i] = s[j]
      BY <1>4, <1>7, <2>3, <3>1
    <3>3. l \notin g[j] /\ l \notin g[j + 1] BY <1>8
    <3>4. \/ s[j][1] = "lock" /\ s[j][2] \notin g[j] /\ g[j + 1] = g[j] \cup {s[j][2]}
          \/ s[j][1] = "drop" /\ s[j][2] \in g[j] /\ g[j + 1] = g[j] \ {s[j][2]}
          \/ s[j][1] = "work" /\ g[j + 1] = g[j]
      BY <1>2 DEF Balance, n
    <3> QED BY <3>2, <3>3, <3>4
  <2>4. i = 1 \/ i = n + 2 \/ i \in 2..n + 1 BY <1>4
  <2> QED BY <2>1, <2>2, <2>3, <2>4
<1>10. Balance(w, h, B \cup {l}) BY <1>5, <1>6, <1>9 DEF Balance
<1> QED BY <1>4, <1>10 DEF Balanced, w
(* Every activity of the thread nests its locks. *)
LEMMA ScriptsBalanced ==
  \A a \in DOMAIN Script : Balanced(Script[a], Locks)
<1> DEFINE C == {"CONSOLE"}  F == {"FRAMEBUFFER"}  S == {"SERIAL"}
           H == {"HEAP"}
<1>1. ASSUME NEW w \in Works, NEW B PROVE Balanced(Work(w), B)
  BY WorkBalanced, Larger
<1>2. ASSUME NEW l \in Locks, NEW w \in Works
      PROVE  Balanced(With(l, Work(w)), {l})
  <2>1. Balanced(With(l, Work(w)), {} \cup {l}) BY WorkBalanced, WithBalanced
  <2> QED BY <2>1, Larger
<1>3. Balanced(Render, F) /\ Balanced(Send, S) /\ Balanced(OnHeap, H)
  BY <1>2 DEF Render, Send, OnHeap, Works, Locks
<1>4. ASSUME NEW l \in Locks, NEW s, NEW B, Balanced(s, B), l \notin B,
             B \subseteq Locks
      PROVE  Balanced(With(l, s), Locks)
  <2>1. Balanced(With(l, s), B \cup {l}) BY <1>4, WithBalanced
  <2> QED BY <1>4, <2>1, Larger
<1>5. Balanced(Work("put") \o Send, S) BY <1>1, <1>3, CatBalanced DEF Works
<1>6. Balanced(Work("put") \o Render, F) BY <1>1, <1>3, CatBalanced DEF Works
<1>7. Balanced(Work("put") \o Send \o Render, S \cup F)
  <2>1. Balanced(Work("put") \o Send, S \cup F) BY <1>5, Larger
  <2>2. Balanced(Render, S \cup F) BY <1>3, Larger
  <2> QED BY <2>1, <2>2, CatBalanced
<1>8. Balanced(Work("put") \o Render \o Send, S \cup F)
  <2>1. Balanced(Work("put") \o Render, S \cup F) BY <1>6, Larger
  <2>2. Balanced(Send, S \cup F) BY <1>3, Larger
  <2> QED BY <2>1, <2>2, CatBalanced
<1>9. Balanced(OnHeap \o Work("pixels")
                 \o With("FRAMEBUFFER", Work("draw")), H \cup F)
  <2>1. Balanced(OnHeap, H \cup F) BY <1>3, Larger
  <2>2. Balanced(Work("pixels"), H \cup F) BY <1>1 DEF Works
  <2>3. Balanced(With("FRAMEBUFFER", Work("draw")), F)
    BY <1>2 DEF Works, Locks
  <2>4. Balanced(With("FRAMEBUFFER", Work("draw")), H \cup F)
    BY <2>3, Larger
  <2>5. Balanced(OnHeap \o Work("pixels"), H \cup F)
    BY <2>1, <2>2, CatBalanced
  <2> QED BY <2>4, <2>5, CatBalanced
<1> HIDE DEF C, F, S, H
<1>10. /\ Balanced(PrintText, Locks) /\ Balanced(PrintLine, Locks)
       /\ Balanced(Prompt, Locks) /\ Balanced(EditLine, Locks)
       /\ Balanced(RenderNow, Locks) /\ Balanced(SetWindow, Locks)
       /\ Balanced(RenderAndBlit, Locks)
  BY <1>3, <1>4, <1>5, <1>6, <1>7, <1>8, <1>9
     DEF PrintText, PrintLine, Prompt, EditLine, RenderNow, SetWindow,
         RenderAndBlit, Locks, F, S, H
<1>11. /\ Balanced(Send, Locks) /\ Balanced(OnHeap, Locks)
       /\ Balanced(SetGeometry, Locks) /\ Balanced(Redraw, Locks)
  BY <1>2, <1>3, Larger
     DEF SetGeometry, Redraw, Locks, Works, S, H
<1> QED BY <1>10, <1>11 DEF Script
-----------------------------------------------------------------------------
(* Until a handler runs, what is taken is what the thread's script says is *)
(* held where the thread stands.                                           *)
Taken == {l \in Locks : ~IsFree(l)}

ThreadHolds ==
  IF Busy
  THEN /\ thread.act \in DOMAIN Script
       /\ thread.pc \in 1..Len(Script[thread.act])
       /\ \E h : Balance(Script[thread.act], h, Locks) /\ Taken = h[thread.pc]
  ELSE Taken = {}

Threads == [act : DOMAIN Script \cup {"idle"}, pc : Nat]

WedgeInv ==
  /\ StackOK
  /\ thread \in Threads
  /\ Running => ThreadHolds
  /\ At("dump", "lock") => arch = "aarch64"

LEMMA IdleIsNoScript == "idle" \notin DOMAIN Script
BY DEF Script

LEMMA WedgeStart == Init => WedgeInv
<1> SUFFICES ASSUME Init PROVE WedgeInv
  OBVIOUS
<1>1. StackOK BY CrashAssumption DEF Init, StackOK, Free
<1>2. thread \in Threads /\ ~Busy BY DEF Init, Idle, Threads, Busy
<1>3. Taken = {} BY DEF Init, Taken, IsFree
<1>4. ~At("dump", "lock") BY DEF Init, At, Top
<1> QED BY <1>1, <1>2, <1>3, <1>4 DEF WedgeInv, ThreadHolds

LEMMA ThreadMoves ==
  ASSUME WedgeInv, Running, Busy, NEW l, Op[2] = l,
         \/ Op[1] = "lock" /\ Take(l)
         \/ Op[1] = "drop" /\ Drop(l)
         \/ Op[1] = "work" /\ UNCHANGED holder,
         Advance, UNCHANGED <<arch, crashes>>
  PROVE  WedgeInv'
<1> DEFINE s == Script[thread.act]  pc == thread.pc
<1>1. PICK h : Balance(s, h, Locks) /\ Taken = h[pc]
  BY DEF WedgeInv, ThreadHolds
<1>2. s \in Seq(Ops) /\ pc \in 1..Len(s) /\ Len(s) \in Nat
  BY ScriptsBalanced DEF WedgeInv, ThreadHolds, Balanced
<1>3. \/ s[pc][1] = "lock" /\ s[pc][2] \notin h[pc]
           /\ h[pc + 1] = h[pc] \cup {s[pc][2]}
      \/ s[pc][1] = "drop" /\ s[pc][2] \in h[pc]
           /\ h[pc + 1] = h[pc] \ {s[pc][2]}
      \/ s[pc][1] = "work" /\ h[pc + 1] = h[pc]
  BY <1>1, <1>2 DEF Balance
<1>4. Taken' = h[pc + 1]
  <2>1. h[pc + 1] \in SUBSET Locks BY <1>1, <1>2 DEF Balance
  <2>2. holder \in [Locks -> Int] /\ Top = 0
    BY DEF WedgeInv, StackOK, Running, Top
  <2>3. s[pc][1] = Op[1] /\ s[pc][2] = l BY DEF Op
  <2> QED BY <1>1, <1>3, <2>1, <2>2, <2>3
       DEF Taken, IsFree, Take, Drop, Free
<1>5. StackOK'
  BY HolderKept DEF WedgeInv, StackOK
<1>6. CASE pc = Len(s)
  <2>1. thread' = Idle BY <1>6 DEF Advance
  <2>2. h[pc + 1] = {} BY <1>1, <1>6 DEF Balance
  <2>3. thread' \in Threads /\ ~Busy' BY <2>1 DEF Idle, Threads, Busy
  <2>4. ThreadHolds' BY <1>4, <2>2, <2>3 DEF ThreadHolds
  <2> QED BY <1>5, <2>3, <2>4 DEF WedgeInv, At, Handler, Top
<1>7. CASE pc # Len(s)
  <2>1. thread' = [thread EXCEPT !.pc = pc + 1] BY <1>7 DEF Advance
  <2>2. /\ thread'.act = thread.act /\ thread'.pc = pc + 1
        /\ thread' \in Threads
    BY <1>2, <2>1 DEF WedgeInv, Threads
  <2>3. pc + 1 \in 1..Len(s) BY <1>2, <1>7
  <2>4. ThreadHolds'
    BY <1>1, <1>4, <2>2, <2>3 DEF WedgeInv, ThreadHolds, Busy
  <2> QED BY <1>5, <2>2, <2>4 DEF WedgeInv, At, Handler, Top
<1> QED BY <1>6, <1>7

LEMMA WedgeStep == WedgeInv /\ [Next]_vars => WedgeInv'
<1> SUFFICES ASSUME WedgeInv, [Next]_vars PROVE WedgeInv'
  OBVIOUS
<1>1. StackOK /\ Top \in Nat BY DEF WedgeInv, StackOK, Top
<1>2. ASSUME NEW pc \in (DumpPcs \cup PanicPcs) \ {"lock"}, Top > 0,
             Goto(pc) \/ Tells(pc), UNCHANGED <<arch, thread>>,
             holder' \in [Locks -> Int]
      PROVE  WedgeInv'
  <2>1. crashes' \in Seq(Frame) /\ Top' = Top /\ Handler'.pc = pc
    BY <1>1, <1>2, Moves, Tellings
  <2>2. ~Running'
    BY <1>2, <2>1 DEF Running, Top
  <2> QED BY <1>1, <1>2, <2>1, <2>2 DEF WedgeInv, StackOK, At
<1>3. ASSUME NEW k \in {"dump", "panic"}, NEW pc \in DumpPcs \cup PanicPcs,
             Raise(k, pc), pc = "lock" => arch # "x86_64"
      PROVE  WedgeInv'
  <2>1. crashes' \in Seq(Frame) /\ Top' = Top + 1 /\ Handler'.pc = pc
    BY <1>1, <1>3, Raises
  <2>2. ~Running' BY <1>1, <2>1 DEF Running, Top
  <2> QED BY <1>1, <1>3, <2>1, <2>2 DEF WedgeInv, StackOK, At, Raise
<1>4. CASE InitFramebuffer
  BY <1>4 DEF InitFramebuffer, WedgeInv, StackOK, Running, ThreadHolds, Busy,
              Taken, IsFree, At, Handler, Top
<1>5. ASSUME NEW a \in DOMAIN Script, Begin(a) PROVE WedgeInv'
  <2>1. Taken = {} /\ Running
    BY <1>5 DEF Begin, WedgeInv, ThreadHolds
  <2>2. thread' = [act |-> a, pc |-> 1] /\ UNCHANGED <<arch, holder, crashes>>
    BY <1>5 DEF Begin
  <2>3. PICK h : Balance(Script[a], h, Locks) /\ Script[a] \in Seq(Ops)
    BY ScriptsBalanced DEF Balanced
  <2>4. Script[a] # <<>>
    BY DEF Script, PrintText, PrintLine, Prompt, EditLine, RenderNow,
           SetGeometry, Redraw, SetWindow, RenderAndBlit, Render, Send, OnHeap,
           With, Work
  <2>5. 1 \in 1..Len(Script[a]) BY <2>3, <2>4
  <2>6. Taken' = h[1]
    <3>1. h[1] = {} BY <2>3 DEF Balance
    <3>2. Taken' = Taken BY <2>2 DEF Taken, IsFree
    <3> QED BY <2>1, <3>1, <3>2
  <2>7. thread'.act = a /\ thread'.pc = 1 /\ thread' \in Threads
    BY <2>2 DEF Threads
  <2>8. ThreadHolds'
    BY <2>3, <2>5, <2>6, <2>7, IdleIsNoScript DEF ThreadHolds, Busy
  <2> QED BY <1>1, <2>2, <2>7, <2>8
       DEF WedgeInv, StackOK, At, Handler, Top
<1>6. CASE ThreadLock
  BY <1>6, ThreadMoves DEF ThreadLock
<1>7. CASE ThreadDrop
  BY <1>7, ThreadMoves DEF ThreadDrop
<1>8. CASE ThreadWork
  BY <1>8, ThreadMoves DEF ThreadWork
<1>9. CASE Panic \/ PanicInPanic
  BY <1>3, <1>9 DEF Panic, PanicInPanic, PanicPcs
<1>10. CASE Exception
  BY <1>3, <1>10 DEF Exception, DumpPcs
<1>11. CASE HandlerStep /\ ~PanicInPanic
  <2>1. Top > 0 /\ UNCHANGED <<arch, thread>>
    BY <1>11
       DEF HandlerStep, DumpRaw, DumpTakesSerial, DumpSends, PanicTells,
           PanicTriesConsole, PanicTriesSize, PanicMeasures,
           PanicSetsGeometry, PanicGrid, PanicReleases, PanicTriesFramebuffer,
           PanicFills, PanicTriesConsoleAgain, PanicRenders, PanicUnlocks, At
  <2>2. holder' \in [Locks -> Int]
    BY <1>1, <1>11, HolderKept
       DEF HandlerStep, DumpRaw, DumpTakesSerial, DumpSends, PanicTells,
           PanicTriesConsole, PanicTriesSize, PanicMeasures,
           PanicSetsGeometry, PanicGrid, PanicReleases, PanicTriesFramebuffer,
           PanicFills, PanicTriesConsoleAgain, PanicRenders, PanicUnlocks
  <2>3. \E pc \in (DumpPcs \cup PanicPcs) \ {"lock"} : Goto(pc) \/ Tells(pc)
    BY <1>11
       DEF HandlerStep, DumpRaw, DumpTakesSerial, DumpSends, PanicTells,
           PanicTriesConsole, PanicTriesSize, PanicMeasures,
           PanicSetsGeometry, PanicGrid, PanicReleases, PanicTriesFramebuffer,
           PanicFills, PanicTriesConsoleAgain, PanicRenders, PanicUnlocks,
           NextPart, DumpPcs, PanicPcs
  <2> QED BY <1>2, <2>1, <2>2, <2>3
<1>12. CASE UNCHANGED vars
  BY <1>12 DEF vars, WedgeInv, StackOK, Running, ThreadHolds, Busy, Taken,
               IsFree, At, Handler, Top
<1> QED BY <1>4, <1>5, <1>6, <1>7, <1>8, <1>9, <1>10, <1>11, <1>12
        DEF Next, HandlerStep

(* The kernel never waits for a lock it holds, save in aarch64's dump:     *)
(* for any stack of handlers over any activity (with_console, the nesting  *)
(* in console.rs, serial_write).                                           *)
THEOREM NobodyWaitsForItself == Spec => []NeverWedged
<1>1. WedgeInv => NeverWedged
  <2> SUFFICES ASSUME WedgeInv, NEW l \in Locks, Spins(l)
               PROVE  arch = "aarch64" /\ At("dump", "lock")
    BY DEF NeverWedged
  <2>1. CASE l = "SERIAL" /\ At("dump", "lock") BY <2>1 DEF WedgeInv
  <2>2. CASE Running /\ Busy /\ Op = <<"lock", l>>
    <3>1. PICK h : Balance(Script[thread.act], h, Locks) /\ Taken = h[thread.pc]
      BY <2>2 DEF WedgeInv, ThreadHolds
    <3>2. thread.pc \in 1..Len(Script[thread.act])
      BY <2>2 DEF WedgeInv, ThreadHolds
    <3>3. l \notin h[thread.pc]
      <4> DEFINE op == Script[thread.act][thread.pc]
      <4>1. op[1] = "lock" /\ op[2] = l BY <2>2 DEF Op
      <4> QED BY <3>1, <3>2, <4>1 DEF Balance
    <3> QED BY <3>1, <3>3 DEF Spins, Taken
  <2> QED BY <2>1, <2>2 DEF Spins
<1> QED BY WedgeStart, WedgeStep, <1>1, PTL DEF Spec
=============================================================================
