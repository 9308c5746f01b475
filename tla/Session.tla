------------------------------ MODULE Session ------------------------------
(***************************************************************************)
(* What a user at the machine meets: one stream of events, read by         *)
(* whatever is in front - the shell, the clock or the on-screen keyboard - *)
(* until Escape brings the shell back (the shell loop and the commands of  *)
(* console.rs).  The behaviours begin when a command has been typed and    *)
(* its Enter is on the way: the shell runs it in the middle of its drain,  *)
(* and the application finds what was pressed since, Enter's release       *)
(* first.  What else the shell does with its keys is in Console.           *)
(***************************************************************************)
EXTENDS Input, OnScreenKeyboard, ClockApp

VARIABLES front,        \* who polls the input
          launches      \* how many commands so far

CONSTANT MaxLaunches    \* bound: commands of a behaviour

vars == <<inputVars, kb, clk, screen, front, launches>>

appVars == <<kb, clk, screen, front, launches>>

Init ==
  /\ \E d \in Devices : InputInit(d, "Enter")
  /\ kb = RunKeyboard /\ clk = RunClock
  /\ screen = Console
  /\ front = "shell" /\ launches = 0
-----------------------------------------------------------------------------
(* A finished line: Command::Keyboard or Command::Clock starts its         *)
(* application afresh.                                                     *)
Enters(event) == event = Press(Control("Enter"))

Runs(application) ==
  /\ front = "shell" /\ launches < MaxLaunches
  /\ \E event \in Events : NextKey(event) /\ Enters(event)
  /\ front' = application /\ launches' = launches + 1

LaunchKeyboard ==
  /\ Runs("keyboard")
  /\ kb' = RunKeyboard
  /\ UNCHANGED <<clk, screen>>

LaunchClock ==
  /\ Runs("clock")
  /\ clk' = RunClock
  /\ screen' = Draw(screen, Centered)
  /\ UNCHANGED kb

(* A bug to compare with: the key has to come up again. *)
MutantEscapes(event) == event = Release(Control("Escape"))

Escapes(event) == event = Press(Control("Escape"))

(* Escape returns to the shell, which repaints the whole console. *)
Leave ==
  /\ front # "shell"
  /\ \E event \in Events : NextKey(event) /\ Escapes(event)
  /\ front' = "shell" /\ screen' = Console
  /\ kb' = RunKeyboard /\ clk' = RunClock
  /\ UNCHANGED launches

ShellEvent ==
  /\ front = "shell"
  /\ \E event \in Events : NextKey(event)
  /\ UNCHANGED appVars

KeyboardEvent ==
  /\ front = "keyboard"
  /\ \E event \in Events : /\ NextKey(event) /\ ~Escapes(event)
                           /\ kb' = KeyboardKey(kb, event)
  /\ UNCHANGED <<clk, screen, front, launches>>

ClockEvent ==
  /\ front = "clock"
  /\ \E event \in Events : /\ NextKey(event) /\ ~Escapes(event)
                           /\ clk' = ClockKey(clk, event)
  /\ UNCHANGED <<kb, screen, front, launches>>

(* The drain goes on inside next_key. *)
Decoding == MidEvent /\ UNCHANGED appVars

(* next_key returned None: the rest of the pass; the keyboard's window is  *)
(* the whole screen.                                                       *)
KeyboardPasses ==
  /\ front = "keyboard" /\ NoKey
  /\ kb' = KeyboardPass(kb)
  /\ screen' = [p \in Cells |-> "window"]
  /\ UNCHANGED <<clk, front, launches>>

ClockPasses ==
  /\ front = "clock" /\ NoKey
  /\ \E elapsed, second \in BOOLEAN : ClockPass(elapsed, second)
  /\ UNCHANGED <<kb, front, launches>>

ShellPasses == front = "shell" /\ NoKey /\ UNCHANGED appVars

Kernel == \/ LaunchKeyboard \/ LaunchClock
          \/ Leave \/ ShellEvent \/ KeyboardEvent \/ ClockEvent \/ Decoding
          \/ KeyboardPasses \/ ClockPasses \/ ShellPasses

(* Bound: nobody types any more when the last application is left. *)
Over == front = "shell" /\ launches = MaxLaunches

Next == \/ User /\ ~Over /\ UNCHANGED appVars
        \/ (Arrive \/ Overrun) /\ UNCHANGED appVars
        \/ Kernel

(* Every loop polls for ever, and the byte a device holds is offered until *)
(* it is taken.                                                            *)
Fairness == WF_vars(Kernel) /\ WF_vars((Arrive \/ Overrun) /\ UNCHANGED appVars)

Spec == Init /\ [][Next]_vars /\ Fairness
-----------------------------------------------------------------------------
(* Types; the highlight is on a key of the layout, whose rows are not      *)
(* equally long (keyboard.rs, move_selection).                             *)
TypeOK ==
  /\ front \in {"shell", "keyboard", "clock"}
  /\ device \in Devices /\ Len(buffer) <= Capacity
  /\ OnGrid(kb.sel[1], kb.sel[2])
  /\ kb.pending \in Printable \cup {NoTap}
  /\ clk.held \in Arrows \cup {NoDir}
  /\ clk.origin \in Cells
  /\ screen \in [Cells -> {"console", "window"}]
  /\ launches \in 0 .. MaxLaunches /\ strokes \in 0 .. MaxStrokes

(* The clock glides for a key that is down: the direction held is that of  *)
(* an arrow still down, or whose release is on the way (app.rs, run_clock).*)
HeldIsDown ==
  clk.held # NoDir /\ device = "ps2" /\ lost = NoByte =>
    \/ clk.held \in down
    \/ Release(Control(clk.held)) \in ToSet(due)

(* No afterimage: as much of the window as fits is on the screen, and      *)
(* everything else there is the console (app.rs, move_by; clock_app.rs,    *)
(* translate).                                                             *)
NoAfterimage ==
  /\ front = "clock" => /\ Rect(clk.origin) = {p \in Cells : screen[p] = "window"}
                        /\ Cardinality(Rect(clk.origin)) =
                             Between2(WIDTH, ScreenW) * Between2(HEIGHT, ScreenH)
  /\ front = "shell" => screen = Console

(* Escape is a way out: unless a byte was lost, an Escape on its way to an *)
(* application ends in the shell.                                          *)
EscapeReturns ==
  (front # "shell" /\ Press(Control("Escape")) \in ToSet(due))
    ~> (front = "shell" \/ lost # NoByte)

(* What keyboard.rs says of its modifiers (141-142): "Physical Shift holds *)
(* the same momentary state the sticky on-screen Shift toggles, so both    *)
(* paths stay in sync".  A pass leaves the shift drawn on the screen as    *)
(* the shift the decoder holds.                                            *)
ShiftInSync ==
  [][KeyboardPasses => kb'.ui.shifted = ShiftActive(decoder)]_vars
=============================================================================
