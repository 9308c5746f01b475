------------------------------ MODULE ClockApp -----------------------------
(***************************************************************************)
(* The clock window (app.rs, clock_app.rs): an arrow held down moves the   *)
(* window over the console, which is repainted where the window was.       *)
(*                                                                         *)
(* clk holds the locals of run_clock, screen what each cell of the screen  *)
(* shows.  Time is left out: whether the repeat period or a second has     *)
(* gone by since the last pass is a choice of each pass.                   *)
(***************************************************************************)
EXTENDS Scancodes, Integers

CONSTANTS ScreenW, ScreenH,     \* the framebuffer
          WIDTH, HEIGHT,        \* the window
          MOVE_STEP

ASSUME ClockAssumption == {ScreenW, ScreenH, WIDTH, HEIGHT, MOVE_STEP} \subseteq Nat \ {0}

VARIABLES clk, screen

NoDir == "none"

SubClamped(a, b) == IF a > b THEN a - b ELSE 0
Between2(v, hi) == IF v < 0 THEN 0 ELSE IF v > hi THEN hi ELSE v

MaxX == SubClamped(ScreenW, WIDTH)
MaxY == SubClamped(ScreenH, HEIGHT)
Cells == (0 .. ScreenW - 1) \X (0 .. ScreenH - 1)
Rect(o) == {p \in Cells : p[1] - o[1] \in 0 .. WIDTH - 1 /\ p[2] - o[2] \in 0 .. HEIGHT - 1}
Console == [p \in Cells |-> "console"]

(* draw, and console::repaint_rect. *)
Draw(s, o) == [p \in Cells |-> IF p \in Rect(o) THEN "window" ELSE s[p]]
RepaintRect(s, o) == [p \in Cells |-> IF p \in Rect(o) THEN "console" ELSE s[p]]
-----------------------------------------------------------------------------
(* run_clock up to its loop: place_centered, redraw. *)
Centered == <<MaxX \div 2, MaxY \div 2>>
RunClock == [origin |-> Centered, held |-> NoDir, moved |-> FALSE]

DirStep(d) == CASE d = "Up" -> <<0, -MOVE_STEP>> [] d = "Down" -> <<0, MOVE_STEP>>
                [] d = "Left" -> <<-MOVE_STEP, 0>> [] d = "Right" -> <<MOVE_STEP, 0>>

(* A bug to compare with: a release clears only what another key holds. *)
MutantClockKey(c, event) ==
  LET key == event.of.key IN
  CASE event.kind = "press" /\ key \in Arrows -> [c EXCEPT !.held = key, !.moved = FALSE]
    [] event.kind = "release" /\ key \in Arrows \ {c.held} -> [c EXCEPT !.held = NoDir]
    [] OTHER -> c

(* One event of the drain, Escape apart.  moved is last_move_ns # 0: a     *)
(* press lets the window move at once.                                     *)
ClockKey(c, event) ==
  LET key == event.of.key IN
  CASE event.kind = "press" /\ key \in Arrows -> [c EXCEPT !.held = key, !.moved = FALSE]
    [] event.kind = "release" /\ key \in Arrows -> [c EXCEPT !.held = NoDir]
    [] OTHER -> c

Translate(o, d) ==
  <<Between2(o[1] + DirStep(d)[1], MaxX), Between2(o[2] + DirStep(d)[2], MaxY)>>

(* A bug to compare with: the window is drawn before the console is        *)
(* repainted.                                                              *)
MutantMoveBy(s, old, new) == IF new = old THEN s ELSE RepaintRect(Draw(s, new), old)

(* move_by: the console first, under the old place, then the window. *)
MoveBy(s, old, new) == IF new = old THEN s ELSE Draw(RepaintRect(s, old), new)

(* The rest of a pass: a step if an arrow is held and the repeat period is *)
(* over, a redraw if the second changed.                                   *)
ClockPass(elapsed, second) ==
  LET steps == clk.held # NoDir /\ (elapsed \/ ~clk.moved)
      o == IF steps THEN Translate(clk.origin, clk.held) ELSE clk.origin
      s == MoveBy(screen, clk.origin, o)
  IN  /\ clk' = [clk EXCEPT !.origin = o, !.moved = @ \/ steps]
      /\ screen' = IF second THEN Draw(s, o) ELSE s
=============================================================================
