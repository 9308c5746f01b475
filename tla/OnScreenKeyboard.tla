-------------------------- MODULE OnScreenKeyboard -------------------------
(***************************************************************************)
(* The on-screen keyboard (keyboard.rs of both crates, keyboard.slint):    *)
(* physical keys type into the one text field, arrows move a highlight     *)
(* over the keys drawn, and Enter taps the highlighted key through a       *)
(* synthesized click.  The tap is kept in `pending` until the drain of     *)
(* the input ends.                                                         *)
(*                                                                         *)
(* kb holds the locals of run_keyboard, and drained, whether it is between *)
(* two passes.  Two fields are history: want, the text if each key took    *)
(* effect at once, and crowded, whether a pass had another typing key      *)
(* after a tap.                                                            *)
(***************************************************************************)
EXTENDS Scancodes, Integers, Sequences, SequencesExt

CONSTANT Layout         \* row0, row1, ...: the keys drawn, row by row

(* GRID_ROWS: no more than thirteen keys in a row, nor rows; and every key *)
(* drawn types a character.                                                *)
ASSUME LayoutAssumption ==
  /\ Layout \in Seq(Seq(Printable)) /\ Len(Layout) \in 1 .. 13
  /\ \A i \in 1 .. Len(Layout) : Len(Layout[i]) \in 1 .. 13

VARIABLE kb

NoTap == "no tap"

(* new: what is typed starts empty, nothing is highlighted but key 0 0. *)
KeyboardModel == [shifted |-> FALSE, caps |-> FALSE]
RunKeyboard == [sel |-> <<0, 0>>, pending |-> NoTap, drained |-> FALSE,
                state |-> KeyboardModel, ui |-> KeyboardModel,
                text |-> <<>>, last_text |-> <<>>, want |-> <<>>, crowded |-> FALSE]
-----------------------------------------------------------------------------
(* KeyboardModel. *)
PressShift(m) == [m EXCEPT !.shifted = TRUE]
ReleaseShift(m) == [m EXCEPT !.shifted = FALSE]
ToggleCaps(m) == [m EXCEPT !.caps = ~@]
Encode(m, k) == Char(k, Raised(k, m.shifted, m.caps))

(* state.get() of a Cell hands out a copy, and what a method changes in    *)
(* the copy is dropped with it.                                            *)
GetThenCall(m, changed) == m
-----------------------------------------------------------------------------
(* The grid: GRID_ROWS, and the geometry it shares with keyboard.slint. *)
Row(r) == Layout[r + 1]
KeyOf(sel) == Row(sel[1])[sel[2] + 1]
OnGrid(r, c) == r \in 0 .. Len(Layout) - 1 /\ c \in 0 .. Len(Row(r)) - 1

Clamp(v, hi) == IF v < 0 THEN 0 ELSE IF v > hi THEN hi ELSE v

Step(arrow) == CASE arrow = "Up" -> <<-1, 0>> [] arrow = "Down" -> <<1, 0>>
                 [] arrow = "Left" -> <<0, -1>> [] arrow = "Right" -> <<0, 1>>

MoveSelection(sel, arrow) ==
  LET r == Clamp(sel[1] + Step(arrow)[1], Len(Layout) - 1)
  IN  <<r, Clamp(sel[2] + Step(arrow)[2], Len(Row(r)) - 1)>>

KEYS_X0 == 30
KEYS_Y0 == 104
KEY_W == 38
KEY_H == 34
KEY_PITCH == 42

(* keyboard.slint: rows of keys 38 by 34, 4 apart, from 30, 104. *)
Covers(r, c, x, y) == /\ x - (30 + c * (38 + 4)) \in 0 .. 37
                      /\ y - (104 + r * 42) \in 0 .. 33

(* click_selected: the click lands on whatever key is drawn there, whose   *)
(* callback replaces what was pending.                                     *)
ClickSelected(k) ==
  LET x == KEYS_X0 + k.sel[2] * KEY_PITCH + KEY_W \div 2
      y == KEYS_Y0 + k.sel[1] * KEY_PITCH + KEY_H \div 2
      Hit == {p \in (0 .. 12) \X (0 .. 12) : OnGrid(p[1], p[2]) /\ Covers(p[1], p[2], x, y)}
  IN  IF Hit = {} THEN k ELSE [k EXCEPT !.pending = KeyOf(CHOOSE p \in Hit : TRUE)]
-----------------------------------------------------------------------------
DropLast(s) == IF s = <<>> THEN s ELSE Front(s)

(* The text field gets a character, or a backspace. *)
Typed(k, ch) == [k EXCEPT !.text = Append(@, ch), !.want = Append(@, ch),
                          !.crowded = @ \/ k.pending # NoTap]
Erased(k) == [k EXCEPT !.text = DropLast(@), !.want = DropLast(@),
                       !.crowded = @ \/ k.pending # NoTap]
Tapped(k) == [ClickSelected(k) EXCEPT !.want = Append(@, Encode(k.ui, KeyOf(k.sel))),
                                      !.crowded = @ \/ k.pending # NoTap]

Moved(k, arrow) == [k EXCEPT !.sel = MoveSelection(@, arrow)]

Modified(k, m) == [k EXCEPT !.state = GetThenCall(k.state, m)]

(* One event of the drain, Escape apart; a character passes through encode *)
(* with itself as both glyphs.                                             *)
Handled(k, event) ==
  LET key == event.of.key
      down == event.kind = "press"
  IN
  CASE down /\ key = "Enter"                   -> Tapped(k)
    [] down /\ key \in Arrows                  -> Moved(k, key)
    [] down /\ key \in Shifts                  -> Modified(k, PressShift(k.state))
    [] ~down /\ key \in Shifts                 -> Modified(k, ReleaseShift(k.state))
    [] down /\ key = "CapsLock"                -> Modified(k, ToggleCaps(k.state))
    [] down /\ key \in Printable               -> Typed(k, event.of)
    [] down /\ key = "Backspace"               -> Erased(k)
    [] OTHER                                   -> k

KeyboardKey(k, event) == [Handled(k, event) EXCEPT !.drained = FALSE]

(* A bug to compare with: the slot is not emptied, and taps again. *)
MutantDispatchPendingKey(k) ==
  [k EXCEPT !.text = IF k.pending = NoTap THEN @ ELSE Append(@, Encode(k.state, k.pending))]

(* dispatch_pending_key. *)
DispatchPendingKey(k) ==
  [k EXCEPT !.pending = NoTap,
            !.text = IF k.pending = NoTap THEN @ ELSE Append(@, Encode(k.state, k.pending))]

(* The rest of the pass: the tap, apply_state, emit_text, the frame. *)
KeyboardPass(k) ==
  LET typed == DispatchPendingKey(k)
  IN  [typed EXCEPT !.ui = typed.state, !.last_text = typed.text,
                       !.drained = TRUE]
-----------------------------------------------------------------------------
(* Deferring taps is invisible: between passes nothing is pending, the     *)
(* text announced is the text, and it is what was typed and tapped, in     *)
(* order, each tap the key highlighted with the glyph drawn on it - unless *)
(* a pass brought another key that edits the text after a tap, which then  *)
(* comes first, or replaces the tap; and over rows of unequal length the   *)
(* highlight never leaves the keys (keyboard.rs, run_keyboard).            *)
TextAsTyped ==
  /\ OnGrid(kb.sel[1], kb.sel[2])
  /\ kb.drained => /\ kb.pending = NoTap
                   /\ kb.last_text = kb.text
                   /\ ~kb.crowded => kb.text = kb.want
=============================================================================
