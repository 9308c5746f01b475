------------------------------ MODULE Console ------------------------------
(***************************************************************************)
(* The console and its shell loop (console.rs, line_editor.rs): keystrokes *)
(* go to the line editor, the edited line is repainted in place, a         *)
(* finished line runs a command whose output scrolls the screen.           *)
(*                                                                         *)
(* con is the Console of the code, shown what the framebuffer shows of     *)
(* each cell, line the editor's buffer, and wire the current line of the   *)
(* terminal at the other end of the serial port.  The handlers run on the  *)
(* one kernel thread with the console locked, so each is one step (what    *)
(* can interrupt them for good is in CrashPath).                           *)
(***************************************************************************)
EXTENDS TextGrid

CONSTANTS Glyphs,       \* what can be typed
          PROMPT,       \* the shell's prompt
          Banner,       \* kmain's greeting
          MaxLine,      \* MAX_LINE_CHARS
          Replies,      \* what a command prints: sequences of lines
          Window        \* what an application shows on the screen

(* One line of what LineEditor::handle takes for printable. *)
Printable(s) ==
  /\ s \in Seq(ToSet(s))
  /\ {Newline, Return, Tab} \cap ToSet(s) = {}

(* The prompt leaves room on its row, and 128 characters on the screen. *)
ASSUME ConsoleAssumption ==
  /\ Len(PROMPT) + 1 < Cols
  /\ MaxLine \in Nat
  /\ Len(PROMPT) + MaxLine < Total
  /\ Printable(PROMPT) /\ Printable(Banner)
  /\ {Newline, Return, Tab} \cap Glyphs = {}
  /\ \A r \in Replies : r \in Seq(ToSet(r)) /\ \A s \in ToSet(r) : Printable(s)

VARIABLES mode,     \* "boot", "shell", or "app" while a command owns the screen
          con,      \* the Console
          shown,    \* the framebuffer, cell by cell
          line,     \* the editor's line
          wire,     \* the serial terminal's current line
          above     \* history: the rows on the screen above the prompt's line

vars == <<mode, con, shown, line, wire, above>>
-----------------------------------------------------------------------------
(* Console: each method is a function of the Console. *)
Origin(c) == Index(c.edit_row, c.edit_col)
CursorAt(c) == Index(c.row, c.col)

PutText(c, s) ==
  LET g == PutAll(Grid(c.cells, c.row, c.col), s)
  IN  [c EXCEPT !.cells = g.cells, !.row = g.row, !.col = g.col]

Println(c, s) == PutText(PutText(c, s), <<Newline>>)

(* Several lines, one after the other. *)
Printed(c, lines) ==
  LET after[i \in 0 .. Len(lines)] ==
        IF i = 0 THEN c ELSE Println(after[i - 1], lines[i])
  IN  after[Len(lines)]

(* new_prompt: write_str, begin_edit. *)
NewPrompt(c) ==
  LET p == PutText(c, PROMPT)
  IN  [p EXCEPT !.edit_row = p.row, !.edit_col = p.col, !.edited_cells = 0]

EndEdit(c) == [c EXCEPT !.edited_cells = 0]

ClearScreen(c) ==
  [c EXCEPT !.cells = BlankCells, !.row = 0, !.col = 0, !.edited_cells = 0]

(* set_edit_line, the grid part: blank what was drawn, draw the line. *)
Redrawn(c, chars) ==
  LET Old == Origin(c) .. Origin(c) + c.edited_cells - 1
      Blanked == [i \in Places |-> IF i \in Old THEN Blank ELSE c.cells[i]]
  IN  PutAll(Grid(Blanked, c.edit_row, c.edit_col), chars)

NothingToDo(c, chars) == chars = <<>> /\ c.edited_cells = 0

(* A bug to compare with: the edit stays where it was on a screen that     *)
(* moved.                                                                  *)
MutantSetEditLine(c, chars) ==
  LET g == Redrawn(c, chars) IN
  [c EXCEPT !.cells = g.cells, !.row = g.row, !.col = g.col,
            !.edited_cells = Minus(Index(g.row, g.col), Origin(c))]

SetEditLine(c, chars) ==
  LET g == Redrawn(c, chars) IN
  IF NothingToDo(c, chars) THEN c
  ELSE [c EXCEPT !.cells = g.cells, !.row = g.row, !.col = g.col,
                 !.edited_cells = Minus(Index(g.row, g.col), Origin(c)),
                 !.edit_row = Minus(@, g.scrolled)]

(* A bug to compare with: only the new extent of the line is blitted. *)
MutantRepainted(c, chars) ==
  LET d == SetEditLine(c, chars)
      end == Origin(c) + d.edited_cells - 1
  IN  IF Redrawn(c, chars).scrolled > 0 THEN d.cells
      ELSE [i \in Places |-> IF Origin(c) <= i /\ i <= end THEN d.cells[i]
                             ELSE shown[i]]

(* render_range over what was drawn and what is drawn, or a full render. *)
Repainted(c, chars) ==
  LET d == SetEditLine(c, chars)
      end == Minus(Origin(c) + Most(c.edited_cells, d.edited_cells), 1)
      range == Least(Origin(c), Total - 1) .. Least(end, Total - 1)
  IN  CASE NothingToDo(c, chars) -> shown
        [] Redrawn(c, chars).scrolled > 0 -> d.cells
        [] OTHER -> [i \in Places |-> IF i \in range THEN d.cells[i] ELSE shown[i]]
-----------------------------------------------------------------------------
(* How text is laid out, without a grid: a line of n characters takes      *)
(* n \div Cols + 1 rows; the rows that do not fit leave at the top.        *)
Wrap(s) ==
  [k \in 1 .. Len(s) \div Cols + 1 |->
     SubSeq(s, (k - 1) * Cols + 1, Least(k * Cols, Len(s)))]

Fit(rows, s) ==
  SubSeq(rows, Minus(Len(rows) + Len(Wrap(s)), Rows) + 1, Len(rows))

Laid(rows, lines) ==
  LET after[i \in 0 .. Len(lines)] ==
        IF i = 0 THEN rows ELSE after[i - 1] \o Wrap(lines[i])
  IN  after[Len(lines)]
-----------------------------------------------------------------------------
Fresh ==
  [cells |-> BlankCells, row |-> 0, col |-> 0,
   edit_row |-> 0, edit_col |-> 0, edited_cells |-> 0]

Init ==
  /\ mode = "boot"
  /\ con = Fresh
  /\ shown = [i \in Places |-> Window]
  /\ line = <<>>
  /\ wire = <<>>
  /\ above = <<>>

(* The prompt that follows the output `rows` at the top of the screen. *)
Prompts(c, rows) ==
  /\ mode' = "shell"
  /\ con' = NewPrompt(c)
  /\ shown' = con'.cells
  /\ line' = <<>>
  /\ wire' = PROMPT
  /\ above' = Fit(rows, PROMPT)

Kmain ==
  /\ mode = "boot"
  /\ Prompts(Println(con, Banner), Wrap(Banner))

(* LineAction::Inserted; a full line ignores the key. *)
Insert(c) ==
  /\ mode = "shell"
  /\ Len(line) < MaxLine
  /\ line' = Append(line, c)
  /\ wire' = Append(wire, c)
  /\ con' = SetEditLine(con, line')
  /\ shown' = Repainted(con, line')
  /\ above' = Fit(above, PROMPT \o line')
  /\ UNCHANGED mode

(* A bug to compare with: the terminal is not told of the erasure. *)
MutantErase ==
  /\ mode = "shell"
  /\ line # <<>>
  /\ line' = Front(line)
  /\ con' = SetEditLine(con, line')
  /\ shown' = Repainted(con, line')
  /\ UNCHANGED <<mode, wire, above>>

(* LineAction::Erased; the terminal gets a backspace, a blank, a backspace. *)
Erase ==
  /\ mode = "shell"
  /\ line # <<>>
  /\ line' = Front(line)
  /\ wire' = Front(wire)
  /\ con' = SetEditLine(con, line')
  /\ shown' = Repainted(con, line')
  /\ UNCHANGED <<mode, above>>

(* LineAction::Submitted, for a command that prints `reply`. *)
Submitted == Println(EndEdit(con), <<>>)
Typed == above \o Wrap(PROMPT \o line)

Command(reply) ==
  /\ mode = "shell"
  /\ Prompts(Printed(Submitted, reply), Laid(Typed, reply))

Clear ==
  /\ mode = "shell"
  /\ Prompts(ClearScreen(Submitted), <<>>)

(* clock, gui, monitor, keyboard: the application paints over the console, *)
(* which is rendered again when it returns.                                *)
Launch ==
  /\ mode = "shell"
  /\ mode' = "app"
  /\ con' = Submitted
  /\ shown' = [i \in Places |-> Window]
  /\ wire' = <<>>
  /\ above' = Typed
  /\ UNCHANGED line

ExitApp ==
  /\ mode = "app"
  /\ Prompts(con, above)

Next ==
  \/ Kmain
  \/ \E c \in Glyphs : Insert(c)
  \/ Erase
  \/ \E r \in Replies : Command(r)
  \/ Clear \/ Launch \/ ExitApp

Spec == Init /\ [][Next]_vars
-----------------------------------------------------------------------------
InShell == mode = "shell"

(* Every variable stays in its range: the cursor and the edit are inside   *)
(* the grid.                                                               *)
TypeOK ==
  /\ mode \in {"boot", "shell", "app"}
  /\ con.row \in 0 .. Rows - 1 /\ con.col \in 0 .. Cols - 1
  /\ con.edit_row \in 0 .. Rows - 1 /\ con.edit_col \in 0 .. Cols - 1
  /\ con.edited_cells \in 0 .. Total
  /\ DOMAIN con.cells = Places
  /\ line \in Seq(Glyphs) /\ Len(line) <= MaxLine

(* Between keystrokes the framebuffer shows the cells: blitting only the   *)
(* edited range never misses one that changed.                             *)
ScreenFresh == InShell => shown = con.cells

(* What was printed stays on the screen, row by row in its order, up to    *)
(* what scrolled off at the top, and the line being typed follows.         *)
TextOnScreen ==
  InShell =>
    LET rows == above \o Wrap(PROMPT \o line) IN
      /\ Len(rows) <= Rows
      /\ \A k \in DOMAIN rows : \A i \in DOMAIN rows[k] :
           con.cells[Index(k - 1, i - 1)] = rows[k][i]

(* The edit starts behind the prompt and the cursor stands behind the line, *)
(* also after the line made the screen scroll.                             *)
EditAtCursor ==
  InShell =>
    /\ Origin(con) = Len(above) * Cols + Len(PROMPT)
    /\ CursorAt(con) = Origin(con) + Len(line)

(* The screen is what the shell takes it for: the text, and the place      *)
(* where the next key goes (console.rs set_edit_line).                     *)
TextInPlace == TextOnScreen /\ EditAtCursor

(* The terminal on the serial port and the editor agree on the line. *)
WireAgrees == InShell => wire = PROMPT \o line

=============================================================================
