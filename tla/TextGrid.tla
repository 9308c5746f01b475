------------------------------ MODULE TextGrid ------------------------------
(***************************************************************************)
(* The text model of the console (ferric-safe-core, grid.rs): a grid of    *)
(* cells in row-major order, a cursor, wrapping and scrolling.             *)
(*                                                                         *)
(* A grid is a record [cells, row, col, scrolled]; colours are left out,   *)
(* so a cell is its glyph.                                                 *)
(***************************************************************************)
EXTENDS Integers, Sequences, SequencesExt

CONSTANTS Cols, Rows,      \* the geometry
          Blank,           \* the glyph of an empty cell
          Newline,         \* '\n', which is no glyph
          Return, Tab      \* '\r' and '\t'

ASSUME GridAssumption ==
  /\ Cols \in Nat \ {0}
  /\ Rows \in Nat \ {0}
  /\ Newline \notin {Return, Tab}

TabWidth == 8
Total == Rows * Cols
Places == 0 .. Total - 1
Index(row, col) == row * Cols + col

Least(a, b) == IF a <= b THEN a ELSE b
Most(a, b) == IF a >= b THEN a ELSE b
Minus(a, b) == Most(a - b, 0)      \* saturating_sub

BlankCells == [i \in Places |-> Blank]

(* The buffer behind the grid is larger than the grid; what copy_within    *)
(* drags in from there lands in the last row and is blanked.               *)
ScrollUp(g) ==
  [g EXCEPT !.cells = [i \in Places |-> IF i + Cols < Total THEN @[i + Cols]
                                        ELSE Blank],
            !.scrolled = @ + 1]

Linefeed(g) ==
  IF g.row + 1 >= Rows THEN ScrollUp([g EXCEPT !.col = 0])
  ELSE [g EXCEPT !.col = 0, !.row = @ + 1]

PutGlyph(g, c) ==
  LET h == [g EXCEPT !.cells[Index(g.row, g.col)] = c, !.col = @ + 1]
  IN  IF h.col >= Cols THEN Linefeed(h) ELSE h

Put(g, c) ==
  CASE c = Newline -> Linefeed(g)
    [] c = Return  -> [g EXCEPT !.col = 0]
    [] c = Tab     -> [g EXCEPT !.col = Least((@ \div TabWidth + 1) * TabWidth, Cols)]
    [] OTHER       -> PutGlyph(g, c)

(* Character by character: a function, as it is reasoned about. *)
PutAll(g, s) ==
  LET after[i \in 0 .. Len(s)] == IF i = 0 THEN g ELSE Put(after[i - 1], s[i])
  IN  after[Len(s)]

(* TextGrid::new followed by set_cursor: a view of the cells. *)
Grid(cells, row, col) ==
  [cells |-> cells, row |-> Least(row, Rows - 1), col |-> Least(col, Cols - 1),
   scrolled |-> 0]
=============================================================================
