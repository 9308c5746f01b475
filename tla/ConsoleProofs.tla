--------------------------- MODULE ConsoleProofs ---------------------------
(***************************************************************************)
(* Proofs about Console, for every geometry, prompt, line length and set   *)
(* of replies.                                                             *)
(*                                                                         *)
(* Drawn says what a grid shows of a text: rows that are finished, of      *)
(* which the first d have scrolled off, and the line being written.  A     *)
(* character, a newline and then whole texts keep it, by induction on      *)
(* their length; a command is a list of such texts.                        *)
(***************************************************************************)
EXTENDS Console, SequenceTheorems, WellFoundedInduction, TLAPS

(* The first cell of a row. *)
StartOf(row) == row * Cols

(* f is what a function constructor over the cells makes. *)
Extensional(f) == f = [j \in Places |-> f[j]]

GridOk(g) ==
  /\ DOMAIN g = {"cells", "row", "col", "scrolled"}
  /\ DOMAIN g.cells = Places /\ Extensional(g.cells)
  /\ g.row \in 0 .. Rows - 1 /\ g.col \in 0 .. Cols - 1 /\ g.scrolled \in Nat

(* Everything that is printed. *)
Ink ==
  Glyphs \cup ToSet(PROMPT) \cup ToSet(Banner)
    \cup UNION {ToSet(t) : t \in UNION {ToSet(r) : r \in Replies}}

RowsOk(rows) ==
  /\ rows \in Seq(Seq(Ink))
  /\ \A k \in 1 .. Len(rows) : Len(rows[k]) <= Cols

(* g is a grid or the Console: both have cells and a cursor. *)
Drawn(g, rows, d, s) ==
  /\ StartOf(g.row) + g.col + StartOf(d) = StartOf(Len(rows)) + Len(s)
  /\ d = 0 \/ g.row = Rows - 1
  /\ \A k \in 1 .. Len(rows) : \A i \in 1 .. Len(rows[k]) :
       k > d => g.cells[StartOf(k - 1 - d) + i - 1] = rows[k][i]
  /\ \A i \in 1 .. Len(s) :
       StartOf(Len(rows)) + i > StartOf(d)
         => g.cells[StartOf(Len(rows)) + i - 1 - StartOf(d)] = s[i]

(* The rows that have not scrolled off are on the screen, before the       *)
(* cursor.                                                                 *)
Visible(g, rows, d) ==
  \A k \in 1 .. Len(rows) : \A i \in 1 .. Len(rows[k]) :
    /\ i \in Int
    /\ StartOf(k - 1 - d) + i - 1 \in Int
    /\ StartOf(k - 1 - d) + i - 1 < StartOf(g.row) + g.col
    /\ k > d => /\ StartOf(k - 1 - d) + i - 1 >= 0
                /\ g.cells[StartOf(k - 1 - d) + i - 1] = rows[k][i]

Plain(s) == \A i \in 1 .. Len(s) : s[i] \notin {Newline, Return, Tab}
-----------------------------------------------------------------------------
(* Cells and rows. *)
LEMMA Starts ==
  /\ Cols \in Nat /\ Cols > 0 /\ Rows \in Nat /\ Rows > 0
  /\ \A n \in Int : StartOf(n) \in Int
  /\ \A n \in Int : StartOf(n + 1) = StartOf(n) + Cols
  /\ \A n \in Int : StartOf(n - 1) = StartOf(n) - Cols
  /\ StartOf(0) = 0
  /\ Total = StartOf(Rows)
  /\ \A r, c \in Int : Index(r, c) = StartOf(r) + c
<1>1. Cols \in Nat /\ Cols > 0 /\ Rows \in Nat /\ Rows > 0 BY GridAssumption
<1>2. \A n \in Int : n * Cols \in Int BY <1>1
<1>3. \A n \in Int : (n + 1) * Cols = n * Cols + Cols BY <1>1
<1>4. \A n \in Int : (n - 1) * Cols = n * Cols - Cols BY <1>1
<1>5. 0 * Cols = 0 BY <1>1
<1> QED BY <1>1, <1>2, <1>3, <1>4, <1>5 DEF StartOf, Total, Index

LEMMA StartInt == \A n \in Int : StartOf(n) \in Int
BY Starts

LEMMA StartSum ==
  ASSUME NEW m \in Int, NEW n \in Int
  PROVE  /\ StartOf(m + n) = StartOf(m) + StartOf(n)
         /\ StartOf(m - n) = StartOf(m) - StartOf(n)
<1>1. Cols \in Int BY GridAssumption
<1>2. (m + n) * Cols = m * Cols + n * Cols BY <1>1
<1>3. (m - n) * Cols = m * Cols - n * Cols BY <1>1
<1> QED BY <1>2, <1>3 DEF StartOf

LEMMA StartOrder ==
  ASSUME NEW m \in Int, NEW n \in Int, m < n
  PROVE  StartOf(m) + Cols <= StartOf(n)
<1>1. Cols \in Nat BY GridAssumption
<1> DEFINE e == n - m - 1
<1>2. e \in Nat /\ n = (m + 1) + e OBVIOUS
<1> HIDE DEF e
<1>3. e * Cols >= 0 BY <1>1, <1>2
<1>4. ((m + 1) + e) * Cols = m * Cols + Cols + e * Cols BY <1>1, <1>2
<1> QED BY <1>1, <1>2, <1>3, <1>4 DEF StartOf

(* A cell lies in one row only. *)
LEMMA SameRow ==
  ASSUME NEW m \in Int, NEW n \in Int, NEW x \in Int,
         StartOf(m) <= x, x < StartOf(m) + Cols,
         StartOf(n) <= x, x < StartOf(n) + Cols
  PROVE  m = n
<1>1. StartOf(m) \in Int /\ StartOf(n) \in Int /\ Cols \in Nat BY Starts
<1>2. ~(m < n) BY <1>1, StartOrder
<1>3. ~(n < m) BY <1>1, StartOrder
<1> QED BY <1>2, <1>3

(* The cursor is a cell. *)
LEMMA CursorInside ==
  ASSUME NEW r \in 0 .. Rows - 1, NEW c \in 0 .. Cols - 1
  PROVE  /\ StartOf(r) + c \in Places
         /\ StartOf(r) >= 0
         /\ r + 1 < Rows => StartOf(r) + Cols < Total
         /\ r = Rows - 1 => StartOf(r) + Cols = Total
<1>0. /\ r \in Int /\ c \in Int /\ 0 <= r /\ r < Rows /\ 0 <= c /\ c < Cols
      /\ Rows \in Int /\ Cols \in Int /\ Cols > 0 /\ 0 \in Int
  BY Starts
<1>1. /\ StartOf(r) \in Int /\ StartOf(Rows) \in Int
      /\ StartOf(r) + Cols = StartOf(r + 1) /\ Total = StartOf(Rows) /\ StartOf(0) = 0
  BY <1>0, Starts
<1>2. r = 0 \/ StartOf(0) + Cols <= StartOf(r) BY <1>0, StartOrder
<1>3. StartOf(r) + Cols <= StartOf(Rows) BY <1>0, StartOrder
<1>4. r + 1 < Rows => StartOf(r + 1) + Cols <= StartOf(Rows) BY <1>0, StartOrder
<1>5. r = Rows - 1 => r + 1 = Rows BY <1>0
<1>6. StartOf(r) >= 0 BY <1>0, <1>1, <1>2
<1>7. StartOf(r) + c \in 0 .. Total - 1 BY <1>0, <1>1, <1>3, <1>6
<1> QED BY <1>0, <1>1, <1>4, <1>5, <1>6, <1>7 DEF Places

-----------------------------------------------------------------------------
(* One character: what becomes of each field.                              *)
LEMMA LinefeedIs ==
  ASSUME NEW g, DOMAIN g = {"cells", "row", "col", "scrolled"},
         g.row \in 0 .. Rows - 1, g.scrolled \in Nat
  PROVE  /\ DOMAIN Linefeed(g) = {"cells", "row", "col", "scrolled"}
         /\ Linefeed(g).col = 0
         /\ g.row + 1 < Rows =>
              /\ Linefeed(g).row = g.row + 1 /\ Linefeed(g).scrolled = g.scrolled
              /\ Linefeed(g).cells = g.cells
         /\ g.row = Rows - 1 =>
              /\ Linefeed(g).row = g.row /\ Linefeed(g).scrolled = g.scrolled + 1
              /\ Linefeed(g).cells = [i \in Places |-> IF i + Cols < Total THEN g.cells[i + Cols]
                                                       ELSE Blank]
<1>1. Rows \in Int BY Starts
<1>2. CASE g.row + 1 < Rows
  <2>1. Linefeed(g) = [g EXCEPT !.col = 0, !.row = @ + 1] BY <1>1, <1>2 DEF Linefeed
  <2> QED BY <1>1, <1>2, <2>1
<1>3. CASE g.row = Rows - 1
  <2> DEFINE f == [g EXCEPT !.col = 0]
  <2>1. /\ DOMAIN f = {"cells", "row", "col", "scrolled"}
        /\ f.col = 0 /\ f.row = g.row /\ f.cells = g.cells /\ f.scrolled = g.scrolled
    OBVIOUS
  <2>2. Linefeed(g) = ScrollUp(f) BY <1>1, <1>3 DEF Linefeed
  <2> HIDE DEF f
  <2> QED BY <1>1, <1>3, <2>1, <2>2 DEF ScrollUp
<1> QED BY <1>1, <1>2, <1>3

LEMMA GlyphIs ==
  ASSUME NEW g, GridOk(g), NEW x
  PROVE  LET p == StartOf(g.row) + g.col
             e == [g.cells EXCEPT ![p] = x]
             h == PutGlyph(g, x)
         IN  /\ DOMAIN h = {"cells", "row", "col", "scrolled"}
             /\ g.col + 1 < Cols =>
                  /\ h.col = g.col + 1 /\ h.row = g.row /\ h.scrolled = g.scrolled
                  /\ h.cells = e
             /\ g.col + 1 = Cols => h.col = 0
             /\ g.col + 1 = Cols /\ g.row + 1 < Rows =>
                  h.row = g.row + 1 /\ h.scrolled = g.scrolled /\ h.cells = e
             /\ g.col + 1 = Cols /\ g.row = Rows - 1 =>
                  /\ h.row = g.row /\ h.scrolled = g.scrolled + 1
                  /\ h.cells = [i \in Places |-> IF i + Cols < Total THEN e[i + Cols]
                                                 ELSE Blank]
<1> DEFINE p == StartOf(g.row) + g.col
           e == [g.cells EXCEPT ![p] = x]
           f == [g EXCEPT !.cells[Index(g.row, g.col)] = x, !.col = @ + 1]
<1>1. /\ g.row \in Int /\ g.col \in Int /\ g.scrolled \in Nat /\ Rows \in Int /\ Cols \in Int
      /\ g.col < Cols /\ g.row \in 0 .. Rows - 1
      /\ DOMAIN g = {"cells", "row", "col", "scrolled"}
  BY Starts DEF GridOk
<1>2. Index(g.row, g.col) = p BY <1>1, Starts
<1>3. f = [g EXCEPT !.cells[p] = x, !.col = @ + 1] BY <1>2
<1> HIDE DEF p
<1>4. /\ DOMAIN f = {"cells", "row", "col", "scrolled"}
      /\ f.cells = e /\ f.row = g.row /\ f.col = g.col + 1 /\ f.scrolled = g.scrolled
  BY <1>1, <1>3
<1>5. PutGlyph(g, x) = IF f.col >= Cols THEN Linefeed(f) ELSE f BY DEF PutGlyph
<1> HIDE DEF f, e
<1>6. CASE g.col + 1 < Cols
  <2>1. PutGlyph(g, x) = f BY <1>1, <1>4, <1>5, <1>6
  <2> QED BY <1>1, <1>4, <1>6, <2>1 DEF e, p
<1>7. CASE g.col + 1 = Cols
  <2>1. PutGlyph(g, x) = Linefeed(f) BY <1>1, <1>4, <1>5, <1>7
  <2>2. f.row \in 0 .. Rows - 1 /\ f.scrolled \in Nat BY <1>1, <1>4
  <2>3. /\ DOMAIN Linefeed(f) = {"cells", "row", "col", "scrolled"}
        /\ Linefeed(f).col = 0
        /\ f.row + 1 < Rows =>
             /\ Linefeed(f).row = f.row + 1 /\ Linefeed(f).scrolled = f.scrolled
             /\ Linefeed(f).cells = f.cells
        /\ f.row = Rows - 1 =>
             /\ Linefeed(f).row = f.row /\ Linefeed(f).scrolled = f.scrolled + 1
             /\ Linefeed(f).cells = [i \in Places |-> IF i + Cols < Total THEN f.cells[i + Cols]
                                                      ELSE Blank]
    BY <1>4, <2>2, LinefeedIs
  <2> QED BY <1>1, <1>4, <1>7, <2>1, <2>3 DEF e, p
<1> QED BY <1>1, <1>6, <1>7

LEMMA PutIs ==
  /\ \A g, x : x \notin {Newline, Return, Tab} => Put(g, x) = PutGlyph(g, x)
  /\ \A g : Put(g, Newline) = Linefeed(g)
BY GridAssumption DEF Put


(* The numbers of a grid and of the rows on it.                            *)
LEMMA Sizes ==
  ASSUME NEW g, GridOk(g), NEW rows, RowsOk(rows), NEW d \in Nat
  PROVE  /\ Cols \in Nat /\ Cols > 0 /\ Rows \in Nat /\ Rows > 0 /\ Total \in Int
         /\ g.row \in Int /\ g.col \in Int /\ g.scrolled \in Nat
         /\ 0 <= g.row /\ g.row < Rows /\ 0 <= g.col /\ g.col < Cols
         /\ g.row \in 0 .. Rows - 1 /\ g.col \in 0 .. Cols - 1
         /\ DOMAIN g.cells = Places
         /\ Len(rows) \in Nat
         /\ \A k \in 1 .. Len(rows) : Len(rows[k]) \in Nat /\ Len(rows[k]) <= Cols
         /\ StartOf(g.row) \in Int /\ StartOf(Len(rows)) \in Int /\ StartOf(d) \in Int
         /\ StartOf(0) = 0 /\ StartOf(d + 1) = StartOf(d) + Cols
         /\ StartOf(g.row + 1) = StartOf(g.row) + Cols
         /\ StartOf(g.row) + g.col \in 0 .. Total - 1
<1>1. Cols \in Nat /\ Cols > 0 /\ Rows \in Nat /\ Rows > 0 /\ StartOf(0) = 0 BY Starts
<1>2. g.row \in 0 .. Rows - 1 /\ g.col \in 0 .. Cols - 1 /\ g.scrolled \in Nat
      /\ DOMAIN g.cells = Places
  BY DEF GridOk
<1>3. rows \in Seq(Seq(Ink)) BY DEF RowsOk
<1>4. Len(rows) \in Nat /\ \A k \in 1 .. Len(rows) : Len(rows[k]) \in Nat BY <1>3
<1>5. \A k \in 1 .. Len(rows) : Len(rows[k]) <= Cols BY DEF RowsOk
<1>6. /\ g.row \in Int /\ g.col \in Int
      /\ 0 <= g.row /\ g.row < Rows /\ 0 <= g.col /\ g.col < Cols
  BY <1>1, <1>2
<1>7. Len(rows) \in Int /\ d \in Int /\ Rows \in Int BY <1>1, <1>4
<1>8. /\ StartOf(g.row) \in Int /\ StartOf(Len(rows)) \in Int /\ StartOf(d) \in Int
      /\ Total \in Int
      /\ StartOf(d + 1) = StartOf(d) + Cols /\ StartOf(g.row + 1) = StartOf(g.row) + Cols
  BY <1>6, <1>7, Starts
<1>9. StartOf(g.row) + g.col \in 0 .. Total - 1 BY <1>2, CursorInside DEF Places
<1> QED BY <1>1, <1>2, <1>4, <1>5, <1>6, <1>8, <1>9

(* Where the finished rows and the line are: on the screen, before the     *)
(* cursor.                                                                 *)
LEMMA BeforeCursor ==
  ASSUME NEW g, GridOk(g), NEW rows, RowsOk(rows), NEW d \in Nat, NEW S, NEW s \in Seq(S),
         Drawn(g, rows, d, s)
  PROVE  LET p == StartOf(g.row) + g.col
             n == StartOf(Len(rows)) - StartOf(d)
         IN  /\ p \in Places /\ n \in Int /\ p = n + Len(s)
             /\ StartOf(d + 1) = StartOf(d) + Cols
             /\ \A k \in 1 .. Len(rows) : \A i \in 1 .. Len(rows[k]) :
                  /\ StartOf(k - 1 - d) + i - 1 \in Int
                  /\ StartOf(k - 1 - d) + i - 1 < n
                  /\ k > d => StartOf(k - 1 - d) + i - 1 >= 0
                  /\ StartOf(k - 1 - (d + 1)) + i - 1 = (StartOf(k - 1 - d) + i - 1) - Cols
                  /\ k > d + 1 => StartOf(k - 1 - (d + 1)) + i - 1 >= 0
             /\ \A i \in 1 .. Len(s) :
                  StartOf(Len(rows)) + i - 1 - StartOf(d) = n + i - 1
<1> DEFINE p == StartOf(g.row) + g.col
           n == StartOf(Len(rows)) - StartOf(d)
<1>1. /\ Cols \in Nat /\ Cols > 0 /\ Rows \in Nat /\ Rows > 0 /\ Total \in Int
      /\ g.row \in Int /\ g.col \in Int /\ g.scrolled \in Nat
      /\ 0 <= g.row /\ g.row < Rows /\ 0 <= g.col /\ g.col < Cols
      /\ g.row \in 0 .. Rows - 1 /\ g.col \in 0 .. Cols - 1
      /\ DOMAIN g.cells = Places /\ Len(rows) \in Nat /\ Len(s) \in Nat
      /\ StartOf(g.row) \in Int /\ StartOf(Len(rows)) \in Int /\ StartOf(d) \in Int
      /\ StartOf(0) = 0 /\ StartOf(d + 1) = StartOf(d) + Cols
      /\ StartOf(g.row + 1) = StartOf(g.row) + Cols
      /\ StartOf(g.row) + g.col \in 0 .. Total - 1
  BY Sizes
<1>3. p \in Places BY <1>1 DEF Places
<1>4. n \in Int /\ p = n + Len(s)
  <2>1. StartOf(g.row) + g.col + StartOf(d) = StartOf(Len(rows)) + Len(s) BY DEF Drawn
  <2>2. /\ g.col \in Int /\ Len(s) \in Int /\ StartOf(g.row) \in Int
        /\ StartOf(Len(rows)) \in Int /\ StartOf(d) \in Int
    BY <1>1
  <2> QED BY SMTT(60), <2>1, <2>2
<1>5. ASSUME NEW k \in 1 .. Len(rows), NEW i \in 1 .. Len(rows[k])
      PROVE  /\ StartOf(k - 1 - d) + i - 1 \in Int
             /\ StartOf(k - 1 - d) + i - 1 < n
             /\ k > d => StartOf(k - 1 - d) + i - 1 >= 0
             /\ StartOf(k - 1 - (d + 1)) + i - 1 = (StartOf(k - 1 - d) + i - 1) - Cols
             /\ k > d + 1 => StartOf(k - 1 - (d + 1)) + i - 1 >= 0
  <2>1. k \in Int /\ i \in Int /\ 1 <= i /\ i <= Cols /\ 1 <= k /\ k <= Len(rows)
    <3>1. Len(rows[k]) \in Nat /\ Len(rows[k]) <= Cols BY Sizes
    <3> QED BY SMTT(60), <1>1, <3>1
  <2>2. /\ k - 1 - d \in Int /\ k - 1 - (d + 1) = (k - 1 - d) - 1
        /\ (k - 1) - d \in Int /\ k - 1 \in Int /\ Len(rows) \in Int /\ d \in Int
    BY <1>1, <2>1
  <2>3. /\ StartOf(k - 1 - d) \in Int /\ StartOf(k - 1) \in Int
        /\ StartOf(k - 1 - (d + 1)) = StartOf(k - 1 - d) - Cols
    BY <2>2, Starts
  <2>4. StartOf(k - 1 - d) = StartOf(k - 1) - StartOf(d) BY <2>2, StartSum
  <2>5. StartOf(k - 1) + Cols <= StartOf(Len(rows))
    <3>1. k - 1 < Len(rows) BY <1>1, <2>1
    <3> QED BY <2>2, <3>1, StartOrder
  <2>6. k > d => k - 1 - d = 0 \/ StartOf(0) + Cols <= StartOf(k - 1 - d)
    <3>1. k > d => k - 1 - d = 0 \/ 0 < k - 1 - d BY <2>1
    <3>2. 0 < k - 1 - d => StartOf(0) + Cols <= StartOf(k - 1 - d) BY <2>2, StartOrder
    <3> QED BY <3>1, <3>2
  <2>7. StartOf(0) = 0 BY Starts
  <2>8. k > d + 1 => StartOf(0) + Cols <= StartOf(k - 1 - d)
    <3>1. k > d + 1 => 0 < k - 1 - d BY <2>1
    <3>2. 0 < k - 1 - d => StartOf(0) + Cols <= StartOf(k - 1 - d) BY <2>2, StartOrder
    <3> QED BY <3>1, <3>2
  <2>9. Cols \in Nat /\ StartOf(Len(rows)) \in Int /\ StartOf(d) \in Int BY <1>1
  <2> DEFINE u == StartOf(k - 1 - d)
             v == StartOf(k - 1)
             w == StartOf(k - 1 - (d + 1))
             r == StartOf(Len(rows))
             q == StartOf(d)
  <2>10. u \in Int /\ v \in Int /\ w = u - Cols /\ u = v - q /\ v + Cols <= r /\ r \in Int /\ q \in Int
    BY <2>3, <2>4, <2>5, <2>9
  <2>11. (k > d => u >= 0) /\ (k > d + 1 => u >= Cols)
    BY SMTT(60), <2>6, <2>7, <2>8, <2>9, <2>10
  <2> HIDE DEF u, v, w, r, q
  <2>12. /\ u + i - 1 \in Int /\ u + i - 1 < r - q
         /\ k > d => u + i - 1 >= 0
         /\ w + i - 1 = (u + i - 1) - Cols
         /\ k > d + 1 => w + i - 1 >= 0
    BY <2>1, <2>9, <2>10, <2>11
  <2> QED BY <2>12 DEF u, w, r, q
<1>6. \A i \in 1 .. Len(s) : StartOf(Len(rows)) + i - 1 - StartOf(d) = n + i - 1
  BY SMTT(60), <1>1
<1> QED BY <1>1, <1>3, <1>4, <1>5, <1>6

(* A character goes behind the line, wherever the line ends.               *)
LEMMA GlyphDrawn ==
  ASSUME NEW g, GridOk(g), NEW rows, RowsOk(rows), NEW d \in Nat,
         NEW S, NEW s \in Seq(S), NEW x \in S, Drawn(g, rows, d, s)
  PROVE  LET h == PutGlyph(g, x)
             e == h.scrolled - g.scrolled
         IN  /\ GridOk(h) /\ e \in Nat
             /\ Drawn(h, rows, d + e, Append(s, x))
             /\ e = 0 =>
                  /\ StartOf(h.row) + h.col = StartOf(g.row) + g.col + 1
                  /\ \A j \in Places :
                       j # StartOf(g.row) + g.col => h.cells[j] = g.cells[j]
<1> DEFINE h == PutGlyph(g, x)
           p == StartOf(g.row) + g.col
           n == StartOf(Len(rows)) - StartOf(d)
           c == [g.cells EXCEPT ![p] = x]
           z == Append(s, x)
<1>1. /\ Cols \in Nat /\ Cols > 0 /\ Rows \in Nat /\ Rows > 0 /\ Total \in Int
      /\ g.row \in Int /\ g.col \in Int /\ g.scrolled \in Nat
      /\ 0 <= g.row /\ g.row < Rows /\ 0 <= g.col /\ g.col < Cols
      /\ DOMAIN g.cells = Places /\ Len(rows) \in Nat /\ Len(s) \in Nat
      /\ StartOf(g.row) \in Int /\ StartOf(Len(rows)) \in Int /\ StartOf(d) \in Int
      /\ StartOf(0) = 0 /\ StartOf(d + 1) = StartOf(d) + Cols
      /\ StartOf(g.row + 1) = StartOf(g.row) + Cols
      /\ StartOf(g.row) + g.col \in 0 .. Total - 1
  BY Sizes
<1>2. /\ p \in Places /\ p = n + Len(s)
      /\ \A k \in 1 .. Len(rows) : \A i \in 1 .. Len(rows[k]) :
           /\ StartOf(k - 1 - d) + i - 1 \in Int
           /\ StartOf(k - 1 - d) + i - 1 < n
           /\ k > d => StartOf(k - 1 - d) + i - 1 >= 0
           /\ StartOf(k - 1 - (d + 1)) + i - 1 = (StartOf(k - 1 - d) + i - 1) - Cols
           /\ k > d + 1 => StartOf(k - 1 - (d + 1)) + i - 1 >= 0
  BY BeforeCursor
<1>3. DOMAIN c = Places /\ c[p] = x /\ \A j \in Places : j # p => c[j] = g.cells[j]
  BY <1>1, <1>2
<1>f. Extensional(c)
  <2>1. DOMAIN g.cells = Places BY <1>1
  <2> QED BY <2>1 DEF Extensional
<1>4. z \in Seq(S) /\ Len(z) = Len(s) + 1 /\ z[Len(s) + 1] = x /\ \A i \in 1 .. Len(s) : z[i] = s[i]
  OBVIOUS
<1>5. /\ DOMAIN h = {"cells", "row", "col", "scrolled"}
      /\ g.col + 1 < Cols =>
           h.col = g.col + 1 /\ h.row = g.row /\ h.scrolled = g.scrolled /\ h.cells = c
      /\ g.col + 1 = Cols => h.col = 0
      /\ g.col + 1 = Cols /\ g.row + 1 < Rows =>
           h.row = g.row + 1 /\ h.scrolled = g.scrolled /\ h.cells = c
      /\ g.col + 1 = Cols /\ g.row = Rows - 1 =>
           /\ h.row = g.row /\ h.scrolled = g.scrolled + 1
           /\ h.cells = [i \in Places |-> IF i + Cols < Total THEN c[i + Cols] ELSE Blank]
  BY GlyphIs
<1>d. d = 0 \/ g.row = Rows - 1 BY DEF Drawn
<1> HIDE DEF h, c, z
<1>c. Cols \in Int /\ Cols > 0 BY <1>1
<1>g. g.col \in Int /\ 0 <= g.col /\ g.col < Cols BY <1>1
<1>o. g.row \in Int /\ Rows \in Int /\ 0 <= g.row /\ g.row < Rows BY SMTT(60), <1>1
<1>e. g.scrolled \in Nat BY <1>1
<1>l. Len(s) \in Int /\ Len(s) >= 0 /\ Len(z) = Len(s) + 1 BY <1>1, <1>4
<1>p. p \in Int /\ 0 <= p /\ p < Total /\ Total \in Int BY SMTT(60), <1>1, <1>2 DEF Places
<1>v. n \in Int /\ p = n + Len(s) BY <1>1, <1>2
<1>q. StartOf(Len(rows)) \in Int /\ StartOf(d) \in Int /\ n = StartOf(Len(rows)) - StartOf(d)
  BY <1>1
<1>w. StartOf(d + 1) = StartOf(d) + Cols BY <1>1
<1>y. StartOf(g.row) \in Int /\ p = StartOf(g.row) + g.col BY <1>1
<1>x. StartOf(g.row + 1) = StartOf(g.row) + Cols BY <1>1
<1> HIDE DEF p, n
<1>6. (* what the screen shows, as long as nothing scrolls *)
      /\ \A k \in 1 .. Len(rows) : \A i \in 1 .. Len(rows[k]) :
           k > d => c[StartOf(k - 1 - d) + i - 1] = rows[k][i]
      /\ \A i \in 1 .. Len(z) :
           n + i - 1 >= 0 => c[n + i - 1] = z[i]
  <2>1. ASSUME NEW k \in 1 .. Len(rows), NEW i \in 1 .. Len(rows[k]), k > d
        PROVE  c[StartOf(k - 1 - d) + i - 1] = rows[k][i]
    <3> DEFINE j == StartOf(k - 1 - d) + i - 1
    <3>1. g.cells[j] = rows[k][i] BY <2>1 DEF Drawn
    <3>2. j \in Int /\ j < n /\ j >= 0 BY <1>2, <2>1
    <3> HIDE DEF j
    <3>3. j # p /\ j \in Places BY <1>p, <1>v, <1>l, <3>2 DEF Places
    <3> QED BY <1>3, <3>1, <3>3 DEF j
  <2>2. ASSUME NEW i \in 1 .. Len(z), n + i - 1 >= 0 PROVE c[n + i - 1] = z[i]
    <3>1. CASE i = Len(s) + 1
      <4>1. n + i - 1 = p BY <1>v, <1>l, <3>1
      <4> QED BY <1>3, <1>4, <3>1, <4>1
    <3>2. CASE i \in 1 .. Len(s)
      <4>0. i \in Int /\ 1 <= i /\ i <= Len(s) BY <1>l, <3>2
      <4>1. StartOf(Len(rows)) + i > StartOf(d) BY SMTT(60), <1>q, <2>2, <4>0
      <4>2. g.cells[StartOf(Len(rows)) + i - 1 - StartOf(d)] = s[i]
        BY <3>2, <4>1 DEF Drawn
      <4>3. StartOf(Len(rows)) + i - 1 - StartOf(d) = n + i - 1 BY <1>q, <4>0
      <4>4. n + i - 1 # p /\ n + i - 1 \in Places
        BY <1>p, <1>v, <1>l, <2>2, <4>0 DEF Places
      <4> QED BY <1>3, <1>4, <3>2, <4>2, <4>3, <4>4
    <3>3. i = Len(s) + 1 \/ i \in 1 .. Len(s) BY <1>l
    <3> QED BY <3>1, <3>2, <3>3
  <2> QED BY <2>1, <2>2
<1>7. (* nothing scrolls *)
      ASSUME h.cells = c, h.scrolled = g.scrolled, h.row \in 0 .. Rows - 1,
             h.col \in 0 .. Cols - 1, StartOf(h.row) \in Int, StartOf(h.row) + h.col = p + 1,
             d = 0 \/ h.row = Rows - 1
      PROVE  /\ GridOk(h) /\ h.scrolled - g.scrolled = 0 /\ h.scrolled - g.scrolled \in Nat
             /\ d + (h.scrolled - g.scrolled) = d
             /\ Drawn(h, rows, d, z)
             /\ StartOf(h.row) + h.col = p + 1
             /\ \A j \in Places : j # p => h.cells[j] = g.cells[j]
  <2>1. GridOk(h) BY <1>e, <1>3, <1>f, <1>5, <1>7 DEF GridOk
  <2>2. StartOf(h.row) + h.col + StartOf(d) = StartOf(Len(rows)) + Len(z)
    <3>1. h.col \in Int BY <1>c, <1>7
    <3> QED BY SMTT(60), <1>q, <1>v, <1>l, <1>7, <3>1
  <2>3. ASSUME NEW i \in 1 .. Len(z), StartOf(Len(rows)) + i > StartOf(d)
        PROVE  h.cells[StartOf(Len(rows)) + i - 1 - StartOf(d)] = z[i]
    <3>1. StartOf(Len(rows)) + i - 1 - StartOf(d) = n + i - 1 /\ n + i - 1 >= 0
      BY SMTT(60), <1>q, <1>l, <2>3
    <3> QED BY <1>6, <1>7, <3>1
  <2>4. h.scrolled - g.scrolled = 0 /\ d + (h.scrolled - g.scrolled) = d BY <1>e, <1>7
  <2>5. Drawn(h, rows, d, z) BY <1>6, <1>7, <2>2, <2>3 DEF Drawn
  <2> QED BY <1>3, <1>7, <2>1, <2>4, <2>5
<1>8. CASE g.col + 1 < Cols
  <2>1. h.col = g.col + 1 /\ h.row = g.row /\ h.scrolled = g.scrolled /\ h.cells = c
    BY <1>5, <1>8
  <2>2. /\ StartOf(h.row) + h.col = p + 1 /\ StartOf(h.row) \in Int
        /\ h.row \in 0 .. Rows - 1 /\ h.col \in 0 .. Cols - 1
    <3>1. StartOf(h.row) + h.col = p + 1 /\ StartOf(h.row) \in Int BY <1>g, <1>y, <2>1
    <3>2. h.row \in 0 .. Rows - 1 BY <1>o, <2>1
    <3>3. h.col \in 0 .. Cols - 1 BY <1>c, <1>g, <1>8, <2>1
    <3> QED BY <3>1, <3>2, <3>3
  <2>3. d = 0 \/ h.row = Rows - 1 BY <1>d, <2>1
  <2> QED BY <1>7, <2>1, <2>2, <2>3 DEF h, p, z
<1>9. CASE g.col + 1 = Cols /\ g.row + 1 < Rows
  <2>1. h.row = g.row + 1 /\ h.col = 0 /\ h.scrolled = g.scrolled /\ h.cells = c
    BY <1>5, <1>9
  <2>2. /\ StartOf(h.row) + h.col = p + 1 /\ StartOf(h.row) \in Int
        /\ h.row \in 0 .. Rows - 1 /\ h.col \in 0 .. Cols - 1
    <3>1. StartOf(h.row) = StartOf(g.row) + Cols BY <1>x, <2>1
    <3>2. StartOf(h.row) + h.col = p + 1 /\ StartOf(h.row) \in Int
      BY SMTT(60), <1>c, <1>g, <1>y, <1>9, <2>1, <3>1
    <3>3. h.row \in 0 .. Rows - 1 BY <1>o, <1>9, <2>1
    <3>4. h.col \in 0 .. Cols - 1 BY <1>c, <2>1
    <3> QED BY <3>2, <3>3, <3>4
  <2>3. d = 0 \/ h.row = Rows - 1 BY <1>d, <1>o, <1>9
  <2> QED BY <1>7, <2>1, <2>2, <2>3 DEF h, p, z
<1>10. CASE g.col + 1 = Cols /\ g.row = Rows - 1
  <2>1. /\ h.row = g.row /\ h.col = 0 /\ h.scrolled = g.scrolled + 1
        /\ h.cells = [i \in Places |-> IF i + Cols < Total THEN c[i + Cols] ELSE Blank]
    BY <1>5, <1>10
  <2>2. GridOk(h)
    <3>1. /\ h.row \in 0 .. Rows - 1 /\ h.col \in 0 .. Cols - 1 /\ h.scrolled \in Nat
      BY <1>c, <1>o, <1>e, <1>10, <2>1
    <3>2. DOMAIN h.cells = Places /\ Extensional(h.cells) BY <2>1 DEF Extensional
    <3> QED BY <1>5, <3>1, <3>2 DEF GridOk
  <2>3. h.scrolled - g.scrolled = 1 BY <1>e, <2>1
  <2>4. StartOf(h.row) + h.col + StartOf(d + 1) = StartOf(Len(rows)) + Len(z)
    <3>1. StartOf(h.row) = StartOf(g.row) BY <2>1
    <3>2. StartOf(h.row) + h.col + Cols = p + 1 BY <1>c, <1>g, <1>y, <1>10, <2>1, <3>1
    <3>3. StartOf(h.row) \in Int /\ h.col \in Int BY <1>y, <2>1, <3>1
    <3>4. StartOf(h.row) + h.col + StartOf(d + 1) = p + 1 + StartOf(d)
      BY SMTT(60), <1>c, <1>q, <1>w, <1>p, <3>2, <3>3
    <3> QED BY SMTT(60), <1>q, <1>v, <1>l, <3>4
  <2>5. ASSUME NEW j \in Int, j >= 0, j + Cols <= p PROVE h.cells[j] = c[j + Cols]
    <3>1. j \in Places /\ j + Cols < Total BY <1>c, <1>p, <2>5 DEF Places
    <3> QED BY <2>1, <3>1
  <2>6. ASSUME NEW k \in 1 .. Len(rows), NEW i \in 1 .. Len(rows[k]), k > d + 1
        PROVE  h.cells[StartOf(k - 1 - (d + 1)) + i - 1] = rows[k][i]
    <3> DEFINE j == StartOf(k - 1 - (d + 1)) + i - 1
               m == StartOf(k - 1 - d) + i - 1
    <3>1. m \in Int /\ m < n /\ j = m - Cols /\ j >= 0 BY <1>2, <2>6
    <3>2. k > d BY <1>1, <2>6
    <3>3. c[m] = rows[k][i] BY <1>6, <3>2
    <3> HIDE DEF j, m
    <3>4. j \in Int /\ j + Cols = m /\ m <= p BY <1>c, <1>p, <1>v, <1>l, <3>1
    <3>5. h.cells[j] = c[j + Cols] BY <2>5, <3>1, <3>4
    <3> QED BY <3>3, <3>4, <3>5 DEF j
  <2>7. ASSUME NEW i \in 1 .. Len(z), StartOf(Len(rows)) + i > StartOf(d + 1)
        PROVE  h.cells[StartOf(Len(rows)) + i - 1 - StartOf(d + 1)] = z[i]
    <3> DEFINE j == StartOf(Len(rows)) + i - 1 - StartOf(d + 1)
    <3>1. /\ j \in Int /\ j >= 0 /\ j + Cols = n + i - 1 /\ n + i - 1 >= 0 /\ n + i - 1 <= p
      <4>1. i \in Int /\ 1 <= i /\ i <= Len(s) + 1 BY <1>l, <2>7
      <4>2. j \in Int /\ j >= 0 /\ j + Cols = StartOf(Len(rows)) + i - 1 - StartOf(d)
        BY SMTT(60), <1>c, <1>q, <1>w, <2>7, <4>1
      <4>3. n + i - 1 = StartOf(Len(rows)) + i - 1 - StartOf(d) BY SMTT(60), <1>q, <4>1
      <4>4. n + i - 1 <= p BY <1>v, <1>l, <4>1
      <4> HIDE DEF j
      <4>5. n + i - 1 >= 0 BY <1>c, <4>2, <4>3
      <4> QED BY <4>2, <4>3, <4>4, <4>5
    <3> HIDE DEF j
    <3>2. h.cells[j] = c[n + i - 1] BY <2>5, <3>1
    <3>3. c[n + i - 1] = z[i] BY <1>6, <3>1
    <3> QED BY <3>2, <3>3 DEF j
  <2>8. d + 1 = 0 \/ h.row = Rows - 1 BY <1>10, <2>1
  <2>9. Drawn(h, rows, d + 1, z) BY <2>4, <2>6, <2>7, <2>8 DEF Drawn
  <2> QED BY <2>2, <2>3, <2>9 DEF h, p, z
<1>11. g.col + 1 < Cols \/ g.col + 1 = Cols BY <1>c, <1>g
<1>12. g.row + 1 < Rows \/ g.row = Rows - 1 BY <1>o
<1> QED BY <1>8, <1>9, <1>10, <1>11, <1>12

-----------------------------------------------------------------------------
(* A newline: the line becomes rows.                                       *)
LEMMA Division ==
  ASSUME NEW n \in Nat, NEW c \in Nat, c > 0
  PROVE  n \div c \in Nat /\ (n \div c) * c <= n /\ n < (n \div c + 1) * c
<1>1. n \div c \in Int OBVIOUS
<1>2. (n \div c) * c <= n OBVIOUS
<1>3. n < (n \div c) * c + c OBVIOUS
<1>4. n \div c >= 0 OBVIOUS
<1> QED BY <1>1, <1>2, <1>3, <1>4

LEMMA WrapLaid ==
  ASSUME NEW S, NEW s \in Seq(S)
  PROVE  LET w == Len(s) \div Cols + 1
         IN  /\ w \in Nat /\ w >= 1
             /\ StartOf(w - 1) <= Len(s) /\ Len(s) < StartOf(w)
             /\ Wrap(s) \in Seq(Seq(S)) /\ Len(Wrap(s)) = w
             /\ \A k \in 1 .. w :
                  /\ Len(Wrap(s)[k]) \in Nat /\ Len(Wrap(s)[k]) <= Cols
                  /\ \A i \in 1 .. Len(Wrap(s)[k]) :
                       /\ StartOf(k - 1) + i \in 1 .. Len(s)
                       /\ Wrap(s)[k][i] = s[StartOf(k - 1) + i]
<1> DEFINE w == Len(s) \div Cols + 1
<1>1. Cols \in Nat /\ Cols > 0 /\ Len(s) \in Nat BY Starts
<1>2. /\ w \in Nat /\ w >= 1 /\ w - 1 = Len(s) \div Cols
      /\ (Len(s) \div Cols) * Cols <= Len(s) /\ Len(s) < w * Cols
  BY <1>1, Division
<1>3. StartOf(w - 1) <= Len(s) /\ Len(s) < StartOf(w) BY <1>2 DEF StartOf
<1>4. Wrap(s) = [k \in 1 .. w |-> SubSeq(s, (k - 1) * Cols + 1, Least(k * Cols, Len(s)))]
  BY DEF Wrap
<1> HIDE DEF w
<1>5. ASSUME NEW k \in 1 .. w
      PROVE  /\ Wrap(s)[k] \in Seq(S) /\ Len(Wrap(s)[k]) \in Nat /\ Len(Wrap(s)[k]) <= Cols
             /\ \A i \in 1 .. Len(Wrap(s)[k]) :
                  /\ StartOf(k - 1) + i \in 1 .. Len(s)
                  /\ Wrap(s)[k][i] = s[StartOf(k - 1) + i]
  <2> DEFINE a == StartOf(k - 1)
             b == Least(StartOf(k), Len(s))
             r == SubSeq(s, a + 1, b)
  <2>1. k \in Int /\ k - 1 \in Int /\ 1 <= k /\ k <= w /\ w - 1 \in Int /\ (k - 1) + 1 = k
    BY <1>2
  <2>2. a \in Int /\ StartOf(k) \in Int /\ StartOf(k) = a + Cols /\ StartOf(w - 1) \in Int
        /\ StartOf(0) = 0
    BY <2>1, Starts
  <2>3. a <= StartOf(w - 1)
    <3>1. k - 1 = w - 1 \/ k - 1 < w - 1 BY <1>2, <2>1
    <3>2. k - 1 < w - 1 => a + Cols <= StartOf(w - 1) BY <2>1, StartOrder
    <3> QED BY <1>1, <2>2, <3>1, <3>2
  <2>4. a >= 0
    <3>1. k - 1 = 0 \/ 0 < k - 1 BY <2>1
    <3>2. 0 < k - 1 => StartOf(0) + Cols <= a BY <2>1, StartOrder
    <3> QED BY <1>1, <2>2, <3>1, <3>2
  <2>5. Wrap(s)[k] = r BY <1>4 DEF StartOf
  <2> HIDE DEF a
  <2>6. b \in Int /\ a <= b /\ b <= Len(s) /\ b <= a + Cols
    BY <1>1, <1>3, <2>2, <2>3 DEF Least
  <2> HIDE DEF b
  <2>7. /\ r \in Seq(S) /\ Len(r) = b - a
        /\ \A i \in 1 .. b - a : r[i] = s[a + i] /\ a + i \in 1 .. Len(s)
    <3>1. a + 1 \in Int /\ a + 1 >= 1 /\ a + 1 <= b + 1 BY <2>2, <2>4, <2>6
    <3>2. r \in Seq(S) /\ Len(r) = b - (a + 1) + 1
          /\ \A i \in 1 .. b - (a + 1) + 1 : r[i] = s[(a + 1) + i - 1]
      BY <1>1, <2>2, <2>4, <2>6
    <3>3. b - (a + 1) + 1 = b - a BY <2>2, <2>6
    <3>4. \A i \in 1 .. b - a : (a + 1) + i - 1 = a + i /\ a + i \in 1 .. Len(s)
      BY <1>1, <2>2, <2>4, <2>6
    <3> QED BY <3>2, <3>3, <3>4
  <2> HIDE DEF r
  <2>8. Len(r) \in Nat /\ Len(r) <= Cols BY <1>1, <2>2, <2>6, <2>7
  <2> QED BY <2>5, <2>7, <2>8 DEF a
<1>6. Wrap(s) \in Seq(Seq(S)) /\ Len(Wrap(s)) = w
  <2>1. Wrap(s) \in [1 .. w -> Seq(S)] BY <1>4, <1>5
  <2> QED BY <1>2, <2>1
<1> QED BY <1>2, <1>3, <1>5, <1>6 DEF w

(* The line, laid out, continues the rows: the cursor is in its last row.  *)
LEMMA RowsDrawn ==
  ASSUME NEW g, NEW rows, RowsOk(rows), NEW d \in Nat,
         NEW s \in Seq(Ink), Drawn(g, rows, d, s),
         g.row \in 0 .. Rows - 1, g.col \in 0 .. Cols - 1
  PROVE  LET all == rows \o Wrap(s)
         IN  /\ RowsOk(all) /\ Len(all) \in Nat /\ Len(all) = g.row + 1 + d
             /\ Len(all) = Len(rows) + Len(Wrap(s))
             /\ Visible(g, all, d)
<1> DEFINE all == rows \o Wrap(s)
           w == Len(s) \div Cols + 1
<1>1. /\ w \in Nat /\ w >= 1
      /\ StartOf(w - 1) <= Len(s) /\ Len(s) < StartOf(w)
      /\ Wrap(s) \in Seq(Seq(Ink)) /\ Len(Wrap(s)) = w
  BY WrapLaid
<1>2. \A k \in 1 .. w :
        /\ Len(Wrap(s)[k]) \in Nat /\ Len(Wrap(s)[k]) <= Cols
        /\ \A i \in 1 .. Len(Wrap(s)[k]) :
             /\ StartOf(k - 1) + i \in 1 .. Len(s)
             /\ Wrap(s)[k][i] = s[StartOf(k - 1) + i]
  BY ZenonT(60), WrapLaid
<1> HIDE DEF w
<1>3. rows \in Seq(Seq(Ink)) /\ \A k \in 1 .. Len(rows) : Len(rows[k]) <= Cols BY DEF RowsOk
<1>4. Len(rows) \in Nat /\ Len(s) \in Nat /\ Cols \in Nat /\ Cols > 0 /\ Rows \in Nat
  <2>1. Cols \in Nat /\ Cols > 0 /\ Rows \in Nat BY Starts
  <2>2. Len(rows) \in Nat /\ Len(s) \in Nat BY <1>3
  <2> QED BY <2>1, <2>2
<1>5. g.row \in Int /\ g.col \in Int /\ 0 <= g.row /\ 0 <= g.col /\ g.col < Cols
  BY <1>4
<1>6. /\ all \in Seq(Seq(Ink)) /\ Len(all) = Len(rows) + w /\ Len(all) \in Nat
      /\ \A k \in 1 .. Len(rows) : all[k] = rows[k]
      /\ \A k \in 1 .. w : all[Len(rows) + k] = Wrap(s)[k]
  <2> DEFINE W == Wrap(s)
  <2>1. W \in Seq(Seq(Ink)) /\ Len(W) = w BY <1>1
  <2> HIDE DEF W
  <2>2. /\ rows \o W \in Seq(Seq(Ink)) /\ Len(rows \o W) = Len(rows) + Len(W)
        /\ \A k \in 1 .. Len(rows) + Len(W) :
             (rows \o W)[k] = IF k <= Len(rows) THEN rows[k] ELSE W[k - Len(rows)]
    BY <1>3, <2>1, ConcatProperties
  <2>3. \A k \in 1 .. Len(rows) : (rows \o W)[k] = rows[k] BY <1>1, <1>4, <2>1, <2>2
  <2>4. ASSUME NEW k \in 1 .. w PROVE (rows \o W)[Len(rows) + k] = W[k]
    <3> DEFINE x == Len(rows) + k
    <3>1. x \in 1 .. Len(rows) + Len(W) /\ ~(x <= Len(rows)) /\ x - Len(rows) = k
      BY SMTT(60), <1>1, <1>4, <2>1
    <3> HIDE DEF x
    <3> QED BY <2>2, <3>1 DEF x
  <2>5. Len(rows) + w \in Nat BY <1>1, <1>4
  <2> QED BY <2>1, <2>2, <2>3, <2>4, <2>5 DEF W
<1> HIDE DEF all
<1>7. \A k \in 1 .. Len(all) : k \in 1 .. Len(rows) \/ (k - Len(rows) \in 1 .. w /\ k = Len(rows) + (k - Len(rows)))
  BY <1>1, <1>4, <1>6
<1>8. RowsOk(all)
  <2>1. ASSUME NEW k \in 1 .. Len(all) PROVE Len(all[k]) <= Cols
    <3>1. CASE k \in 1 .. Len(rows) BY <1>3, <1>6, <3>1
    <3>2. CASE k - Len(rows) \in 1 .. w /\ k = Len(rows) + (k - Len(rows))
      BY ZenonT(60), <1>2, <1>6, <3>2
    <3> QED BY <1>7, <3>1, <3>2
  <2> QED BY <1>6, <2>1 DEF RowsOk
<1> DEFINE R == StartOf(Len(rows))
           D == StartOf(d)
           Y == StartOf(g.row)
<1>9. R \in Int /\ D \in Int /\ Y \in Int
  <2>1. Len(rows) \in Int /\ d \in Int /\ g.row \in Int BY <1>4, <1>5
  <2> QED BY <2>1, StartInt
<1>10. Y + g.col + D = R + Len(s) BY DEF Drawn
<1>11. Len(all) = g.row + 1 + d
  <2> DEFINE m == g.row + d - Len(rows)
  <2>1. m \in Int /\ m = (g.row + d) - Len(rows) /\ g.row + d \in Int /\ w - 1 \in Int
    BY SMTT(60), <1>1, <1>4, <1>5
  <2>2. StartOf(m) = (Y + D) - R
    <3>0. g.row \in Int /\ d \in Int /\ Len(rows) \in Int BY <1>4, <1>5
    <3>1. StartOf(g.row + d) = StartOf(g.row) + StartOf(d) BY <3>0, StartSum
    <3>2. StartOf((g.row + d) - Len(rows)) = StartOf(g.row + d) - StartOf(Len(rows))
      BY <2>1, <3>0, StartSum
    <3> QED BY <2>1, <3>1, <3>2
  <2>3. StartOf(w) = StartOf(w - 1) + Cols /\ StartOf(w - 1) \in Int
    <3>1. (w - 1) + 1 = w BY <1>1
    <3> QED BY <2>1, <3>1, Starts
  <2> HIDE DEF m, R, D, Y
  <2>4. StartOf(m) <= Len(s) /\ Len(s) < StartOf(m) + Cols
    BY SMTT(60), <1>4, <1>5, <1>9, <1>10, <2>2
  <2>5. m = w - 1
    <3>1. Len(s) \in Int /\ Len(s) < StartOf(w - 1) + Cols /\ StartOf(w - 1) <= Len(s)
      BY <1>1, <1>4, <2>3
    <3> QED BY <2>1, <2>4, <3>1, SameRow
  <2>6. g.row + d - Len(rows) = w - 1 BY <2>5 DEF m
  <2>7. Len(rows) \in Int /\ w \in Int /\ g.row \in Int /\ d \in Int BY <1>1, <1>4, <1>5
  <2>8. Len(rows) + w = g.row + 1 + d BY SMTT(60), <2>6, <2>7
  <2> QED BY <1>6, <2>8
<1>12. ASSUME NEW k \in 1 .. Len(all), NEW i \in 1 .. Len(all[k])
       PROVE  /\ i \in Int
              /\ StartOf(k - 1 - d) + i - 1 \in Int
              /\ StartOf(k - 1 - d) + i - 1 < StartOf(g.row) + g.col
              /\ k > d => /\ StartOf(k - 1 - d) + i - 1 >= 0
                          /\ g.cells[StartOf(k - 1 - d) + i - 1] = all[k][i]
  <2> DEFINE K == StartOf(k - 1)
             j == StartOf(k - 1 - d) + i - 1
  <2>1. k \in Int /\ k - 1 \in Int /\ k - 1 - d \in Int BY <1>6
  <2>2. K \in Int /\ StartOf(k - 1 - d) = K - D
    BY <2>1, Starts, StartSum
  <2>3. all[k] \in Seq(Ink) BY <1>6
  <2>4. i \in Int /\ 1 <= i BY <2>3
  <2>5. k > d => StartOf(k - 1 - d) >= 0
    <3>1. k > d => k - 1 - d = 0 \/ 0 < k - 1 - d BY <2>1
    <3>2. 0 < k - 1 - d => StartOf(0) + Cols <= StartOf(k - 1 - d) BY <2>1, StartOrder
    <3>3. StartOf(0) = 0 /\ StartOf(k - 1 - d) \in Int BY <2>1, Starts
    <3> QED BY SMTT(60), <1>4, <3>1, <3>2, <3>3
  <2>6. j \in Int /\ j = K - D + i - 1 BY SMTT(60), <1>9, <2>2, <2>4
  <2>7. k > d => j >= 0
    <3>1. StartOf(k - 1 - d) \in Int BY <1>9, <2>2
    <3> QED BY <2>4, <2>5, <3>1
  <2>8. CASE k \in 1 .. Len(rows)
    <3>1. i \in 1 .. Len(rows[k]) /\ all[k] = rows[k] BY <1>6, <2>8
    <3>2. i <= Cols
      <4>1. Len(rows[k]) \in Nat /\ Len(rows[k]) <= Cols BY SMTT(60), <1>3, <2>8
      <4> QED BY <1>4, <3>1, <4>1
    <3>3. K + Cols <= R
      <4>1. k - 1 < Len(rows) BY <1>4, <2>8
      <4> QED BY <1>4, <2>1, <4>1, StartOrder
    <3>4. k > d => g.cells[j] = rows[k][i] BY <2>8, <3>1 DEF Drawn
    <3> HIDE DEF K, R, D, Y
    <3>5. K - D + i - 1 < Y + g.col BY SMTT(60), <1>4, <1>5, <1>9, <1>10, <2>2, <2>4, <3>2, <3>3
    <3> HIDE DEF j
    <3>6. j < Y + g.col BY <2>6, <3>5
    <3> QED BY <2>4, <2>6, <2>7, <3>1, <3>4, <3>6 DEF j, Y
  <2>9. CASE k - Len(rows) \in 1 .. w /\ k = Len(rows) + (k - Len(rows))
    <3> DEFINE n == k - Len(rows)
               q == StartOf(n - 1) + i
    <3>1. n \in 1 .. w /\ n \in Int /\ n - 1 \in Int /\ all[k] = Wrap(s)[n] /\ k - 1 = Len(rows) + (n - 1)
      <4>1. n \in 1 .. w /\ k = Len(rows) + n BY <2>9
      <4>2. all[Len(rows) + n] = Wrap(s)[n] BY <1>6, <4>1
      <4> HIDE DEF n
      <4>3. n \in Int /\ n - 1 \in Int BY <1>1, <4>1
      <4>4. k - 1 = Len(rows) + (n - 1) BY <1>4, <4>1, <4>3
      <4> QED BY <4>1, <4>2, <4>3, <4>4
    <3>2. q \in 1 .. Len(s) /\ all[k][i] = s[q]
      <4>1. i \in 1 .. Len(Wrap(s)[n]) BY <3>1
      <4> HIDE DEF n
      <4> QED BY <1>2, <3>1, <4>1
    <3>3. K = R + StartOf(n - 1) /\ StartOf(n - 1) \in Int
      BY SMTT(60), <1>4, <3>1, Starts, StartSum
    <3>4. q \in Int /\ 1 <= q /\ q <= Len(s) BY <1>4, <3>2
    <3>5. R + q - 1 - D = j
      <4> HIDE DEF R, D, K, j
      <4> QED BY SMTT(60), <1>9, <2>4, <2>6, <3>3
    <3> HIDE DEF n, q
    <3>6. k > d => g.cells[j] = s[q]
      <4>1. R + q > D => g.cells[R + q - 1 - D] = s[q] BY <3>2 DEF Drawn
      <4>2. k > d => R + q > D
        <5> HIDE DEF R, D, K, j
        <5> QED BY <1>9, <2>6, <2>7, <3>4, <3>5
      <4> QED BY <3>5, <4>1, <4>2
    <3>7. j < Y + g.col
      <4> HIDE DEF R, D, K, j, Y
      <4> QED BY SMTT(60), <1>4, <1>5, <1>9, <1>10, <2>6, <3>4, <3>5
    <3> QED BY <2>4, <2>6, <2>7, <3>2, <3>6, <3>7 DEF j, Y
  <2> QED BY <1>7, <2>8, <2>9
<1>13. Visible(g, all, d) BY <1>12 DEF Visible
<1> QED BY <1>1, <1>6, <1>8, <1>11, <1>13 DEF all


LEMMA NewlineDrawn ==
  ASSUME NEW g, GridOk(g), NEW rows, RowsOk(rows), NEW d \in Nat,
         NEW s \in Seq(Ink), Drawn(g, rows, d, s)
  PROVE  LET h == Linefeed(g)
             e == h.scrolled - g.scrolled
         IN  /\ GridOk(h) /\ e \in Nat
             /\ RowsOk(rows \o Wrap(s))
             /\ Drawn(h, rows \o Wrap(s), d + e, <<>>)
<1> DEFINE h == Linefeed(g)
           all == rows \o Wrap(s)
           p == StartOf(g.row) + g.col
<1>1. /\ g.row \in 0 .. Rows - 1 /\ g.col \in 0 .. Cols - 1 /\ g.scrolled \in Nat
      /\ DOMAIN g = {"cells", "row", "col", "scrolled"} /\ DOMAIN g.cells = Places
      /\ Extensional(g.cells)
  BY DEF GridOk
<1>2. Cols \in Nat /\ Cols > 0 /\ Rows \in Nat /\ Rows > 0 BY Starts
<1>3. g.row \in Int /\ 0 <= g.row /\ g.row < Rows BY <1>1, <1>2
<1>4. RowsOk(all) /\ Len(all) \in Nat /\ Len(all) = g.row + 1 + d /\ Visible(g, all, d)
  BY <1>1, RowsDrawn
<1>5. \A k \in 1 .. Len(all) : \A i \in 1 .. Len(all[k]) :
        /\ i \in Int
        /\ StartOf(k - 1 - d) + i - 1 \in Int
        /\ StartOf(k - 1 - d) + i - 1 < p
        /\ k > d => /\ StartOf(k - 1 - d) + i - 1 >= 0
                    /\ g.cells[StartOf(k - 1 - d) + i - 1] = all[k][i]
  BY <1>4 DEF Visible
<1>6. /\ DOMAIN h = {"cells", "row", "col", "scrolled"} /\ h.col = 0
      /\ g.row + 1 < Rows =>
           h.row = g.row + 1 /\ h.scrolled = g.scrolled /\ h.cells = g.cells
      /\ g.row = Rows - 1 =>
           /\ h.row = g.row /\ h.scrolled = g.scrolled + 1
           /\ h.cells = [i \in Places |-> IF i + Cols < Total THEN g.cells[i + Cols] ELSE Blank]
  BY <1>1, LinefeedIs
<1>7. d = 0 \/ g.row = Rows - 1 BY DEF Drawn
<1>8. p \in Places BY <1>1, CursorInside
<1>9. Len(<<>>) = 0 OBVIOUS
<1> HIDE DEF h, all, p
<1>10. CASE g.row + 1 < Rows
  <2>1. h.row = g.row + 1 /\ h.scrolled = g.scrolled /\ h.cells = g.cells BY <1>6, <1>10
  <2>2. d = 0 BY <1>2, <1>3, <1>7, <1>10
  <2>3. h.scrolled - g.scrolled = 0 /\ d + (h.scrolled - g.scrolled) = d BY <1>1, <2>1
  <2>4. GridOk(h)
    <3>1. h.row \in 0 .. Rows - 1 /\ h.col \in 0 .. Cols - 1
      BY <1>2, <1>3, <1>6, <1>10, <2>1
    <3> QED BY <1>1, <1>6, <2>1, <3>1 DEF GridOk
  <2>5. StartOf(h.row) + h.col + StartOf(d) = StartOf(Len(all)) + Len(<<>>)
    <3>1. Len(all) = h.row BY <1>3, <1>4, <2>1, <2>2
    <3>2. StartOf(h.row) \in Int /\ StartOf(0) = 0
      <4>1. h.row \in Int BY <1>3, <2>1
      <4> QED BY <4>1, Starts
    <3> QED BY <1>6, <1>9, <2>2, <3>1, <3>2
  <2>6. Drawn(h, all, d, <<>>) BY <1>5, <1>9, <2>1, <2>2, <2>5 DEF Drawn
  <2> QED BY <1>4, <2>3, <2>4, <2>6 DEF h, all
<1>11. CASE g.row = Rows - 1
  <2>1. /\ h.row = g.row /\ h.scrolled = g.scrolled + 1
        /\ h.cells = [i \in Places |-> IF i + Cols < Total THEN g.cells[i + Cols] ELSE Blank]
    BY <1>6, <1>11
  <2>2. h.scrolled - g.scrolled = 1 BY <1>1, <2>1
  <2>3. GridOk(h)
    <3>1. h.row \in 0 .. Rows - 1 /\ h.col \in 0 .. Cols - 1 /\ h.scrolled \in Nat
      BY SMTT(60), <1>1, <1>2, <1>6, <2>1
    <3>2. DOMAIN h.cells = Places /\ Extensional(h.cells) BY <2>1 DEF Extensional
    <3> QED BY <1>6, <3>1, <3>2 DEF GridOk
  <2>4. StartOf(h.row) + h.col + StartOf(d + 1) = StartOf(Len(all)) + Len(<<>>)
    <3>1. Len(all) = g.row + (d + 1) /\ d + 1 \in Int BY SMTT(60), <1>3, <1>4
    <3>2. StartOf(g.row + (d + 1)) = StartOf(g.row) + StartOf(d + 1) BY <1>3, <3>1, StartSum
    <3>3. StartOf(g.row) \in Int /\ StartOf(d + 1) \in Int BY <1>3, <3>1, StartInt
    <3> QED BY <1>6, <1>9, <2>1, <3>1, <3>2, <3>3
  <2>5. ASSUME NEW k \in 1 .. Len(all), NEW i \in 1 .. Len(all[k]), k > d + 1
        PROVE  h.cells[StartOf(k - 1 - (d + 1)) + i - 1] = all[k][i]
    <3> DEFINE j == StartOf(k - 1 - (d + 1)) + i - 1
               m == StartOf(k - 1 - d) + i - 1
    <3>1. k \in Int /\ k > d BY <1>4, <2>5
    <3>2. i \in Int /\ 1 <= i /\ m \in Int /\ m < p /\ m >= 0 /\ g.cells[m] = all[k][i]
      <4>1. i \in Int /\ m \in Int /\ m < p /\ m >= 0 /\ g.cells[m] = all[k][i] BY <1>5, <3>1
      <4>2. 1 <= i
        <5>1. all[k] \in Seq(Ink) BY <1>4 DEF RowsOk
        <5> QED BY <5>1
      <4> QED BY <4>1, <4>2
    <3> DEFINE u == StartOf(k - 1 - d)
               v == StartOf(k - 1 - (d + 1))
    <3>3. u \in Int /\ v = u - Cols /\ v >= 0
      <4>1. k - 1 - d \in Int /\ k - 1 - (d + 1) \in Int /\ k - 1 - (d + 1) = (k - 1 - d) - 1
        BY <3>1
      <4>2. u \in Int /\ v \in Int /\ v = u - Cols /\ StartOf(0) = 0 BY <4>1, Starts
      <4>3. k - 1 - (d + 1) = 0 \/ 0 < k - 1 - (d + 1) BY <2>5, <3>1
      <4>4. 0 < k - 1 - (d + 1) => StartOf(0) + Cols <= v BY <4>1, StartOrder
      <4> QED BY <1>2, <4>2, <4>3, <4>4
    <3>4. j = v + i - 1 /\ m = u + i - 1 OBVIOUS
    <3> HIDE DEF j, m, u, v
    <3>5. j \in Int /\ j >= 0 /\ j + Cols = m BY <1>2, <3>2, <3>3, <3>4
    <3>6. p \in Int /\ p < Total /\ Total \in Int
      <4>1. Total \in Int BY <1>2, Starts
      <4> QED BY <1>8, <4>1 DEF Places
    <3>7. j \in Places /\ j + Cols < Total BY <1>2, <3>2, <3>5, <3>6 DEF Places
    <3>8. h.cells[j] = g.cells[j + Cols] BY <2>1, <3>7
    <3> QED BY <3>2, <3>5, <3>8 DEF j
  <2>6. d + 1 = 0 \/ h.row = Rows - 1 BY <1>11, <2>1
  <2>7. Drawn(h, all, d + 1, <<>>) BY <1>9, <2>4, <2>5, <2>6 DEF Drawn
  <2> QED BY <1>4, <2>2, <2>3, <2>7 DEF h, all
<1>12. g.row + 1 < Rows \/ g.row = Rows - 1 BY <1>2, <1>3
<1> QED BY <1>10, <1>11, <1>12
-----------------------------------------------------------------------------
(* Induction in set form: the library's induction theorems take an         *)
(* operator.                                                               *)
LEMMA SetInduction ==
  ASSUME NEW T, 0 \in T, \A n \in Nat : n \in T => n + 1 \in T
  PROVE  Nat \subseteq T
<1> DEFINE R == OpToRel(<, Nat)
           U == Nat \ T
<1>1. IsWellFoundedOn(R, Nat) BY NatLessThanWellFounded
<1>2. R = {p \in Nat \X Nat : p[1] < p[2]} BY DEF OpToRel
<1>3. \A x, y \in Nat : x < y => <<x, y>> \in R BY DEF OpToRel
<1> HIDE DEF R
<1>4. SUFFICES ASSUME U # {} PROVE FALSE OBVIOUS
<1>5. U \subseteq Nat OBVIOUS
<1> HIDE DEF U
<1>6. PICK x \in U : \A y \in U : <<y, x>> \notin R BY <1>1, <1>4, <1>5, WFMin
<1>7. x \in Nat /\ x \notin T BY DEF U
<1>8. x # 0 BY <1>7
<1>9. x - 1 \in Nat /\ x - 1 < x /\ (x - 1) + 1 = x BY <1>7, <1>8
<1>10. x - 1 \notin U BY <1>3, <1>6, <1>7, <1>9
<1> QED BY <1>7, <1>9, <1>10 DEF U

(* f is what the first n characters of s make of the grid g: the function  *)
(* PutAll chooses.                                                         *)
Written(f, g, s, n) == f = [i \in 0 .. n |-> IF i = 0 THEN g ELSE Put(f[i - 1], s[i])]

LEMMA PutAllIsChoose ==
  ASSUME NEW g, NEW s
  PROVE  PutAll(g, s) = (CHOOSE f : Written(f, g, s, Len(s)))[Len(s)]
BY DEF PutAll, Written

LEMMA WrittenExists ==
  ASSUME NEW g, NEW s
  PROVE  \A n \in Nat : \E f : Written(f, g, s, n)
<1> DEFINE T == {n \in Nat : \E f : Written(f, g, s, n)}
<1>1. 0 \in T
  <2>1. Written([i \in 0 .. 0 |-> g], g, s, 0) BY DEF Written
  <2> QED BY <2>1
<1>2. ASSUME NEW n \in Nat, n \in T PROVE n + 1 \in T
  <2>1. PICK f : Written(f, g, s, n) BY <1>2
  <2> DEFINE e == [i \in 0 .. n + 1 |-> IF i = n + 1 THEN Put(f[n], s[n + 1]) ELSE f[i]]
  <2>2. \A i \in 0 .. n : e[i] = f[i] OBVIOUS
  <2>3. \A i \in 0 .. n + 1 : e[i] = IF i = 0 THEN g ELSE Put(e[i - 1], s[i])
    <3>1. ASSUME NEW i \in 0 .. n PROVE e[i] = IF i = 0 THEN g ELSE Put(e[i - 1], s[i])
      <4>1. f[i] = IF i = 0 THEN g ELSE Put(f[i - 1], s[i]) BY <2>1 DEF Written
      <4>2. i # 0 => i - 1 \in 0 .. n OBVIOUS
      <4> HIDE DEF e
      <4> QED BY <2>2, <4>1, <4>2
    <3>2. e[n + 1] = Put(e[n], s[n + 1]) /\ n + 1 # 0 /\ (n + 1) - 1 = n BY <2>2
    <3>3. \A i \in 0 .. n + 1 : i = n + 1 \/ i \in 0 .. n OBVIOUS
    <3> HIDE DEF e
    <3> QED BY <3>1, <3>2, <3>3
  <2>4. e = [i \in 0 .. n + 1 |-> e[i]] OBVIOUS
  <2> HIDE DEF e
  <2>5. Written(e, g, s, n + 1) BY <2>3, <2>4 DEF Written
  <2> QED BY <2>5
<1> HIDE DEF T
<1>3. Nat \subseteq T BY <1>1, <1>2, SetInduction
<1> QED BY <1>3 DEF T

(* What the run is made of.                                                *)
LEMMA PutAllRun ==
  ASSUME NEW g, NEW s, Len(s) \in Nat
  PROVE  \E f : Written(f, g, s, Len(s)) /\ PutAll(g, s) = f[Len(s)]
<1> DEFINE f == CHOOSE f : Written(f, g, s, Len(s))
<1>1. Written(f, g, s, Len(s)) BY WrittenExists
<1>2. PutAll(g, s) = f[Len(s)] BY PutAllIsChoose
<1> QED BY <1>1, <1>2

LEMMA WrittenIs ==
  ASSUME NEW f, NEW g, NEW s, Len(s) \in Nat, Written(f, g, s, Len(s))
  PROVE  /\ f[0] = g
         /\ \A i \in 1 .. Len(s) : f[i] = Put(f[i - 1], s[i])
<1>1. f[0] = g BY DEF Written
<1>2. \A i \in 1 .. Len(s) : f[i] = Put(f[i - 1], s[i]) BY DEF Written
<1> QED BY <1>1, <1>2


(* h is g after n characters, and z the line that they belong to.  As long *)
(* as nothing scrolls, only their cells have changed.                      *)
Wrote(g, h, rows, d, z, n) ==
  /\ GridOk(h) /\ h.scrolled - g.scrolled \in Nat
  /\ Drawn(h, rows, d + (h.scrolled - g.scrolled), z)
  /\ h.scrolled = g.scrolled =>
       /\ StartOf(h.row) + h.col = StartOf(g.row) + g.col + n
       /\ \A j \in Places :
            j < StartOf(g.row) + g.col \/ j >= StartOf(g.row) + g.col + n
              => h.cells[j] = g.cells[j]

LEMMA WroteNothing ==
  ASSUME NEW g, GridOk(g), NEW rows, NEW d \in Nat, NEW z, Drawn(g, rows, d, z)
  PROVE  Wrote(g, g, rows, d, z, 0)
<1>1. g.scrolled \in Nat /\ g.row \in Int /\ g.col \in Int
  <2>1. Cols \in Nat /\ Rows \in Nat BY Starts
  <2> QED BY <2>1 DEF GridOk
<1>2. StartOf(g.row) \in Int BY <1>1, StartInt
<1>3. g.scrolled - g.scrolled = 0 /\ d + (g.scrolled - g.scrolled) = d BY <1>1
<1>4. StartOf(g.row) + g.col = StartOf(g.row) + g.col + 0 BY <1>1, <1>2
<1> QED BY <1>3, <1>4 DEF Wrote

LEMMA WroteMore ==
  ASSUME NEW g, GridOk(g), NEW h, NEW rows, RowsOk(rows), NEW d \in Nat,
         NEW z \in Seq(Ink), NEW n \in Nat, Wrote(g, h, rows, d, z, n), NEW x \in Ink
  PROVE  Wrote(g, PutGlyph(h, x), rows, d, Append(z, x), n + 1)
<1> DEFINE k == PutGlyph(h, x)
           e == h.scrolled - g.scrolled
           p == StartOf(g.row) + g.col
           q == StartOf(h.row) + h.col
<1>1. GridOk(h) /\ e \in Nat /\ Drawn(h, rows, d + e, z) BY DEF Wrote
<1>2. d + e \in Nat BY <1>1
<1>3. /\ GridOk(k) /\ k.scrolled - h.scrolled \in Nat
      /\ Drawn(k, rows, (d + e) + (k.scrolled - h.scrolled), Append(z, x))
      /\ k.scrolled - h.scrolled = 0 =>
           /\ StartOf(k.row) + k.col = StartOf(h.row) + h.col + 1
           /\ \A j \in Places : j # StartOf(h.row) + h.col => k.cells[j] = h.cells[j]
  BY <1>1, <1>2, GlyphDrawn
<1>4. h.scrolled = g.scrolled =>
        /\ q = p + n
        /\ \A j \in Places : j < p \/ j >= p + n => h.cells[j] = g.cells[j]
  BY DEF Wrote
<1>5. g.scrolled \in Nat /\ h.scrolled \in Nat /\ k.scrolled \in Nat BY <1>1, <1>3 DEF GridOk
<1>6. p \in Int
  <2>1. Cols \in Nat /\ Rows \in Nat BY Starts
  <2>2. g.row \in Int /\ g.col \in Int BY <2>1 DEF GridOk
  <2>3. StartOf(g.row) \in Int BY <2>2, StartInt
  <2> QED BY <2>2, <2>3
<1> HIDE DEF k
<1>7. /\ k.scrolled - g.scrolled \in Nat
      /\ (d + e) + (k.scrolled - h.scrolled) = d + (k.scrolled - g.scrolled)
      /\ k.scrolled = g.scrolled => h.scrolled = g.scrolled /\ k.scrolled - h.scrolled = 0
  BY SMTT(60), <1>1, <1>3, <1>5
<1>8. Drawn(k, rows, d + (k.scrolled - g.scrolled), Append(z, x)) BY <1>3, <1>7
<1>9. ASSUME k.scrolled = g.scrolled
      PROVE  /\ StartOf(k.row) + k.col = p + (n + 1)
             /\ \A j \in Places : j < p \/ j >= p + (n + 1) => k.cells[j] = g.cells[j]
  <2>1. /\ StartOf(k.row) + k.col = q + 1 /\ q = p + n
        /\ \A j \in Places : j # q => k.cells[j] = h.cells[j]
        /\ \A j \in Places : j < p \/ j >= p + n => h.cells[j] = g.cells[j]
    BY <1>3, <1>4, <1>7, <1>9
  <2> HIDE DEF p, q
  <2>2. \A j \in Places : j \in Int
    <3>1. Total \in Int
      <4>1. Rows \in Int BY Starts
      <4> QED BY <4>1, Starts
    <3> QED BY <3>1 DEF Places
  <2>3. ASSUME NEW j \in Places, j < p \/ j >= p + (n + 1) PROVE k.cells[j] = g.cells[j]
    <3>1. j # q /\ (j < p \/ j >= p + n) BY <1>6, <2>1, <2>2, <2>3
    <3> QED BY <2>1, <3>1
  <2>4. StartOf(k.row) + k.col = p + (n + 1) BY <1>6, <2>1
  <2> QED BY <2>3, <2>4
<1> QED BY <1>3, <1>7, <1>8, <1>9 DEF Wrote, k

LEMMA TextDrawn ==
  ASSUME NEW g, GridOk(g), NEW rows, RowsOk(rows), NEW d \in Nat,
         NEW s \in Seq(Ink), NEW t \in Seq(Ink), Plain(t), Drawn(g, rows, d, s)
  PROVE  Wrote(g, PutAll(g, t), rows, d, s \o t, Len(t))
<1>0. Len(t) \in Nat OBVIOUS
<1>8. PICK f : Written(f, g, t, Len(t)) /\ PutAll(g, t) = f[Len(t)]
  BY <1>0, PutAllRun
<1>1. /\ f[0] = g /\ PutAll(g, t) = f[Len(t)]
      /\ \A i \in 1 .. Len(t) : f[i] = Put(f[i - 1], t[i])
  BY <1>0, <1>8, WrittenIs
<1> DEFINE z(i) == s \o SubSeq(t, 1, i)
           T == {i \in Nat : i <= Len(t) => Wrote(g, f[i], rows, d, z(i), i)}
<1>2. 0 \in T
  <2>1. z(0) = s OBVIOUS
  <2> HIDE DEF z
  <2>2. Wrote(g, f[0], rows, d, z(0), 0) BY <1>1, <2>1, WroteNothing
  <2> QED BY <2>2
<1>3. ASSUME NEW i \in Nat, i \in T PROVE i + 1 \in T
  <2> SUFFICES ASSUME i + 1 <= Len(t) PROVE Wrote(g, f[i + 1], rows, d, z(i + 1), i + 1)
    OBVIOUS
  <2>1. i \in 0 .. Len(t) /\ i + 1 \in 1 .. Len(t) /\ (i + 1) - 1 = i BY <1>0
  <2>2. Wrote(g, f[i], rows, d, z(i), i) BY <1>3, <2>1
  <2>3. z(i) \in Seq(Ink) /\ t[i + 1] \in Ink
    <3>1. SubSeq(t, 1, i) \in Seq(Ink) BY <2>1
    <3> QED BY <2>1, <3>1
  <2>4. z(i + 1) = Append(z(i), t[i + 1])
    <3>1. SubSeq(t, 1, i + 1) = Append(SubSeq(t, 1, i), t[i + 1]) BY <2>1
    <3>2. SubSeq(t, 1, i) \in Seq(Ink) BY <2>1
    <3> DEFINE r == SubSeq(t, 1, i)
               x == t[i + 1]
    <3> HIDE DEF r, x
    <3>3. r \in Seq(Ink) /\ x \in Ink => s \o Append(r, x) = Append(s \o r, x) BY SMTT(60)
    <3> QED BY <2>3, <3>1, <3>2, <3>3 DEF r, x
  <2> HIDE DEF z
  <2>5. f[i + 1] = PutGlyph(f[i], t[i + 1])
    <3>1. t[i + 1] \notin {Newline, Return, Tab} BY <2>1 DEF Plain
    <3>2. f[i + 1] = Put(f[i], t[i + 1]) BY <1>1, <2>1
    <3> QED BY <3>1, <3>2, PutIs
  <2> QED BY <2>2, <2>3, <2>4, <2>5, WroteMore
<1> HIDE DEF T
<1>4. Nat \subseteq T BY <1>2, <1>3, SetInduction
<1>5. Len(t) <= Len(t) /\ SubSeq(t, 1, Len(t)) = t BY <1>0
<1>6. Wrote(g, f[Len(t)], rows, d, z(Len(t)), Len(t)) BY <1>0, <1>4, <1>5 DEF T
<1> QED BY <1>1, <1>5, <1>6

-----------------------------------------------------------------------------
(* The Console: its fields, and what a method leaves alone.                *)
Fields == {"cells", "row", "col", "edit_row", "edit_col", "edited_cells"}

ConOk(c) ==
  /\ DOMAIN c = Fields /\ DOMAIN c.cells = Places /\ Extensional(c.cells)
  /\ c.row \in 0 .. Rows - 1 /\ c.col \in 0 .. Cols - 1

(* The console shows the rows and the line, as far as they have not        *)
(* scrolled off.                                                           *)
Holds(c, rows, s) ==
  ConOk(c) /\ RowsOk(rows) /\ \E d \in Nat : Drawn(c, rows, d, s)

LEMMA GridIs ==
  ASSUME NEW cells, DOMAIN cells = Places, Extensional(cells), NEW row \in 0 .. Rows - 1, NEW col \in 0 .. Cols - 1
  PROVE  LET g == Grid(cells, row, col)
         IN  /\ GridOk(g) /\ g.scrolled = 0
             /\ g.cells = cells /\ g.row = row /\ g.col = col
<1> DEFINE g == Grid(cells, row, col)
<1>1. Rows \in Nat /\ Cols \in Nat /\ Rows > 0 /\ Cols > 0 BY Starts
<1>2. Least(row, Rows - 1) = row /\ Least(col, Cols - 1) = col BY <1>1 DEF Least
<1>3. g = [cells |-> cells, row |-> row, col |-> col, scrolled |-> 0] BY <1>2 DEF Grid
<1>4. DOMAIN g = {"cells", "row", "col", "scrolled"} BY <1>3
<1>5. g.scrolled = 0 /\ g.cells = cells /\ g.row = row /\ g.col = col BY <1>3
<1> QED BY <1>4, <1>5 DEF GridOk

LEMMA SameDrawn ==
  ASSUME NEW g, NEW h, g.cells = h.cells, g.row = h.row, g.col = h.col,
         NEW rows, NEW d, NEW s, Drawn(g, rows, d, s)
  PROVE  Drawn(h, rows, d, s)
BY DEF Drawn

LEMMA PutTextIs ==
  ASSUME NEW c, ConOk(c), NEW s
  PROVE  LET p == PutText(c, s)
             h == PutAll(Grid(c.cells, c.row, c.col), s)
         IN  /\ DOMAIN p = Fields
             /\ p.cells = h.cells /\ p.row = h.row /\ p.col = h.col
             /\ p.edit_row = c.edit_row /\ p.edit_col = c.edit_col
             /\ p.edited_cells = c.edited_cells
<1> DEFINE h == PutAll(Grid(c.cells, c.row, c.col), s)
<1>1. PutText(c, s) = [c EXCEPT !.cells = h.cells, !.row = h.row, !.col = h.col]
  BY DEF PutText
<1> HIDE DEF h
<1>2. DOMAIN c = Fields BY DEF ConOk
<1> QED BY <1>1, <1>2 DEF h, Fields

LEMMA TextHeld ==
  ASSUME NEW c, NEW rows, NEW s \in Seq(Ink), Holds(c, rows, s), NEW t \in Seq(Ink), Plain(t)
  PROVE  Holds(PutText(c, t), rows, s \o t)
<1> DEFINE g == Grid(c.cells, c.row, c.col)
           h == PutAll(g, t)
           p == PutText(c, t)
<1>1. ConOk(c) /\ RowsOk(rows) BY DEF Holds
<1>2. PICK d \in Nat : Drawn(c, rows, d, s) BY DEF Holds
<1>3. GridOk(g) /\ g.scrolled = 0 /\ g.cells = c.cells /\ g.row = c.row /\ g.col = c.col
  BY <1>1, GridIs DEF ConOk
<1>4. DOMAIN p = Fields /\ p.cells = h.cells /\ p.row = h.row /\ p.col = h.col
  BY <1>1, PutTextIs
<1> HIDE DEF g, p
<1>5. Drawn(g, rows, d, s) BY <1>2, <1>3, SameDrawn
<1>6. Wrote(g, h, rows, d, s \o t, Len(t)) BY <1>1, <1>3, <1>5, TextDrawn
<1> HIDE DEF h
<1>7. GridOk(h) /\ h.scrolled - g.scrolled \in Nat
      /\ Drawn(h, rows, d + (h.scrolled - g.scrolled), s \o t)
  BY <1>6 DEF Wrote
<1>8. d + (h.scrolled - g.scrolled) \in Nat BY <1>7
<1>9. Drawn(p, rows, d + (h.scrolled - g.scrolled), s \o t) BY <1>4, <1>7, SameDrawn
<1>10. ConOk(p) BY <1>4, <1>7 DEF ConOk, GridOk
<1> QED BY <1>1, <1>8, <1>9, <1>10 DEF Holds, p

LEMMA PutNewline == \A g : PutAll(g, <<Newline>>) = Linefeed(g)
<1> TAKE g
<1> DEFINE s == <<Newline>>
<1>1. Len(s) = 1 /\ s[1] = Newline /\ Len(s) \in Nat OBVIOUS
<1> HIDE DEF s
<1> DEFINE f == CHOOSE f : Written(f, g, s, Len(s))
<1>2. Written(f, g, s, Len(s)) /\ PutAll(g, s) = f[Len(s)]
  BY <1>1, WrittenExists, PutAllIsChoose
<1> HIDE DEF f
<1>3. f[0] = g /\ f[1] = Put(f[0], s[1]) BY <1>1, <1>2 DEF Written
<1>4. PutAll(g, s) = Linefeed(g) BY <1>1, <1>2, <1>3, PutIs
<1> QED BY <1>4 DEF s

LEMMA NewlineHeld ==
  ASSUME NEW c, NEW rows, NEW s \in Seq(Ink), Holds(c, rows, s)
  PROVE  Holds(PutText(c, <<Newline>>), rows \o Wrap(s), <<>>)
<1> DEFINE g == Grid(c.cells, c.row, c.col)
           h == PutAll(g, <<Newline>>)
           p == PutText(c, <<Newline>>)
           all == rows \o Wrap(s)
<1>1. ConOk(c) /\ RowsOk(rows) BY DEF Holds
<1>2. PICK d \in Nat : Drawn(c, rows, d, s) BY DEF Holds
<1>3. GridOk(g) /\ g.scrolled = 0 /\ g.cells = c.cells /\ g.row = c.row /\ g.col = c.col
  BY <1>1, GridIs DEF ConOk
<1>4. DOMAIN p = Fields /\ p.cells = h.cells /\ p.row = h.row /\ p.col = h.col
  BY <1>1, PutTextIs
<1> HIDE DEF g, p
<1>5. Drawn(g, rows, d, s) BY <1>2, <1>3, SameDrawn
<1>6. h = Linefeed(g) BY PutNewline
<1>7. /\ GridOk(Linefeed(g)) /\ Linefeed(g).scrolled - g.scrolled \in Nat /\ RowsOk(all)
      /\ Drawn(Linefeed(g), all, d + (Linefeed(g).scrolled - g.scrolled), <<>>)
  BY <1>1, <1>3, <1>5, NewlineDrawn
<1> HIDE DEF h, all
<1>8. d + (h.scrolled - g.scrolled) \in Nat BY <1>6, <1>7
<1>9. Drawn(p, all, d + (h.scrolled - g.scrolled), <<>>) BY <1>4, <1>6, <1>7, SameDrawn
<1>10. ConOk(p) BY <1>4, <1>6, <1>7 DEF ConOk, GridOk
<1> QED BY <1>7, <1>8, <1>9, <1>10 DEF Holds, p, all

LEMMA PrintlnHeld ==
  ASSUME NEW c, NEW rows, NEW s \in Seq(Ink), Holds(c, rows, s), NEW t \in Seq(Ink), Plain(t)
  PROVE  Holds(Println(c, t), rows \o Wrap(s \o t), <<>>)
<1>1. Holds(PutText(c, t), rows, s \o t) BY TextHeld
<1>2. s \o t \in Seq(Ink) OBVIOUS
<1> QED BY <1>1, <1>2, NewlineHeld DEF Println

(* Several lines: the two recursive functions, step by step.               *)
Printing(f, c, lines, n) ==
  f = [i \in 0 .. n |-> IF i = 0 THEN c ELSE Println(f[i - 1], lines[i])]
Laying(f, rows, lines, n) ==
  f = [i \in 0 .. n |-> IF i = 0 THEN rows ELSE f[i - 1] \o Wrap(lines[i])]

LEMMA PrintingExists ==
  ASSUME NEW c, NEW lines
  PROVE  \A n \in Nat : \E f : Printing(f, c, lines, n)
<1> DEFINE T == {n \in Nat : \E f : Printing(f, c, lines, n)}
<1>1. 0 \in T
  <2>1. Printing([i \in 0 .. 0 |-> c], c, lines, 0) BY DEF Printing
  <2> QED BY <2>1
<1>2. ASSUME NEW n \in Nat, n \in T PROVE n + 1 \in T
  <2>1. PICK f : Printing(f, c, lines, n) BY <1>2
  <2> DEFINE e == [i \in 0 .. n + 1 |-> IF i = n + 1 THEN Println(f[n], lines[n + 1]) ELSE f[i]]
  <2>2. \A i \in 0 .. n : e[i] = f[i] OBVIOUS
  <2>3. \A i \in 0 .. n + 1 : e[i] = IF i = 0 THEN c ELSE Println(e[i - 1], lines[i])
    <3>1. ASSUME NEW i \in 0 .. n PROVE e[i] = IF i = 0 THEN c ELSE Println(e[i - 1], lines[i])
      <4>1. f[i] = IF i = 0 THEN c ELSE Println(f[i - 1], lines[i]) BY <2>1 DEF Printing
      <4>2. i # 0 => i - 1 \in 0 .. n OBVIOUS
      <4> HIDE DEF e
      <4> QED BY <2>2, <4>1, <4>2
    <3>2. e[n + 1] = Println(e[n], lines[n + 1]) /\ n + 1 # 0 /\ (n + 1) - 1 = n BY <2>2
    <3>3. \A i \in 0 .. n + 1 : i = n + 1 \/ i \in 0 .. n OBVIOUS
    <3> HIDE DEF e
    <3> QED BY <3>1, <3>2, <3>3
  <2>4. e = [i \in 0 .. n + 1 |-> e[i]] OBVIOUS
  <2> HIDE DEF e
  <2>5. Printing(e, c, lines, n + 1) BY <2>3, <2>4 DEF Printing
  <2> QED BY <2>5
<1> HIDE DEF T
<1>3. Nat \subseteq T BY <1>1, <1>2, SetInduction
<1> QED BY <1>3 DEF T

LEMMA LayingExists ==
  ASSUME NEW rows, NEW lines
  PROVE  \A n \in Nat : \E f : Laying(f, rows, lines, n)
<1> DEFINE T == {n \in Nat : \E f : Laying(f, rows, lines, n)}
<1>1. 0 \in T
  <2>1. Laying([i \in 0 .. 0 |-> rows], rows, lines, 0) BY DEF Laying
  <2> QED BY <2>1
<1>2. ASSUME NEW n \in Nat, n \in T PROVE n + 1 \in T
  <2>1. PICK f : Laying(f, rows, lines, n) BY <1>2
  <2> DEFINE e == [i \in 0 .. n + 1 |-> IF i = n + 1 THEN f[n] \o Wrap(lines[n + 1]) ELSE f[i]]
  <2>2. \A i \in 0 .. n : e[i] = f[i] OBVIOUS
  <2>3. \A i \in 0 .. n + 1 : e[i] = IF i = 0 THEN rows ELSE e[i - 1] \o Wrap(lines[i])
    <3>1. ASSUME NEW i \in 0 .. n PROVE e[i] = IF i = 0 THEN rows ELSE e[i - 1] \o Wrap(lines[i])
      <4>1. f[i] = IF i = 0 THEN rows ELSE f[i - 1] \o Wrap(lines[i]) BY <2>1 DEF Laying
      <4>2. i # 0 => i - 1 \in 0 .. n OBVIOUS
      <4> HIDE DEF e
      <4> QED BY <2>2, <4>1, <4>2
    <3>2. e[n + 1] = e[n] \o Wrap(lines[n + 1]) /\ n + 1 # 0 /\ (n + 1) - 1 = n
      <4>1. e[n + 1] = f[n] \o Wrap(lines[n + 1])
        <5> DEFINE v == f[n] \o Wrap(lines[n + 1])
        <5>1. e = [i \in 0 .. n + 1 |-> IF i = n + 1 THEN v ELSE f[i]] OBVIOUS
        <5> HIDE DEF v, e
        <5>2. e[n + 1] = v BY <5>1
        <5> QED BY <5>2 DEF v
      <4>2. n \in 0 .. n /\ n + 1 # 0 /\ (n + 1) - 1 = n OBVIOUS
      <4>3. e[n] = f[n] BY <2>2, <4>2
      <4> HIDE DEF e
      <4> QED BY <4>1, <4>2, <4>3
    <3>3. \A i \in 0 .. n + 1 : i = n + 1 \/ i \in 0 .. n OBVIOUS
    <3> HIDE DEF e
    <3> QED BY <3>1, <3>2, <3>3
  <2>4. e = [i \in 0 .. n + 1 |-> e[i]] OBVIOUS
  <2> HIDE DEF e
  <2>5. Laying(e, rows, lines, n + 1) BY <2>3, <2>4 DEF Laying
  <2> QED BY <2>5
<1> HIDE DEF T
<1>3. Nat \subseteq T BY <1>1, <1>2, SetInduction
<1> QED BY <1>3 DEF T

LEMMA PrintedRun ==
  ASSUME NEW c, NEW lines, Len(lines) \in Nat
  PROVE  \E f : Printing(f, c, lines, Len(lines)) /\ Printed(c, lines) = f[Len(lines)]
<1> DEFINE f == CHOOSE f : Printing(f, c, lines, Len(lines))
<1>1. Printing(f, c, lines, Len(lines)) BY PrintingExists
<1>2. Printed(c, lines) = f[Len(lines)] BY DEF Printed, Printing
<1> QED BY <1>1, <1>2

LEMMA PrintingIs ==
  ASSUME NEW f, NEW c, NEW lines, Len(lines) \in Nat, Printing(f, c, lines, Len(lines))
  PROVE  /\ f[0] = c
         /\ \A i \in 1 .. Len(lines) : f[i] = Println(f[i - 1], lines[i])
<1>1. f[0] = c BY DEF Printing
<1>2. \A i \in 1 .. Len(lines) : f[i] = Println(f[i - 1], lines[i]) BY DEF Printing
<1> QED BY <1>1, <1>2

LEMMA LaidRun ==
  ASSUME NEW rows, NEW lines, Len(lines) \in Nat
  PROVE  \E f : Laying(f, rows, lines, Len(lines)) /\ Laid(rows, lines) = f[Len(lines)]
<1> DEFINE f == CHOOSE f : Laying(f, rows, lines, Len(lines))
<1>1. Laying(f, rows, lines, Len(lines)) BY LayingExists
<1>2. Laid(rows, lines) = f[Len(lines)] BY DEF Laid, Laying
<1> QED BY <1>1, <1>2

LEMMA PrintedHeld ==
  ASSUME NEW c, NEW rows, Holds(c, rows, <<>>), NEW lines \in Seq(Seq(Ink)),
         \A i \in 1 .. Len(lines) : Plain(lines[i])
  PROVE  Holds(Printed(c, lines), Laid(rows, lines), <<>>)
<1>0. Len(lines) \in Nat OBVIOUS
<1>8. PICK f : Printing(f, c, lines, Len(lines)) /\ Printed(c, lines) = f[Len(lines)]
  BY <1>0, PrintedRun
<1>1. /\ f[0] = c /\ Printed(c, lines) = f[Len(lines)]
      /\ \A i \in 1 .. Len(lines) : f[i] = Println(f[i - 1], lines[i])
  BY <1>0, <1>8, PrintingIs
<1>9. PICK r : Laying(r, rows, lines, Len(lines)) /\ Laid(rows, lines) = r[Len(lines)]
  BY <1>0, LaidRun
<1>2. /\ r[0] = rows /\ Laid(rows, lines) = r[Len(lines)]
      /\ \A i \in 1 .. Len(lines) : r[i] = r[i - 1] \o Wrap(lines[i])
  <2>1. r[0] = rows BY <1>0, <1>9 DEF Laying
  <2>2. ASSUME NEW i \in 1 .. Len(lines) PROVE r[i] = r[i - 1] \o Wrap(lines[i])
    <3>1. i \in 0 .. Len(lines) /\ i # 0 BY <1>0
    <3> QED BY <1>9, <3>1 DEF Laying
  <2> QED BY <1>9, <2>1, <2>2
<1> DEFINE T == {i \in Nat : i <= Len(lines) => Holds(f[i], r[i], <<>>)}
<1>3. 0 \in T BY <1>1, <1>2
<1>4. ASSUME NEW i \in Nat, i \in T PROVE i + 1 \in T
  <2> SUFFICES ASSUME i + 1 <= Len(lines) PROVE Holds(f[i + 1], r[i + 1], <<>>) OBVIOUS
  <2>1. i <= Len(lines) /\ i + 1 \in 1 .. Len(lines) /\ (i + 1) - 1 = i BY <1>0
  <2>2. Holds(f[i], r[i], <<>>) BY <1>4, <2>1
  <2>3. f[i + 1] = Println(f[i], lines[i + 1]) /\ r[i + 1] = r[i] \o Wrap(lines[i + 1])
    BY <1>1, <1>2, <2>1
  <2>4. lines[i + 1] \in Seq(Ink) /\ Plain(lines[i + 1]) BY <2>1
  <2>5. <<>> \in Seq(Ink) /\ <<>> \o lines[i + 1] = lines[i + 1] BY <2>4
  <2>6. Holds(Println(f[i], lines[i + 1]), r[i] \o Wrap(<<>> \o lines[i + 1]), <<>>)
    BY <2>2, <2>4, <2>5, PrintlnHeld
  <2> QED BY <2>3, <2>5, <2>6
<1> HIDE DEF T
<1>5. Nat \subseteq T BY <1>3, <1>4, SetInduction
<1>6. Len(lines) <= Len(lines) BY <1>0
<1>7. Holds(f[Len(lines)], r[Len(lines)], <<>>) BY <1>0, <1>5, <1>6 DEF T
<1> QED BY <1>1, <1>2, <1>7

-----------------------------------------------------------------------------
(* What is printed is printable.                                           *)
LEMMA SeqIn ==
  ASSUME NEW A, NEW B, A \subseteq B, NEW s \in Seq(A)
  PROVE  s \in Seq(B)
OBVIOUS

LEMMA PrintableInk ==
  ASSUME NEW s, Printable(s), ToSet(s) \subseteq Ink
  PROVE  s \in Seq(Ink) /\ Plain(s)
<1>1. s \in Seq(ToSet(s)) /\ {Newline, Return, Tab} \cap ToSet(s) = {} BY DEF Printable
<1>2. s \in Seq(Ink) BY <1>1, SeqIn
<1>3. \A i \in 1 .. Len(s) : s[i] \in ToSet(s) BY <1>1
<1> QED BY <1>1, <1>2, <1>3 DEF Plain

LEMMA Inks ==
  /\ PROMPT \in Seq(Ink) /\ Plain(PROMPT)
  /\ Banner \in Seq(Ink) /\ Plain(Banner)
  /\ Glyphs \subseteq Ink
  /\ \A s \in Seq(Glyphs) : s \in Seq(Ink) /\ Plain(s)
<1>1. ToSet(PROMPT) \subseteq Ink /\ ToSet(Banner) \subseteq Ink /\ Glyphs \subseteq Ink BY DEF Ink
<1>2. PROMPT \in Seq(Ink) /\ Plain(PROMPT) BY <1>1, PrintableInk, ConsoleAssumption
<1>3. Banner \in Seq(Ink) /\ Plain(Banner) BY <1>1, PrintableInk, ConsoleAssumption
<1>4. ASSUME NEW s \in Seq(Glyphs) PROVE s \in Seq(Ink) /\ Plain(s)
  <2>1. s \in Seq(Ink) BY <1>1, SeqIn
  <2>2. \A i \in 1 .. Len(s) : s[i] \in Glyphs OBVIOUS
  <2>3. {Newline, Return, Tab} \cap Glyphs = {} BY ConsoleAssumption
  <2> QED BY <2>1, <2>2, <2>3 DEF Plain
<1> QED BY <1>1, <1>2, <1>3, <1>4

LEMMA ReplyInk ==
  ASSUME NEW r \in Replies
  PROVE  r \in Seq(Seq(Ink)) /\ \A i \in 1 .. Len(r) : Plain(r[i])
<1>1. r \in Seq(ToSet(r)) /\ \A s \in ToSet(r) : Printable(s) BY ConsoleAssumption
<1>2. ASSUME NEW s \in ToSet(r) PROVE s \in Seq(Ink) /\ Plain(s)
  <2>1. ToSet(s) \subseteq Ink
    <3>1. ToSet(r) \in {ToSet(q) : q \in Replies} OBVIOUS
    <3>2. s \in UNION {ToSet(q) : q \in Replies} BY <3>1
    <3>3. ToSet(s) \in {ToSet(t) : t \in UNION {ToSet(q) : q \in Replies}} BY <3>2
    <3>4. ToSet(s) \subseteq UNION {ToSet(t) : t \in UNION {ToSet(q) : q \in Replies}} BY <3>3
    <3> QED BY <3>4 DEF Ink
  <2> QED BY <1>1, <2>1, PrintableInk
<1>3. ToSet(r) \subseteq Seq(Ink) BY <1>2
<1>4. r \in Seq(Seq(Ink)) BY <1>1, <1>3, SeqIn
<1>5. \A i \in 1 .. Len(r) : r[i] \in ToSet(r) BY <1>1
<1> QED BY <1>2, <1>4, <1>5
-----------------------------------------------------------------------------
(* What scrolled off is dropped: Fit counts it right.                      *)
LEMMA Trimmed ==
  ASSUME NEW g, g.row \in 0 .. Rows - 1, g.col \in 0 .. Cols - 1,
         NEW rows, RowsOk(rows), NEW d \in Nat, NEW s \in Seq(Ink), Len(s) < Total,
         Drawn(g, rows, d, s)
  PROVE  LET b == Fit(rows, s)
         IN  /\ d <= Len(rows) /\ d = Minus(Len(rows) + Len(Wrap(s)), Rows)
             /\ RowsOk(b) /\ Len(b) = Len(rows) - d
             /\ Drawn(g, b, 0, s)
<1> DEFINE w == Len(s) \div Cols + 1
           b == SubSeq(rows, d + 1, Len(rows))
<1>1. w \in Nat /\ w >= 1 /\ StartOf(w - 1) <= Len(s) /\ Len(Wrap(s)) = w BY WrapLaid
<1> HIDE DEF w
<1>2. Cols \in Nat /\ Cols > 0 /\ Rows \in Nat /\ Rows > 0 /\ Total = StartOf(Rows) /\ StartOf(0) = 0
  BY Starts
<1>3. rows \in Seq(Seq(Ink)) /\ \A k \in 1 .. Len(rows) : Len(rows[k]) <= Cols BY DEF RowsOk
<1>4. Len(rows) \in Nat /\ Len(s) \in Nat BY <1>3
<1>5. Len(rows) + w = g.row + 1 + d
  <2>1. Len(rows \o Wrap(s)) = g.row + 1 + d /\ Len(rows \o Wrap(s)) = Len(rows) + Len(Wrap(s))
    BY RowsDrawn
  <2> QED BY <1>1, <2>1
<1>6. g.row \in Int /\ 0 <= g.row /\ g.row < Rows /\ g.col \in Int BY <1>2
<1>7. w <= Rows
  <2> SUFFICES ASSUME Rows < w PROVE FALSE BY <1>1, <1>2
  <2>1. w - 1 \in Int /\ Rows \in Int /\ (Rows = w - 1 \/ Rows < w - 1) BY <1>1, <1>2
  <2>2. StartOf(Rows) \in Int /\ StartOf(w - 1) \in Int BY <2>1, StartInt
  <2>3. Rows < w - 1 => StartOf(Rows) + Cols <= StartOf(w - 1) BY <2>1, StartOrder
  <2>4. StartOf(Rows) <= StartOf(w - 1) BY <1>2, <2>1, <2>2, <2>3
  <2> QED BY <1>1, <1>2, <1>4, <2>2, <2>4
<1>8. d = 0 \/ g.row = Rows - 1 BY DEF Drawn
<1>9. d <= Len(rows) /\ d = Minus(Len(rows) + w, Rows)
  <2>1. d <= Len(rows) BY SMTT(60), <1>1, <1>2, <1>4, <1>5, <1>6, <1>7, <1>8
  <2>2. d = 0 => (Len(rows) + w) - Rows <= 0 BY <1>2, <1>5, <1>6
  <2>3. d # 0 => (Len(rows) + w) - Rows = d BY <1>2, <1>5, <1>6, <1>8
  <2>4. (Len(rows) + w) - Rows \in Int BY <1>1, <1>2, <1>4
  <2> QED BY <2>1, <2>2, <2>3, <2>4 DEF Minus, Most
<1>10. Fit(rows, s) = b BY <1>1, <1>9 DEF Fit
<1>11. /\ b \in Seq(Seq(Ink)) /\ Len(b) = Len(rows) - d /\ Len(b) \in Nat
       /\ \A k \in 1 .. Len(b) : k + d \in 1 .. Len(rows) /\ b[k] = rows[k + d]
  <2>1. d + 1 >= 1 /\ d + 1 <= Len(rows) + 1 /\ d + 1 \in Int BY <1>4, <1>9
  <2>2. b \in Seq(Seq(Ink)) /\ Len(b) = Len(rows) - (d + 1) + 1
        /\ \A k \in 1 .. Len(rows) - (d + 1) + 1 : b[k] = rows[(d + 1) + k - 1]
    BY SMTT(60), <1>3, <1>4, <2>1
  <2>3. Len(rows) - (d + 1) + 1 = Len(rows) - d /\ Len(rows) - d \in Nat BY <1>4, <1>9
  <2>4. \A k \in 1 .. Len(rows) - d : (d + 1) + k - 1 = k + d /\ k + d \in 1 .. Len(rows)
    BY SMTT(60), <1>4, <1>9
  <2> HIDE DEF b
  <2> QED BY <2>2, <2>3, <2>4
<1> HIDE DEF b
<1>12. RowsOk(b) BY <1>3, <1>11 DEF RowsOk
<1> DEFINE R == StartOf(Len(rows))
           D == StartOf(d)
           B == StartOf(Len(b))
           Y == StartOf(g.row)
<1>13. R \in Int /\ D \in Int /\ B = R - D /\ Y \in Int
  <2>1. Len(rows) \in Int /\ d \in Int /\ Len(b) = Len(rows) - d BY <1>4, <1>11
  <2>2. R \in Int /\ D \in Int /\ Y \in Int BY <1>6, <2>1, StartInt
  <2>3. StartOf(Len(rows) - d) = R - D BY <2>1, StartSum
  <2> QED BY <2>1, <2>2, <2>3
<1>14. Y + g.col + StartOf(0) = B + Len(s)
  <2>1. Y + g.col + D = R + Len(s) BY DEF Drawn
  <2> HIDE DEF R, D, B, Y
  <2> QED BY SMTT(60), <1>2, <1>4, <1>6, <1>13, <2>1
<1>15. ASSUME NEW k \in 1 .. Len(b), NEW i \in 1 .. Len(b[k])
       PROVE  g.cells[StartOf(k - 1 - 0) + i - 1] = b[k][i]
  <2> DEFINE n == k + d
  <2>1. n \in 1 .. Len(rows) /\ b[k] = rows[n] BY <1>11
  <2>2. n > d /\ n - 1 - d = k - 1 - 0 BY <1>11
  <2> HIDE DEF n
  <2>3. g.cells[StartOf(n - 1 - d) + i - 1] = rows[n][i] BY <2>1, <2>2 DEF Drawn
  <2> QED BY <2>1, <2>2, <2>3
<1>16. ASSUME NEW i \in 1 .. Len(s), B + i > StartOf(0)
       PROVE  g.cells[B + i - 1 - StartOf(0)] = s[i]
  <2>1. R + i > D => g.cells[R + i - 1 - D] = s[i] BY DEF Drawn
  <2> HIDE DEF R, D, B
  <2>2. i \in Int BY <1>4
  <2>3. R + i > D /\ R + i - 1 - D = B + i - 1 - StartOf(0) BY <1>2, <1>13, <1>16, <2>2
  <2> QED BY <2>1, <2>3
<1>17. Drawn(g, b, 0, s) BY <1>14, <1>15, <1>16 DEF Drawn
<1> QED BY <1>1, <1>9, <1>10, <1>11, <1>12, <1>17

(* A shorter line takes no more rows.                                      *)
LEMMA WrapOrder ==
  ASSUME NEW s \in Seq(Ink), NEW t \in Seq(Ink), Len(s) <= Len(t)
  PROVE  Len(Wrap(s)) \in Nat /\ Len(Wrap(t)) \in Nat /\ Len(Wrap(s)) <= Len(Wrap(t))
<1> DEFINE v == Len(s) \div Cols + 1
           w == Len(t) \div Cols + 1
<1>1. v \in Nat /\ StartOf(v - 1) <= Len(s) /\ Len(Wrap(s)) = v BY WrapLaid
<1>2. w \in Nat /\ Len(t) < StartOf(w) /\ Len(Wrap(t)) = w BY WrapLaid
<1> HIDE DEF v, w
<1>3. v <= w
  <2> SUFFICES ASSUME w < v PROVE FALSE BY <1>1, <1>2
  <2>1. v - 1 \in Int /\ w \in Int /\ (w = v - 1 \/ w < v - 1) /\ Cols \in Nat BY <1>1, <1>2, Starts
  <2>2. StartOf(w) \in Int /\ StartOf(v - 1) \in Int BY <2>1, StartInt
  <2>3. w < v - 1 => StartOf(w) + Cols <= StartOf(v - 1) BY <2>1, StartOrder
  <2>4. StartOf(w) <= StartOf(v - 1) BY <2>1, <2>2, <2>3
  <2>5. Len(s) \in Int /\ Len(t) \in Int OBVIOUS
  <2> QED BY <1>1, <1>2, <2>2, <2>4, <2>5
<1> QED BY <1>1, <1>2, <1>3

-----------------------------------------------------------------------------
(* The prompt and the line behind it, at the bottom of the finished rows.  *)
Edited(c, rows, s) ==
  /\ ConOk(c) /\ RowsOk(rows) /\ Drawn(c, rows, 0, PROMPT \o s)
  /\ c.edit_row = Len(rows) /\ c.edit_col = Len(PROMPT)
  /\ c.edited_cells \in Nat
  /\ Len(PROMPT) + Len(s) < Cols => c.edited_cells = Len(s)

(* The invariant: what the console holds in each mode.                     *)
ShellInv ==
  /\ line \in Seq(Glyphs) /\ Len(line) <= MaxLine
  /\ mode \in {"boot", "shell", "app"}
  /\ mode = "boot" => con = Fresh
  /\ mode = "app" => Holds(con, above, <<>>)
  /\ mode = "shell" => /\ Edited(con, above, line)
                       /\ shown = con.cells
                       /\ wire = PROMPT \o line

LEMMA PromptRoom ==
  /\ Len(PROMPT) \in Nat /\ Len(PROMPT) + 1 < Cols /\ MaxLine \in Nat
  /\ Len(PROMPT) + MaxLine < Total /\ Total \in Int
  /\ \A s \in Seq(Glyphs) : /\ PROMPT \o s \in Seq(Ink)
                            /\ Len(PROMPT \o s) = Len(PROMPT) + Len(s)
                            /\ Len(s) <= MaxLine => Len(PROMPT \o s) < Total
<1>1. PROMPT \in Seq(Ink) BY Inks
<1>2. Len(PROMPT) \in Nat BY <1>1
<1>3. Total \in Int
  <2>1. Rows \in Int BY Starts
  <2> QED BY <2>1, Starts
<1>4. Len(PROMPT) + 1 < Cols /\ MaxLine \in Nat /\ Len(PROMPT) + MaxLine < Total
  BY ConsoleAssumption
<1>5. ASSUME NEW s \in Seq(Glyphs)
      PROVE  /\ PROMPT \o s \in Seq(Ink) /\ Len(PROMPT \o s) = Len(PROMPT) + Len(s)
             /\ Len(s) <= MaxLine => Len(PROMPT \o s) < Total
  <2>1. s \in Seq(Ink) BY Inks
  <2>2. PROMPT \o s \in Seq(Ink) /\ Len(PROMPT \o s) = Len(PROMPT) + Len(s)
    BY <1>1, <2>1, ConcatProperties
  <2>3. Len(s) \in Nat OBVIOUS
  <2> QED BY <1>2, <1>3, <1>4, <2>2, <2>3
<1> QED BY <1>2, <1>3, <1>4, <1>5

(* A new prompt.                                                           *)
LEMMA PromptEdited ==
  ASSUME NEW c, NEW rows, Holds(c, rows, <<>>)
  PROVE  Edited(NewPrompt(c), Fit(rows, PROMPT), <<>>)
<1> DEFINE p == PutText(c, PROMPT)
           q == NewPrompt(c)
           b == Fit(rows, PROMPT)
<1>1. PROMPT \in Seq(Ink) /\ Plain(PROMPT) /\ <<>> \in Seq(Ink) BY Inks
<1>2. <<>> \o PROMPT = PROMPT /\ PROMPT \o <<>> = PROMPT BY <1>1
<1>3. Holds(p, rows, PROMPT)
  <2>1. Holds(p, rows, <<>> \o PROMPT) BY <1>1, TextHeld
  <2> QED BY <1>2, <2>1
<1>4. q = [p EXCEPT !.edit_row = p.row, !.edit_col = p.col, !.edited_cells = 0]
  BY DEF NewPrompt
<1> HIDE DEF p, q
<1>5. ConOk(p) /\ RowsOk(rows) BY <1>3 DEF Holds
<1>6. PICK d \in Nat : Drawn(p, rows, d, PROMPT) BY <1>3 DEF Holds
<1>7. /\ DOMAIN q = Fields
      /\ q.cells = p.cells /\ q.row = p.row /\ q.col = p.col
      /\ q.edit_row = p.row /\ q.edit_col = p.col /\ q.edited_cells = 0
  <2>1. DOMAIN p = Fields BY <1>5 DEF ConOk
  <2> QED BY <1>4, <2>1 DEF Fields
<1>8. ConOk(q) BY <1>5, <1>7 DEF ConOk
<1>9. p.row \in 0 .. Rows - 1 /\ p.col \in 0 .. Cols - 1 BY <1>5 DEF ConOk
<1>10. Len(PROMPT) \in Nat /\ Len(PROMPT) < Cols /\ Len(PROMPT) < Total /\ Cols \in Nat
  <2>1. Cols \in Nat BY Starts
  <2> QED BY <2>1, PromptRoom
<1>11. RowsOk(b) /\ Drawn(p, b, 0, PROMPT) BY <1>1, <1>5, <1>6, <1>9, <1>10, Trimmed
<1> HIDE DEF b
<1>12. Drawn(q, b, 0, PROMPT) BY <1>7, <1>11, SameDrawn
<1>13. Len(b) \in Nat BY <1>11 DEF RowsOk
<1>14. p.row \in Int /\ p.col \in Int /\ 0 <= p.col /\ p.col < Cols
  <2>1. Rows \in Nat BY Starts
  <2> QED BY <1>9, <1>10, <2>1
<1>15. p.row = Len(b) /\ p.col = Len(PROMPT)
  <2> DEFINE Y == StartOf(p.row)
             B == StartOf(Len(b))
  <2>1. Y \in Int /\ B \in Int /\ StartOf(0) = 0
    <3>1. Len(b) \in Int BY <1>13
    <3>2. Y \in Int /\ B \in Int BY <1>14, <3>1, StartInt
    <3> QED BY <3>2, Starts
  <2>2. Y + p.col = B + Len(PROMPT)
    <3>1. Y + p.col + StartOf(0) = B + Len(PROMPT) BY <1>11 DEF Drawn
    <3> QED BY <1>14, <2>1, <3>1
  <2>3. p.row = Len(b)
    <3> DEFINE x == Y + p.col
    <3>1. x \in Int /\ Y <= x /\ x < Y + Cols /\ B <= x /\ x < B + Cols
      BY SMTT(60), <1>10, <1>14, <2>1, <2>2
    <3>2. Len(b) \in Int BY <1>13
    <3> HIDE DEF x
    <3> QED BY <1>14, <3>1, <3>2, SameRow
  <2>4. Y = B BY <2>3
  <2> HIDE DEF Y, B
  <2> QED BY <1>10, <1>14, <2>1, <2>2, <2>3, <2>4
<1>16. Drawn(q, b, 0, PROMPT \o <<>>) BY <1>2, <1>12
<1>17. Len(<<>>) = 0 OBVIOUS
<1> QED BY <1>7, <1>8, <1>11, <1>15, <1>16, <1>17 DEF Edited, q, b

(* The grid that the new line is drawn on: the prompt is on it, and the    *)
(* cells of the old line are blank.                                        *)
Erased(c) ==
  LET Old == Origin(c) .. Origin(c) + c.edited_cells - 1
  IN  [i \in Places |-> IF i \in Old THEN Blank ELSE c.cells[i]]

(* The origin of the edit is where it is on the grid.                      *)
LEMMA OriginIs ==
  ASSUME NEW c, NEW rows, NEW s \in Seq(Glyphs), Edited(c, rows, s)
  PROVE  /\ Origin(c) = StartOf(Len(rows)) + Len(PROMPT) /\ Origin(c) \in Places
         /\ Origin(c) \in Int
         /\ c.edit_row \in 0 .. Rows - 1 /\ c.edit_col \in 0 .. Cols - 1
         /\ Len(rows) \in Nat /\ Len(rows) + 1 <= Rows
         /\ Len(rows) + Len(Wrap(PROMPT \o s)) <= Rows
         /\ StartOf(Len(rows)) \in Int /\ StartOf(Len(rows)) >= 0
<1>1. ConOk(c) /\ RowsOk(rows) /\ Drawn(c, rows, 0, PROMPT \o s)
      /\ c.edit_row = Len(rows) /\ c.edit_col = Len(PROMPT)
  BY DEF Edited
<1>2. Len(PROMPT) \in Nat /\ Len(PROMPT) + 1 < Cols /\ PROMPT \o s \in Seq(Ink) BY PromptRoom
<1>3. Cols \in Nat /\ Rows \in Nat /\ Rows > 0 BY Starts
<1>4. c.row \in 0 .. Rows - 1 /\ c.col \in 0 .. Cols - 1 BY <1>1 DEF ConOk
<1>5. /\ Len(rows \o Wrap(PROMPT \o s)) = c.row + 1 + 0
      /\ Len(rows \o Wrap(PROMPT \o s)) = Len(rows) + Len(Wrap(PROMPT \o s))
  <2> DEFINE z == PROMPT \o s
  <2>1. z \in Seq(Ink) /\ Drawn(c, rows, 0, z) /\ RowsOk(rows) /\ 0 \in Nat BY <1>1, <1>2
  <2> HIDE DEF z
  <2>2. /\ Len(rows \o Wrap(z)) = c.row + 1 + 0
        /\ Len(rows \o Wrap(z)) = Len(rows) + Len(Wrap(z))
    BY <1>4, <2>1, RowsDrawn
  <2> QED BY <2>2 DEF z
<1>6. Len(Wrap(PROMPT \o s)) \in Nat /\ Len(Wrap(PROMPT \o s)) >= 1 BY <1>2, WrapLaid
<1>7. Len(rows) \in Nat BY <1>1 DEF RowsOk
<1>8. Len(rows) + Len(Wrap(PROMPT \o s)) <= Rows BY <1>3, <1>4, <1>5
<1>9. Len(rows) + 1 <= Rows BY <1>3, <1>6, <1>7, <1>8
<1>10. c.edit_row \in 0 .. Rows - 1 /\ c.edit_col \in 0 .. Cols - 1
  BY <1>1, <1>2, <1>3, <1>7, <1>9
<1>11. StartOf(c.edit_row) + c.edit_col \in Places /\ StartOf(c.edit_row) >= 0
  BY <1>10, CursorInside
<1>12. Len(rows) \in Int /\ Len(PROMPT) \in Int /\ StartOf(Len(rows)) \in Int
  <2>1. Len(rows) \in Int BY <1>7
  <2> QED BY <1>2, <2>1, StartInt
<1>13. Origin(c) = StartOf(Len(rows)) + Len(PROMPT) BY <1>1, <1>12, Starts DEF Origin
<1>14. Origin(c) \in Int BY <1>12, <1>13
<1> QED BY <1>1, <1>7, <1>8, <1>9, <1>10, <1>11, <1>12, <1>13, <1>14

LEMMA ErasedDrawn ==
  ASSUME NEW c, NEW rows, NEW s \in Seq(Glyphs), Edited(c, rows, s)
  PROVE  LET g == Grid(Erased(c), c.edit_row, c.edit_col)
         IN  /\ GridOk(g) /\ g.scrolled = 0 /\ g.cells = Erased(c)
             /\ g.row = c.edit_row /\ g.col = c.edit_col
             /\ StartOf(g.row) + g.col = Origin(c)
             /\ Drawn(g, rows, 0, PROMPT)
<1> DEFINE g == Grid(Erased(c), c.edit_row, c.edit_col)
           o == Origin(c)
           R == StartOf(Len(rows))
<1>1. /\ ConOk(c) /\ RowsOk(rows) /\ Drawn(c, rows, 0, PROMPT \o s)
      /\ c.edit_row = Len(rows) /\ c.edit_col = Len(PROMPT) /\ c.edited_cells \in Nat
  BY DEF Edited
<1>2. /\ o = R + Len(PROMPT) /\ o \in Places /\ o \in Int
      /\ c.edit_row \in 0 .. Rows - 1 /\ c.edit_col \in 0 .. Cols - 1
      /\ R \in Int /\ R >= 0
  BY OriginIs
<1>3. DOMAIN Erased(c) = Places /\ Extensional(Erased(c)) BY DEF Erased, Extensional
<1>4. /\ GridOk(g) /\ g.scrolled = 0 /\ g.cells = Erased(c)
      /\ g.row = c.edit_row /\ g.col = c.edit_col
  BY <1>2, <1>3, GridIs
<1> HIDE DEF g
<1>5. ASSUME NEW j \in Places, j < o PROVE g.cells[j] = c.cells[j]
  <2>1. j \notin o .. o + c.edited_cells - 1
    <3>1. j \in Int
      <4>1. Total \in Int BY PromptRoom
      <4> QED BY <4>1 DEF Places
    <3> QED BY <1>1, <1>2, <1>5, <3>1
  <2> QED BY <1>4, <2>1 DEF Erased
<1> HIDE DEF o
<1>6. StartOf(g.row) + g.col = o BY <1>1, <1>2, <1>4
<1>7. PROMPT \in Seq(Ink) /\ PROMPT \o s \in Seq(Ink) /\ s \in Seq(Ink)
      /\ Len(PROMPT) \in Nat
  BY Inks, PromptRoom
<1>8. \A i \in 1 .. Len(PROMPT) : i \in 1 .. Len(PROMPT \o s) /\ (PROMPT \o s)[i] = PROMPT[i]
  <2>1. Len(s) \in Nat OBVIOUS
  <2> QED BY <1>7, <2>1, ConcatProperties
<1>9. o < Total /\ Total \in Int
  <2>1. Total \in Int BY PromptRoom
  <2> QED BY <1>2, <2>1 DEF Places
<1>10. Len(<<>>) = 0 /\ StartOf(0) = 0 BY Starts
<1>11. ASSUME NEW k \in 1 .. Len(rows), NEW i \in 1 .. Len(rows[k])
       PROVE  g.cells[StartOf(k - 1 - 0) + i - 1] = rows[k][i]
  <2> DEFINE j == StartOf(k - 1 - 0) + i - 1
  <2>1. rows \in Seq(Seq(Ink)) /\ Len(rows[k]) <= Cols BY <1>1 DEF RowsOk
  <2>2. k \in Int /\ 1 <= k /\ k <= Len(rows) /\ Len(rows) \in Int /\ i \in Int /\ 1 <= i /\ i <= Cols
    <3>1. Len(rows[k]) \in Nat /\ Len(rows) \in Nat BY <2>1
    <3>2. Cols \in Nat BY Starts
    <3> QED BY <2>1, <3>1, <3>2
  <2>3. StartOf(k - 1) \in Int /\ StartOf(k - 1) >= 0 /\ StartOf(k - 1) + Cols <= R /\ Cols \in Nat
    <3>1. k - 1 \in Int /\ k - 1 < Len(rows) /\ (k - 1 = 0 \/ 0 < k - 1) BY <2>2
    <3>2. StartOf(k - 1) \in Int /\ Cols \in Nat BY <3>1, Starts
    <3>3. StartOf(k - 1) + Cols <= R BY <2>2, <3>1, StartOrder
    <3>4. 0 < k - 1 => StartOf(0) + Cols <= StartOf(k - 1) BY <3>1, StartOrder
    <3> QED BY <1>10, <3>1, <3>2, <3>3, <3>4
  <2>4. k - 1 - 0 = k - 1 BY <2>2
  <2>5. j \in Int /\ 0 <= j /\ j < R
    <3>1. j = StartOf(k - 1) + i - 1 BY <2>4
    <3> HIDE DEF j, R
    <3> QED BY SMTT(60), <1>2, <2>2, <2>3, <3>1
  <2>6. c.cells[j] = rows[k][i]
    <3>1. k > 0 BY <2>2
    <3> QED BY <1>1, <3>1 DEF Drawn
  <2> HIDE DEF j, R
  <2>7. j \in Places /\ j < o BY <1>2, <1>7, <1>9, <2>5 DEF Places
  <2> QED BY <1>5, <2>6, <2>7 DEF j
<1>12. ASSUME NEW i \in 1 .. Len(PROMPT)
       PROVE  g.cells[R + i - 1 - StartOf(0)] = PROMPT[i]
  <2> DEFINE j == R + i - 1 - StartOf(0)
  <2>1. i \in Int /\ 1 <= i /\ i <= Len(PROMPT) BY <1>7
  <2>2. j \in Int /\ 0 <= j /\ j < o
    <3> HIDE DEF R
    <3> QED BY <1>2, <1>7, <1>10, <2>1
  <2>3. R + i > StartOf(0)
    <3> HIDE DEF R
    <3> QED BY <1>2, <1>10, <2>1
  <2>4. c.cells[j] = (PROMPT \o s)[i] BY <1>1, <1>8, <2>3 DEF Drawn
  <2> HIDE DEF j, R
  <2>5. j \in Places BY <1>9, <1>2, <2>2 DEF Places
  <2> QED BY <1>5, <1>8, <2>2, <2>4, <2>5 DEF j
<1>13. StartOf(g.row) + g.col + StartOf(0) = R + Len(PROMPT)
  <2> HIDE DEF R
  <2> QED BY <1>2, <1>6, <1>10
<1>14. Drawn(g, rows, 0, PROMPT) BY <1>11, <1>12, <1>13 DEF Drawn
<1> QED BY <1>4, <1>6, <1>14 DEF g, o

-----------------------------------------------------------------------------
(* set_edit_line: the new line takes the place of the old one, also when   *)
(* it makes the screen scroll; without scrolling only the old and the new  *)
(* line's cells change.                                                    *)
LEMMA SetLine ==
  ASSUME NEW c, NEW rows, NEW s \in Seq(Glyphs), Edited(c, rows, s),
         NEW t \in Seq(Glyphs), Len(t) <= MaxLine, ~NothingToDo(c, t)
  PROVE  LET h == Redrawn(c, t)
             D == SetEditLine(c, t)
         IN  /\ Edited(D, Fit(rows, PROMPT \o t), t)
             /\ h.scrolled \in Nat
             /\ h.scrolled = Minus(Len(rows) + Len(Wrap(PROMPT \o t)), Rows)
             /\ h.scrolled = 0 =>
                  /\ D.edited_cells = Len(t)
                  /\ \A j \in Places : j < Origin(c) \/ j >= Origin(c) + Len(t)
                                         => D.cells[j] = Erased(c)[j]
<1> DEFINE g == Grid(Erased(c), c.edit_row, c.edit_col)
           h == Redrawn(c, t)
           D == SetEditLine(c, t)
           z == PROMPT \o t
           b == Fit(rows, z)
           o == Origin(c)
<1>1. ConOk(c) /\ RowsOk(rows) /\ c.edit_row = Len(rows) /\ c.edit_col = Len(PROMPT) BY DEF Edited
<1>2. /\ GridOk(g) /\ g.scrolled = 0 /\ g.cells = Erased(c)
      /\ StartOf(g.row) + g.col = o /\ Drawn(g, rows, 0, PROMPT)
  BY ErasedDrawn
<1>3. h = PutAll(g, t) BY DEF Redrawn, Erased
<1>4. /\ o = StartOf(Len(rows)) + Len(PROMPT) /\ o \in Int
      /\ Len(rows) \in Nat /\ Len(rows) + 1 <= Rows
  BY OriginIs
<1>5. z \in Seq(Ink) /\ Len(z) = Len(PROMPT) + Len(t) /\ Len(z) < Total BY PromptRoom
<1>6. Len(PROMPT) \in Nat /\ Len(t) \in Nat /\ Total \in Int BY PromptRoom
<1>7. D = [c EXCEPT !.cells = h.cells, !.row = h.row, !.col = h.col,
                    !.edited_cells = Minus(Index(h.row, h.col), o),
                    !.edit_row = Minus(@, h.scrolled)]
  BY DEF SetEditLine
<1> HIDE DEF g, h, D, z, o
<1>8. Wrote(g, h, rows, 0, z, Len(t))
  <2>1. PROMPT \in Seq(Ink) /\ t \in Seq(Ink) /\ Plain(t) /\ 0 \in Nat BY Inks
  <2>2. Wrote(g, PutAll(g, t), rows, 0, PROMPT \o t, Len(t)) BY <1>1, <1>2, <2>1, TextDrawn
  <2> QED BY <1>3, <2>2 DEF z
<1>9. GridOk(h) /\ h.scrolled \in Nat /\ Drawn(h, rows, h.scrolled, z)
  <2>1. GridOk(h) /\ Drawn(h, rows, 0 + (h.scrolled - g.scrolled), z) BY <1>8 DEF Wrote
  <2>2. h.scrolled \in Nat BY <2>1 DEF GridOk
  <2>3. 0 + (h.scrolled - g.scrolled) = h.scrolled BY <1>2, <2>2
  <2> QED BY <2>1, <2>2, <2>3
<1>10. h.scrolled = 0 =>
         /\ StartOf(h.row) + h.col = o + Len(t)
         /\ \A j \in Places : j < o \/ j >= o + Len(t) => h.cells[j] = g.cells[j]
  BY <1>2, <1>8 DEF Wrote
<1>11. h.row \in 0 .. Rows - 1 /\ h.col \in 0 .. Cols - 1 /\ DOMAIN h.cells = Places
       /\ Extensional(h.cells)
  BY <1>9 DEF GridOk
<1>12. /\ h.scrolled <= Len(rows) /\ h.scrolled = Minus(Len(rows) + Len(Wrap(z)), Rows)
       /\ RowsOk(b) /\ Len(b) = Len(rows) - h.scrolled /\ Drawn(h, b, 0, z)
  BY <1>1, <1>5, <1>9, <1>11, Trimmed
<1> HIDE DEF b
<1>13. /\ DOMAIN D = Fields /\ D.cells = h.cells /\ D.row = h.row /\ D.col = h.col
       /\ D.edit_row = Minus(c.edit_row, h.scrolled) /\ D.edit_col = c.edit_col
       /\ D.edited_cells = Minus(Index(h.row, h.col), o)
  <2>1. DOMAIN c = Fields BY <1>1 DEF ConOk
  <2> DEFINE m == Minus(Index(h.row, h.col), o)
  <2> HIDE DEF m
  <2>2. D = [c EXCEPT !.cells = h.cells, !.row = h.row, !.col = h.col,
                      !.edited_cells = m, !.edit_row = Minus(@, h.scrolled)]
    BY <1>7 DEF m
  <2>3. /\ DOMAIN D = Fields /\ D.cells = h.cells /\ D.row = h.row /\ D.col = h.col
        /\ D.edit_row = Minus(c.edit_row, h.scrolled) /\ D.edit_col = c.edit_col
        /\ D.edited_cells = m
    BY <2>1, <2>2 DEF Fields
  <2> QED BY <2>3 DEF m
<1>14. ConOk(D) BY <1>11, <1>13 DEF ConOk
<1>15. Drawn(D, b, 0, z) BY <1>12, <1>13, SameDrawn
<1>16. D.edit_row = Len(b) /\ D.edit_col = Len(PROMPT)
  <2>1. Minus(Len(rows), h.scrolled) = Len(rows) - h.scrolled
    BY <1>4, <1>9, <1>12 DEF Minus, Most
  <2> QED BY <1>1, <1>12, <1>13, <2>1
<1>17. Index(h.row, h.col) = StartOf(h.row) + h.col /\ Index(h.row, h.col) \in Int
  <2>1. Rows \in Nat /\ Cols \in Nat BY Starts
  <2>2. h.row \in Int /\ h.col \in Int BY <1>11, <2>1
  <2>3. StartOf(h.row) \in Int BY <2>2, StartInt
  <2>4. Index(h.row, h.col) = StartOf(h.row) + h.col BY <2>2, Starts
  <2> QED BY <2>2, <2>3, <2>4
<1>18. D.edited_cells \in Nat
  <2> DEFINE x == Index(h.row, h.col)
  <2>1. x \in Int BY <1>17
  <2> HIDE DEF x
  <2>2. Minus(x, o) \in Nat BY <1>4, <2>1 DEF Minus, Most
  <2> QED BY <1>13, <2>2 DEF x
<1>19. h.scrolled = 0 => D.edited_cells = Len(t)
  <2> SUFFICES ASSUME h.scrolled = 0 PROVE D.edited_cells = Len(t) OBVIOUS
  <2> DEFINE x == Index(h.row, h.col)
  <2>1. x = o + Len(t) BY <1>10, <1>17
  <2> HIDE DEF x
  <2>2. Minus(x, o) = Len(t) BY SMTT(60), <1>4, <1>6, <2>1 DEF Minus, Most
  <2> QED BY <1>13, <2>2 DEF x
<1>20. Len(PROMPT) + Len(t) < Cols => h.scrolled = 0
  <2> SUFFICES ASSUME Len(PROMPT) + Len(t) < Cols PROVE h.scrolled = 0 OBVIOUS
  <2> DEFINE w == Len(z) \div Cols + 1
  <2>1. w \in Nat /\ w >= 1 /\ StartOf(w - 1) <= Len(z) /\ Len(Wrap(z)) = w BY <1>5, WrapLaid
  <2> HIDE DEF w
  <2>2. w - 1 \in Int /\ (w - 1 = 0 \/ 0 < w - 1) /\ Cols \in Nat /\ StartOf(0) = 0 BY <2>1, Starts
  <2>3. 0 < w - 1 => StartOf(0) + Cols <= StartOf(w - 1) BY <2>2, StartOrder
  <2>4. StartOf(w - 1) \in Int BY <2>2, StartInt
  <2>5. Len(z) < Cols /\ Len(z) \in Int BY <1>5, <1>6
  <2>6. w = 1 BY <2>1, <2>2, <2>3, <2>4, <2>5
  <2>7. Rows \in Int BY Starts
  <2>8. Minus(Len(rows) + 1, Rows) = 0 BY <1>4, <2>7 DEF Minus, Most
  <2> QED BY <1>12, <2>1, <2>6, <2>8
<1>21. Edited(D, b, t)
  <2>1. Len(PROMPT) + Len(t) < Cols => D.edited_cells = Len(t) BY <1>19, <1>20
  <2>2. Drawn(D, b, 0, PROMPT \o t) BY <1>15 DEF z
  <2> QED BY <1>12, <1>14, <1>16, <1>18, <2>1, <2>2 DEF Edited
<1>22. h.scrolled = 0 =>
         \A j \in Places : j < o \/ j >= o + Len(t) => D.cells[j] = Erased(c)[j]
  BY <1>2, <1>10, <1>13
<1> QED BY <1>9, <1>12, <1>19, <1>21, <1>22 DEF h, D, b, z, o

(* What set_edit_line blits is every cell that it changed.                 *)
LEMMA RepaintedExact ==
  ASSUME NEW c, NEW rows, NEW s \in Seq(Glyphs), Edited(c, rows, s),
         NEW t \in Seq(Glyphs), Len(t) <= MaxLine, ~NothingToDo(c, t), shown = c.cells
  PROVE  Repainted(c, t) = SetEditLine(c, t).cells
<1> DEFINE h == Redrawn(c, t)
           D == SetEditLine(c, t)
           o == Origin(c)
           end == Minus(o + Most(c.edited_cells, D.edited_cells), 1)
           range == Least(o, Total - 1) .. Least(end, Total - 1)
<1>1. /\ h.scrolled \in Nat /\ Edited(D, Fit(rows, PROMPT \o t), t)
      /\ h.scrolled = 0 =>
           /\ D.edited_cells = Len(t)
           /\ \A j \in Places : j < o \/ j >= o + Len(t) => D.cells[j] = Erased(c)[j]
  BY SetLine
<1>2. Repainted(c, t) =
        IF h.scrolled > 0 THEN D.cells
        ELSE [i \in Places |-> IF i \in range THEN D.cells[i] ELSE shown[i]]
  BY DEF Repainted
<1>3. DOMAIN D.cells = Places /\ Extensional(D.cells) BY <1>1 DEF Edited, ConOk
<1>4. o \in Places /\ o \in Int /\ o >= 0
  <2>1. Total \in Int BY PromptRoom
  <2> QED BY <2>1, OriginIs DEF Places
<1>5. c.edited_cells \in Nat /\ Len(t) \in Nat /\ Total \in Int /\ o < Total
  <2>1. Total \in Int BY PromptRoom
  <2> QED BY <1>4, <2>1 DEF Edited, Places
<1>6. CASE h.scrolled > 0 BY <1>2, <1>6
<1>7. CASE h.scrolled = 0
  <2>1. D.edited_cells = Len(t) BY <1>1, <1>7
  <2>2. ASSUME NEW j \in Places PROVE j \in range \/ D.cells[j] = c.cells[j]
    <3>1. j \in Int /\ 0 <= j /\ j < Total BY <1>5 DEF Places
    <3> DEFINE n == c.edited_cells
               m == Most(n, Len(t))
    <3>2. end = Minus(o + m, 1) BY <2>1
    <3>3. m \in Nat /\ n <= m /\ Len(t) <= m BY <1>5 DEF Most
    <3> HIDE DEF m
    <3>4. CASE o <= j /\ j < o + m
      <4>1. end = o + m - 1 BY <1>4, <3>1, <3>2, <3>3, <3>4 DEF Minus, Most
      <4> HIDE DEF end
      <4>2. Least(o, Total - 1) = o BY <1>4, <1>5 DEF Least
      <4>3. j <= Least(end, Total - 1) BY <1>4, <1>5, <3>1, <3>3, <3>4, <4>1 DEF Least
      <4>4. Least(end, Total - 1) \in Int BY <1>4, <1>5, <3>3, <4>1 DEF Least
      <4> QED BY <1>4, <3>1, <3>4, <4>2, <4>3, <4>4
    <3>5. CASE j < o \/ j >= o + m
      <4>1. j < o \/ j >= o + Len(t) BY <1>4, <1>5, <3>1, <3>3, <3>5
      <4>2. D.cells[j] = Erased(c)[j] BY <1>1, <1>7, <4>1
      <4>3. j \notin o .. o + n - 1 BY SMTT(60), <1>4, <1>5, <3>1, <3>3, <3>5
      <4>4. Erased(c)[j] = c.cells[j] BY <4>3 DEF Erased
      <4> QED BY <4>2, <4>4
    <3> QED BY <1>4, <3>1, <3>3, <3>4, <3>5
  <2> HIDE DEF D, range
  <2>3. [i \in Places |-> IF i \in range THEN D.cells[i] ELSE shown[i]] = [i \in Places |-> D.cells[i]]
    BY <2>2
  <2>4. ~(h.scrolled > 0) BY <1>7
  <2> QED BY <1>2, <1>3, <2>3, <2>4 DEF Extensional, D
<1> QED BY <1>1, <1>6, <1>7

-----------------------------------------------------------------------------
(* The steps.                                                              *)
LEMMA Started == Holds(Fresh, <<>>, <<>>)
<1>1. /\ DOMAIN Fresh = Fields /\ Fresh.cells = BlankCells /\ Fresh.row = 0 /\ Fresh.col = 0
  BY DEF Fresh, Fields
<1>2. Rows \in Nat /\ Rows > 0 /\ Cols \in Nat /\ Cols > 0 /\ StartOf(0) = 0 BY Starts
<1>3. DOMAIN BlankCells = Places /\ Extensional(BlankCells) BY DEF BlankCells, Extensional
<1>4. 0 \in 0 .. Rows - 1 /\ 0 \in 0 .. Cols - 1 BY <1>2
<1> DEFINE c == Fresh
<1> HIDE DEF c
<1>5. ConOk(c) BY <1>1, <1>3, <1>4 DEF ConOk, c
<1>6. RowsOk(<<>>)
  <2>1. <<>> \in Seq(Seq(Ink)) /\ Len(<<>>) = 0 OBVIOUS
  <2> QED BY <2>1 DEF RowsOk
<1>7. Drawn(c, <<>>, 0, <<>>)
  <2>1. c.row = 0 /\ c.col = 0 /\ Len(<<>>) = 0 BY <1>1 DEF c
  <2>2. StartOf(c.row) + c.col + StartOf(0) = StartOf(Len(<<>>)) + Len(<<>>) BY <1>2, <2>1
  <2> QED BY <2>1, <2>2 DEF Drawn
<1> QED BY <1>5, <1>6, <1>7 DEF Holds, c

LEMMA ClearedHeld == ASSUME NEW c, ConOk(c) PROVE Holds(ClearScreen(c), <<>>, <<>>)
<1> DEFINE e == ClearScreen(c)
<1>1. DOMAIN c = Fields BY DEF ConOk
<1>2. DOMAIN e = Fields /\ e.cells = BlankCells /\ e.row = 0 /\ e.col = 0
  BY <1>1 DEF ClearScreen, Fields
<1> HIDE DEF e
<1>3. Rows \in Nat /\ Rows > 0 /\ Cols \in Nat /\ Cols > 0 /\ StartOf(0) = 0 BY Starts
<1>4. DOMAIN BlankCells = Places /\ Extensional(BlankCells) BY DEF BlankCells, Extensional
<1>5. 0 \in 0 .. Rows - 1 /\ 0 \in 0 .. Cols - 1 BY <1>3
<1>6. ConOk(e) BY <1>2, <1>4, <1>5 DEF ConOk
<1>7. RowsOk(<<>>)
  <2>1. <<>> \in Seq(Seq(Ink)) /\ Len(<<>>) = 0 OBVIOUS
  <2> QED BY <2>1 DEF RowsOk
<1>8. Drawn(e, <<>>, 0, <<>>)
  <2>1. Len(<<>>) = 0 OBVIOUS
  <2>2. StartOf(e.row) + e.col + StartOf(0) = StartOf(Len(<<>>)) + Len(<<>>) BY <1>2, <1>3, <2>1
  <2> QED BY <2>1, <2>2 DEF Drawn
<1> QED BY <1>6, <1>7, <1>8 DEF Holds, e

LEMMA PromptsStep ==
  ASSUME NEW c, NEW rows, Holds(c, rows, <<>>), Prompts(c, rows)
  PROVE  ShellInv'
<1>1. Edited(NewPrompt(c), Fit(rows, PROMPT), <<>>) BY PromptEdited
<1>2. /\ mode' = "shell" /\ con' = NewPrompt(c) /\ shown' = con'.cells
      /\ line' = <<>> /\ wire' = PROMPT /\ above' = Fit(rows, PROMPT)
  BY DEF Prompts
<1>3. Edited(con', above', line') BY <1>1, <1>2
<1>4. PROMPT \o <<>> = PROMPT
  <2>1. PROMPT \in Seq(Ink) BY Inks
  <2> QED BY <2>1
<1>5. line' \in Seq(Glyphs) /\ Len(line') <= MaxLine
  <2>1. MaxLine \in Nat BY PromptRoom
  <2>2. <<>> \in Seq(Glyphs) /\ Len(<<>>) = 0 OBVIOUS
  <2>3. Len(<<>>) <= MaxLine BY <2>1, <2>2
  <2> QED BY <1>2, <2>2, <2>3
<1>6. wire' = PROMPT \o line' BY <1>2, <1>4
<1> HIDE DEF Edited
<1>7. Edited(con, above, line)' BY <1>3 DEF Edited
<1>8. mode' \in {"boot", "shell", "app"} /\ mode' # "boot" /\ mode' # "app" BY <1>2
<1>9. shown' = con'.cells BY <1>2
<1> QED BY <1>5, <1>6, <1>7, <1>8, <1>9 DEF ShellInv

(* A finished line: it and its newline are part of the rows.               *)
LEMMA SubmittedHeld ==
  ASSUME ShellInv, mode = "shell"
  PROVE  Holds(Submitted, Typed, <<>>)
<1> DEFINE e == EndEdit(con)
           z == PROMPT \o line
<1>1. ConOk(con) /\ RowsOk(above) /\ Drawn(con, above, 0, z) BY DEF ShellInv, Edited
<1>2. line \in Seq(Glyphs) BY DEF ShellInv
<1>3. z \in Seq(Ink) /\ <<>> \in Seq(Ink) BY <1>2, PromptRoom
<1> HIDE DEF z
<1>4. DOMAIN e = Fields /\ e.cells = con.cells /\ e.row = con.row /\ e.col = con.col
  <2>1. DOMAIN con = Fields BY <1>1 DEF ConOk
  <2> QED BY <2>1 DEF EndEdit, Fields
<1> HIDE DEF e
<1>5. ConOk(e) BY <1>1, <1>4 DEF ConOk
<1>6. Drawn(e, above, 0, z) BY <1>1, <1>4, SameDrawn
<1>7. Holds(e, above, z) BY <1>1, <1>5, <1>6 DEF Holds
<1>8. Plain(<<>>)
  <2>1. Len(<<>>) = 0 OBVIOUS
  <2> QED BY <2>1 DEF Plain
<1>9. Holds(Println(e, <<>>), above \o Wrap(z \o <<>>), <<>>)
  BY <1>3, <1>7, <1>8, PrintlnHeld
<1>10. z \o <<>> = z BY <1>3
<1> QED BY <1>9, <1>10 DEF Submitted, Typed, e, z

LEMMA KmainStep == ASSUME ShellInv, Kmain PROVE ShellInv'
<1>1. con = Fresh BY DEF ShellInv, Kmain
<1>2. Banner \in Seq(Ink) /\ Plain(Banner) /\ <<>> \in Seq(Ink) BY Inks
<1>3. Holds(Println(Fresh, Banner), <<>> \o Wrap(<<>> \o Banner), <<>>)
  BY <1>2, Started, PrintlnHeld
<1>4. <<>> \o Wrap(<<>> \o Banner) = Wrap(Banner)
  <2>1. <<>> \o Banner = Banner BY <1>2
  <2>2. Wrap(Banner) \in Seq(Seq(Ink)) BY <1>2, WrapLaid
  <2> DEFINE W == Wrap(Banner)
  <2>3. W \in Seq(Seq(Ink)) BY <2>2
  <2> HIDE DEF W
  <2>4. <<>> \o W = W BY <2>3
  <2> QED BY <2>1, <2>4 DEF W
<1>5. Holds(Println(con, Banner), Wrap(Banner), <<>>) BY <1>1, <1>3, <1>4
<1>6. Prompts(Println(con, Banner), Wrap(Banner)) BY DEF Kmain
<1> QED BY <1>5, <1>6, PromptsStep

LEMMA CommandStep == ASSUME ShellInv, NEW r \in Replies, Command(r) PROVE ShellInv'
<1>1. mode = "shell" /\ Prompts(Printed(Submitted, r), Laid(Typed, r)) BY DEF Command
<1>2. r \in Seq(Seq(Ink)) /\ \A i \in 1 .. Len(r) : Plain(r[i]) BY ReplyInk
<1>3. Holds(Submitted, Typed, <<>>) BY <1>1, SubmittedHeld
<1>4. Holds(Printed(Submitted, r), Laid(Typed, r), <<>>) BY <1>2, <1>3, PrintedHeld
<1> QED BY <1>1, <1>4, PromptsStep

LEMMA ClearStep == ASSUME ShellInv, Clear PROVE ShellInv'
<1>1. mode = "shell" /\ Prompts(ClearScreen(Submitted), <<>>) BY DEF Clear
<1>2. ConOk(Submitted) BY <1>1, SubmittedHeld DEF Holds
<1>3. Holds(ClearScreen(Submitted), <<>>, <<>>) BY <1>2, ClearedHeld
<1> QED BY <1>1, <1>3, PromptsStep

LEMMA LaunchStep == ASSUME ShellInv, Launch PROVE ShellInv'
<1>1. mode = "shell" /\ mode' = "app" /\ con' = Submitted /\ above' = Typed /\ line' = line
  BY DEF Launch
<1>2. Holds(Submitted, Typed, <<>>) BY <1>1, SubmittedHeld
<1>3. Holds(con', above', <<>>) BY <1>1, <1>2
<1>4. Holds(con, above, <<>>)' BY <1>3 DEF Holds
<1>5. line' \in Seq(Glyphs) /\ Len(line') <= MaxLine BY <1>1 DEF ShellInv
<1> QED BY <1>1, <1>4, <1>5 DEF ShellInv

LEMMA ExitAppStep == ASSUME ShellInv, ExitApp PROVE ShellInv'
<1>1. mode = "app" /\ Prompts(con, above) BY DEF ExitApp
<1>2. Holds(con, above, <<>>) BY <1>1 DEF ShellInv
<1> QED BY <1>1, <1>2, PromptsStep

LEMMA InsertStep == ASSUME ShellInv, NEW c \in Glyphs, Insert(c) PROVE ShellInv'
<1> DEFINE t == Append(line, c)
<1>1. /\ mode = "shell" /\ Len(line) < MaxLine /\ line' = t /\ wire' = Append(wire, c)
      /\ con' = SetEditLine(con, t) /\ shown' = Repainted(con, t)
      /\ above' = Fit(above, PROMPT \o t) /\ mode' = mode
  BY DEF Insert
<1>2. line \in Seq(Glyphs) /\ Edited(con, above, line) /\ shown = con.cells /\ wire = PROMPT \o line
  BY <1>1 DEF ShellInv
<1>3. t \in Seq(Glyphs) /\ Len(t) = Len(line) + 1 /\ t # <<>> /\ Len(line) \in Nat
  <2>1. t \in Seq(Glyphs) /\ Len(t) = Len(line) + 1 /\ Len(line) \in Nat BY <1>2
  <2> HIDE DEF t
  <2>2. Len(t) # 0 BY <2>1
  <2>3. t # <<>> BY <2>2
  <2> QED BY <2>1, <2>3
<1>4. Len(t) <= MaxLine
  <2>1. MaxLine \in Nat BY PromptRoom
  <2> HIDE DEF t
  <2> QED BY <1>1, <1>3, <2>1
<1>5. ~NothingToDo(con, t) BY <1>3 DEF NothingToDo
<1>6. wire' = PROMPT \o t
  <2>1. PROMPT \in Seq(Ink) /\ line \in Seq(Ink) /\ c \in Ink BY <1>2, Inks
  <2>2. Append(PROMPT \o line, c) = PROMPT \o Append(line, c) BY <2>1
  <2> QED BY <1>1, <1>2, <2>2
<1> HIDE DEF t
<1>7. Edited(SetEditLine(con, t), Fit(above, PROMPT \o t), t) BY <1>2, <1>3, <1>4, <1>5, SetLine
<1>8. Repainted(con, t) = SetEditLine(con, t).cells
  BY <1>2, <1>3, <1>4, <1>5, RepaintedExact
<1>9. Edited(con', above', line') BY <1>1, <1>7
<1>10. Edited(con, above, line)' BY <1>9 DEF Edited
<1>11. shown' = con'.cells BY <1>1, <1>8
<1>12. line' \in Seq(Glyphs) /\ Len(line') <= MaxLine /\ wire' = PROMPT \o line'
  BY <1>1, <1>3, <1>4, <1>6
<1>13. mode' = "shell" BY <1>1
<1> QED BY <1>10, <1>11, <1>12, <1>13 DEF ShellInv

LEMMA FrontIs ==
  ASSUME NEW S, NEW s \in Seq(S), s # <<>>
  PROVE  /\ Front(s) \in Seq(S) /\ Len(s) \in Nat /\ Len(s) >= 1 /\ Len(Front(s)) = Len(s) - 1
         /\ \A i \in 1 .. Len(s) - 1 : Front(s)[i] = s[i]
<1>1. Len(s) \in Nat /\ Len(s) >= 1 OBVIOUS
<1>2. Front(s) = SubSeq(s, 1, Len(s) - 1) BY DEF Front
<1>3. Len(s) - 1 \in Nat /\ Len(s) - 1 <= Len(s) BY <1>1
<1> DEFINE m == Len(s) - 1
<1>4. /\ SubSeq(s, 1, m) \in Seq(S) /\ Len(SubSeq(s, 1, m)) = m
      /\ \A i \in 1 .. m : SubSeq(s, 1, m)[i] = s[i]
  <2>1. m \in Nat /\ m <= Len(s) BY <1>3
  <2> HIDE DEF m
  <2>2. SubSeq(s, 1, m) \in Seq(S) /\ Len(SubSeq(s, 1, m)) = m BY <1>1, <2>1
  <2>3. \A i \in 1 .. m : SubSeq(s, 1, m)[i] = s[i] BY <1>1, <2>1
  <2> QED BY <2>2, <2>3
<1> QED BY <1>1, <1>2, <1>4

(* Erasing behind a prefix.                                                *)
LEMMA FrontBehind ==
  ASSUME NEW S, NEW p \in Seq(S), NEW s \in Seq(S), s # <<>>
  PROVE  Front(p \o s) = p \o Front(s)
<1> DEFINE a == Front(p \o s)
           b == p \o Front(s)
           n == Len(p) + Len(s) - 1
<1>1. Front(s) \in Seq(S) /\ Len(s) \in Nat /\ Len(s) >= 1 /\ Len(Front(s)) = Len(s) - 1
      /\ \A i \in 1 .. Len(s) - 1 : Front(s)[i] = s[i]
  BY FrontIs
<1>2. Len(p) \in Nat OBVIOUS
<1>3. /\ p \o s \in Seq(S) /\ Len(p \o s) = Len(p) + Len(s)
      /\ \A i \in 1 .. Len(p) + Len(s) :
           (p \o s)[i] = IF i <= Len(p) THEN p[i] ELSE s[i - Len(p)]
  BY ConcatProperties
<1>4. p \o s # <<>>
  <2>1. Len(p \o s) > 0 BY <1>1, <1>2, <1>3
  <2> QED BY <2>1
<1>5. a \in Seq(S) /\ Len(a) = n /\ \A i \in 1 .. n : a[i] = (p \o s)[i]
  <2> DEFINE q == p \o s
  <2>1. q \in Seq(S) /\ q # <<>> /\ Len(q) = Len(p) + Len(s) BY <1>3, <1>4
  <2> HIDE DEF q
  <2>2. Front(q) \in Seq(S) /\ Len(Front(q)) = Len(q) - 1
        /\ \A i \in 1 .. Len(q) - 1 : Front(q)[i] = q[i]
    BY <2>1, FrontIs
  <2>3. Len(q) - 1 = n BY <1>1, <1>2, <2>1
  <2> QED BY <2>2, <2>3 DEF q
<1>6. b \in Seq(S) /\ Len(b) = n
      /\ \A i \in 1 .. n : b[i] = IF i <= Len(p) THEN p[i] ELSE Front(s)[i - Len(p)]
  <2> DEFINE f == Front(s)
  <2>1. f \in Seq(S) /\ Len(f) = Len(s) - 1 BY <1>1
  <2> HIDE DEF f
  <2>2. /\ p \o f \in Seq(S) /\ Len(p \o f) = Len(p) + Len(f)
        /\ \A i \in 1 .. Len(p) + Len(f) :
             (p \o f)[i] = IF i <= Len(p) THEN p[i] ELSE f[i - Len(p)]
    BY <2>1, ConcatProperties
  <2>3. Len(p) + Len(f) = n BY <1>1, <1>2, <2>1
  <2> QED BY <2>2, <2>3 DEF f
<1>7. ASSUME NEW i \in 1 .. n PROVE a[i] = b[i]
  <2>1. i \in Int /\ 1 <= i /\ i <= n /\ n \in Int BY <1>1, <1>2
  <2>2. i \in 1 .. Len(p) + Len(s) BY <1>1, <1>2, <2>1
  <2>3. i <= Len(p) => a[i] = b[i] BY <1>3, <1>5, <1>6, <2>2
  <2>4. ~(i <= Len(p)) => i - Len(p) \in 1 .. Len(s) - 1 BY <1>1, <1>2, <2>1
  <2>5. ~(i <= Len(p)) => a[i] = b[i] BY <1>1, <1>3, <1>5, <1>6, <2>2, <2>4
  <2> QED BY <2>3, <2>5
<1> HIDE DEF a, b, n
<1>8. a = b BY <1>5, <1>6, <1>7
<1> QED BY <1>8 DEF a, b

LEMMA EraseStep == ASSUME ShellInv, Erase PROVE ShellInv'
<1> DEFINE t == Front(line)
<1>1. /\ mode = "shell" /\ line # <<>> /\ line' = t /\ wire' = Front(wire)
      /\ con' = SetEditLine(con, t) /\ shown' = Repainted(con, t)
      /\ above' = above /\ mode' = mode
  BY DEF Erase
<1>2. /\ line \in Seq(Glyphs) /\ Len(line) <= MaxLine /\ Edited(con, above, line)
      /\ shown = con.cells /\ wire = PROMPT \o line
  BY <1>1 DEF ShellInv
<1>3. t \in Seq(Glyphs) /\ Len(line) \in Nat /\ Len(line) >= 1 /\ Len(t) = Len(line) - 1
  BY <1>1, <1>2, FrontIs
<1>4. wire' = PROMPT \o t
  <2>1. PROMPT \in Seq(Ink) /\ line \in Seq(Ink) BY <1>2, Inks
  <2> QED BY <1>1, <1>2, <2>1, FrontBehind
<1> HIDE DEF t
<1>5. MaxLine \in Nat BY PromptRoom
<1>6. Len(t) <= MaxLine /\ Len(t) \in Nat /\ Len(t) <= Len(line) BY <1>2, <1>3, <1>5
<1>7. ~NothingToDo(con, t)
  <2> SUFFICES ASSUME t = <<>>, con.edited_cells = 0 PROVE FALSE BY DEF NothingToDo
  <2>1. Len(t) = 0 OBVIOUS
  <2>2. Len(line) = 1 BY <1>3, <2>1
  <2>3. Len(PROMPT) + Len(line) < Cols BY <2>2, PromptRoom
  <2>4. con.edited_cells = Len(line) BY <1>2, <2>3 DEF Edited
  <2> QED BY <2>2, <2>4
<1>8. Edited(SetEditLine(con, t), Fit(above, PROMPT \o t), t)
  BY <1>2, <1>3, <1>6, <1>7, SetLine
<1>9. Repainted(con, t) = SetEditLine(con, t).cells
  BY <1>2, <1>3, <1>6, <1>7, RepaintedExact
<1>10. Fit(above, PROMPT \o t) = above
  <2> DEFINE x == PROMPT \o line
             z == PROMPT \o t
  <2>1. /\ x \in Seq(Ink) /\ z \in Seq(Ink)
        /\ Len(x) = Len(PROMPT) + Len(line) /\ Len(z) = Len(PROMPT) + Len(t)
        /\ Len(PROMPT) \in Nat
    BY <1>2, <1>3, PromptRoom
  <2>2. Len(above) \in Nat /\ Len(above) + Len(Wrap(x)) <= Rows BY <1>2, OriginIs
  <2> HIDE DEF x, z
  <2>3. Len(z) <= Len(x) BY <1>3, <1>6, <2>1
  <2>4. Len(Wrap(x)) \in Nat /\ Len(Wrap(z)) \in Nat /\ Len(Wrap(z)) <= Len(Wrap(x))
    BY <2>1, <2>3, WrapOrder
  <2>5. Rows \in Int BY Starts
  <2>6. Minus(Len(above) + Len(Wrap(z)), Rows) = 0
    <3> DEFINE w == Len(Wrap(z))
    <3>1. w \in Nat /\ (Len(above) + w) - Rows <= 0 BY <2>2, <2>4, <2>5
    <3> HIDE DEF w
    <3>2. Minus(Len(above) + w, Rows) = 0 BY <2>2, <2>5, <3>1 DEF Minus, Most
    <3> QED BY <3>2 DEF w
  <2>7. above \in Seq(Seq(Ink)) BY <1>2 DEF Edited, RowsOk
  <2>8. SubSeq(above, 0 + 1, Len(above)) = above BY <2>7
  <2>9. Fit(above, z) = above BY <2>6, <2>8 DEF Fit
  <2> QED BY <2>9 DEF z
<1>11. Edited(con', above', line') BY <1>1, <1>8, <1>10
<1>12. Edited(con, above, line)' BY <1>11 DEF Edited
<1>13. shown' = con'.cells BY <1>1, <1>9
<1>14. line' \in Seq(Glyphs) /\ Len(line') <= MaxLine /\ wire' = PROMPT \o line'
  BY <1>1, <1>3, <1>4, <1>6
<1>15. mode' = "shell" BY <1>1
<1> QED BY <1>12, <1>13, <1>14, <1>15 DEF ShellInv

LEMMA ShellInit == ASSUME Init PROVE ShellInv
<1>1. line = <<>> /\ mode = "boot" /\ con = Fresh BY DEF Init
<1>2. <<>> \in Seq(Glyphs) /\ Len(<<>>) = 0 OBVIOUS
<1>3. MaxLine \in Nat BY PromptRoom
<1>4. Len(<<>>) <= MaxLine BY <1>2, <1>3
<1> QED BY <1>1, <1>2, <1>4 DEF ShellInv

LEMMA ShellStep == ASSUME ShellInv, [Next]_vars PROVE ShellInv'
<1>1. CASE Kmain BY <1>1, KmainStep
<1>2. CASE \E c \in Glyphs : Insert(c) BY <1>2, InsertStep
<1>3. CASE Erase BY <1>3, EraseStep
<1>4. CASE \E r \in Replies : Command(r) BY <1>4, CommandStep
<1>5. CASE Clear BY <1>5, ClearStep
<1>6. CASE Launch BY <1>6, LaunchStep
<1>7. CASE ExitApp BY <1>7, ExitAppStep
<1>8. CASE UNCHANGED vars
  BY SMTT(60), <1>8 DEF vars, ShellInv, Edited, Holds, ConOk, Drawn, Extensional
<1> QED BY <1>1, <1>2, <1>3, <1>4, <1>5, <1>6, <1>7, <1>8 DEF Next

(* The invariant of the shell: in every mode the Console shows the rows    *)
(* printed so far, and at the prompt the line being edited behind them     *)
(* (console.rs, Console::set_edit_line and run_shell).                     *)
THEOREM ConsoleIsInvariant == Spec => []ShellInv
<1>1. Init => ShellInv BY ShellInit
<1>2. ShellInv /\ [Next]_vars => ShellInv' BY ShellStep
<1> QED BY <1>1, <1>2, PTL DEF Spec

(* Blitting only the edited range leaves no stale cell on the framebuffer  *)
(* (console.rs, set_edit_line's render_range).                             *)
THEOREM ScreenIsFresh == Spec => []ScreenFresh
<1>1. ShellInv => ScreenFresh BY DEF ShellInv, ScreenFresh, InShell
<1> QED BY <1>1, ConsoleIsInvariant, PTL

(* What was printed stays in its rows, in its order, and the line and the  *)
(* cursor are where the shell takes them to be, through every wrap, scroll *)
(* and erasure (grid.rs, and console.rs set_edit_line).                    *)
THEOREM TextStaysInPlace == Spec => []TextInPlace
<1>1. ASSUME ShellInv, InShell PROVE TextInPlace
  <2> DEFINE z == PROMPT \o line
             rows == above \o Wrap(z)
  <2>1. line \in Seq(Glyphs) /\ Edited(con, above, line) BY <1>1 DEF ShellInv, InShell
  <2>2. /\ ConOk(con) /\ RowsOk(above) /\ Drawn(con, above, 0, z)
        /\ con.row \in 0 .. Rows - 1 /\ con.col \in 0 .. Cols - 1
    BY <2>1 DEF Edited, ConOk
  <2>3. z \in Seq(Ink) /\ Len(z) = Len(PROMPT) + Len(line) /\ Len(PROMPT) \in Nat /\ Len(line) \in Nat
    BY <2>1, PromptRoom
  <2>4. Origin(con) = StartOf(Len(above)) + Len(PROMPT) /\ StartOf(Len(above)) \in Int
    BY <2>1, OriginIs
  <2> HIDE DEF z
  <2>5. RowsOk(rows) /\ Len(rows) \in Nat /\ Len(rows) = con.row + 1 + 0 /\ Visible(con, rows, 0)
    <3>1. 0 \in Nat OBVIOUS
    <3> QED BY <2>2, <2>3, <3>1, RowsDrawn
  <2> HIDE DEF rows
  <2>6. Rows \in Nat /\ Cols \in Nat BY Starts
  <2>7. con.row \in Int /\ con.col \in Int /\ con.row < Rows BY <2>2, <2>6
  <2>8. Len(rows) <= Rows BY <2>5, <2>6, <2>7
  <2>9. ASSUME NEW k \in DOMAIN rows, NEW i \in DOMAIN rows[k]
        PROVE  con.cells[Index(k - 1, i - 1)] = rows[k][i]
    <3>1. rows \in Seq(Seq(Ink)) BY <2>5 DEF RowsOk
    <3>2. k \in 1 .. Len(rows) BY <3>1
    <3>3. i \in 1 .. Len(rows[k])
      <4>1. rows[k] \in Seq(Ink) BY <3>1, <3>2
      <4> QED BY <4>1
    <3>4. k \in Int /\ k > 0 /\ k - 1 - 0 = k - 1 /\ k - 1 \in Int BY <2>5, <3>2
    <3>5. i \in Int /\ con.cells[StartOf(k - 1 - 0) + i - 1] = rows[k][i]
      BY <2>5, <3>2, <3>3, <3>4 DEF Visible
    <3>6. i - 1 \in Int /\ StartOf(k - 1) \in Int BY <3>4, <3>5, StartInt
    <3>7. Index(k - 1, i - 1) = StartOf(k - 1) + (i - 1) BY <3>4, <3>6, Starts
    <3>8. StartOf(k - 1) + (i - 1) = StartOf(k - 1) + i - 1 BY <3>5, <3>6
    <3> QED BY <3>4, <3>5, <3>7, <3>8
  <2>10. TextOnScreen BY <2>8, <2>9 DEF TextOnScreen, rows, z
  <2>11. EditAtCursor
    <3> DEFINE A == StartOf(Len(above))
               Y == StartOf(con.row)
    <3>1. Len(above) * Cols = A BY DEF StartOf
    <3>2. Y \in Int /\ StartOf(0) = 0 BY <2>7, Starts
    <3>3. CursorAt(con) = Y + con.col BY <2>7, Starts DEF CursorAt
    <3>4. Y + con.col + StartOf(0) = A + Len(z) BY <2>2 DEF Drawn
    <3>5. Origin(con) = A + Len(PROMPT) /\ A \in Int BY <2>4
    <3> HIDE DEF A, Y
    <3>6. CursorAt(con) = Origin(con) + Len(line) BY <2>3, <2>7, <3>2, <3>3, <3>4, <3>5
    <3> QED BY <3>1, <3>5, <3>6 DEF EditAtCursor
  <2> QED BY <2>10, <2>11 DEF TextInPlace
<1>2. ShellInv => TextInPlace BY <1>1 DEF TextInPlace, TextOnScreen, EditAtCursor
<1> QED BY <1>2, ConsoleIsInvariant, PTL

(* The editor and the terminal at the other end of the serial port agree   *)
(* on the line (console.rs, run_shell's mirrored writes).                  *)
THEOREM TerminalAgrees == Spec => []WireAgrees
<1>1. ShellInv => WireAgrees BY DEF ShellInv, WireAgrees, InShell
<1> QED BY <1>1, ConsoleIsInvariant, PTL
=============================================================================
