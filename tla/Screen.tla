------------------------------- MODULE Screen -------------------------------
(***************************************************************************)
(* The text screen of the application as its pages see it: a grid of       *)
(* columns and rows, a cursor, and what SetXY and printing a text do.      *)
(* DebugScreen.tla has the code of scr_printf.c, character by character,   *)
(* and checks Moved and Entered against it.                                *)
(***************************************************************************)
EXTENDS Integers

CONSTANTS MX, MY      \* SCREEN_COLUMNS and SCREEN_ROWS: 68 and 34

ASSUME ScreenAssumption == MX \in Nat \ {0} /\ MY \in Nat \ {0}

Columns == 0 .. MX - 1
RowNumbers == 0 .. MY - 1
Cursors == [x : Columns, y : RowNumbers]

\* psvDebugScreenSetXY: a coordinate that is off the grid is ignored by itself.
SetXY(cursor, x, y) == [x |-> IF x \in Columns THEN x ELSE cursor.x,
                        y |-> IF y \in RowNumbers THEN y ELSE cursor.y]

\* Where the cursor is after a text of n plain characters.
Moved(cursor, n) ==
  [x |-> (cursor.x + n) % MX,
   y |-> (cursor.y + (cursor.x + n) \div MX) % MY]

\* The rows the text enters: each is wiped, even if nothing is printed there.
Entered(cursor, n) ==
  {(cursor.y + k) % MY : k \in 1 .. (cursor.x + n) \div MX}

\* The text stays in its row: it ends before the last column.
Fits(cursor, n) == cursor.x + n < MX

=============================================================================
