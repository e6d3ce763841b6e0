---------------------------- MODULE DebugScreen -----------------------------
(***************************************************************************)
(* scr_printf.c: the statics X and Y, and printing one character after     *)
(* another.  The background and the clearing of lines are never switched   *)
(* off by the application (bg_enable and clearline_en stay 1), so a new    *)
(* line always wipes the row it enters.  Colours are left out.             *)
(***************************************************************************)
EXTENDS Screen, Sequences

CONSTANTS
  Texts,      \* the texts that are printed: sequences of characters
  BufSize,    \* the buffer psvDebugScreenPrintf formats into: 2048
  TabWidth    \* a tab is so many spaces: 5

ASSUME DebugScreenAssumption ==
  /\ Texts \subseteq Seq(STRING)
  /\ BufSize \in Nat \ {0}
  /\ TabWidth \in Nat \ {0}

VARIABLES
  init,       \* 1 once psvDebugScreenInit has run
  X, Y,       \* the cursor
  ink,        \* the cells with a character in them: <<x, y>>
  todo,       \* what is left of the text being printed
  spaces,     \* what is left of a tab being printed
  start,      \* observer: the cursor when the print began
  printed,    \* observer: how many characters of it have been printed
  plain,      \* observer: "yes": the text has no control characters
  touched     \* observer: the rows that this print has changed

cursorVars == <<X, Y>>
printVars == <<todo, spaces, start, printed, plain, touched>>
vars == <<init, cursorVars, ink, printVars>>

Cursor == [x |-> X, y |-> Y]
Control == {"\r", "\n", "\t"}
RowCells(y) == Columns \X {y}
IsPlain(text) == \A i \in DOMAIN text : text[i] \notin Control

\* msxFontInit16 and the frame buffer; before it, printing does nothing.
Init ==
  /\ init = 0
  /\ X = 0 /\ Y = 0
  /\ ink = {}
  /\ todo = << >> /\ spaces = 0
  /\ start = [x |-> 0, y |-> 0] /\ printed = 0 /\ plain = "yes" /\ touched = {}

Quiet == todo = << >> /\ spaces = 0

\* psvDebugScreenInit, called once by main.
ScreenInit ==
  /\ init = 0
  /\ init' = 1
  /\ X' = 0 /\ Y' = 0
  /\ ink' = {}
  /\ UNCHANGED printVars

\* psvDebugScreenClear wipes every row and moves the cursor to the top.
Clear ==
  /\ Quiet /\ init = 1
  /\ ink' = {}
  /\ X' = 0 /\ Y' = 0
  /\ start' = [x |-> 0, y |-> 0] /\ printed' = 0 /\ touched' = {}
  /\ UNCHANGED <<init, todo, spaces, plain>>

\* The pages pass rows below the last one, too.
Locate ==
  /\ Quiet /\ init = 1
  /\ \E x \in 0 .. MX, y \in 0 .. MY :
        LET to == SetXY(Cursor, x, y)
        IN X' = to.x /\ Y' = to.y /\ start' = to
  /\ printed' = 0 /\ touched' = {}
  /\ UNCHANGED <<init, ink, todo, spaces, plain>>

\* psvDebugScreenPrintf: a text that fills the buffer is truncated.
Truncated(text) ==
  IF Len(text) < BufSize THEN text ELSE SubSeq(text, 1, BufSize - 1)

Printf ==
  /\ Quiet /\ init = 1
  /\ \E text \in Texts :
        /\ todo' = Truncated(text)
        /\ plain' = IF IsPlain(Truncated(text)) THEN "yes" ELSE "no"
  /\ start' = Cursor /\ printed' = 0 /\ touched' = {}
  /\ UNCHANGED <<init, cursorVars, ink, spaces>>

\* Mutants: the column is kept; the row that is entered is not wiped.
NextRow_KeepsColumn(filled) ==
  LET row == IF Y + 1 >= MY THEN 0 ELSE Y + 1
  IN /\ Y' = row
     /\ ink' = filled \ RowCells(row)
     /\ touched' = touched \cup {Y, row}
     /\ UNCHANGED X

NextRow_NotWiped(filled) ==
  /\ X' = 0
  /\ Y' = IF Y + 1 >= MY THEN 0 ELSE Y + 1
  /\ ink' = filled
  /\ touched' = touched \cup {Y}

\* debug_next_line, with the row it leaves having the cells of filled.
NextRow(filled) ==
  LET row == IF Y + 1 >= MY THEN 0 ELSE Y + 1
  IN /\ X' = 0
     /\ Y' = row
     /\ ink' = filled \ RowCells(row)
     /\ touched' = touched \cup {Y, row}

\* Mutants: off by one at the last column, one way and the other.
PutChar_TooLate(filled) ==
  IF X >= MX
    THEN NextRow(filled)
    ELSE /\ X' = X + 1
         /\ ink' = filled
         /\ touched' = touched \cup {Y}
         /\ UNCHANGED Y

PutChar_TooEarly(filled) ==
  IF X + 2 >= MX
    THEN NextRow(filled)
    ELSE /\ X' = X + 1
         /\ ink' = filled
         /\ touched' = touched \cup {Y}
         /\ UNCHANGED Y

\* A character in the cell of the cursor; after the last column, a new line.
PutChar(filled) ==
  IF X + 1 >= MX
    THEN NextRow(filled)
    ELSE /\ X' = X + 1
         /\ ink' = filled
         /\ touched' = touched \cup {Y}
         /\ UNCHANGED Y

PrintChar ==
  /\ todo # << >> /\ spaces = 0
  /\ Head(todo) \notin Control
  /\ PutChar(ink \cup {<<X, Y>>})
  /\ todo' = Tail(todo)
  /\ printed' = printed + 1
  /\ UNCHANGED <<init, spaces, start, plain>>

NewLine ==
  /\ todo # << >> /\ spaces = 0
  /\ Head(todo) = "\n"
  /\ NextRow(ink)
  /\ todo' = Tail(todo)
  /\ printed' = printed + 1
  /\ UNCHANGED <<init, spaces, start, plain>>

CarriageReturn ==
  /\ todo # << >> /\ spaces = 0
  /\ Head(todo) = "\r"
  /\ X' = 0
  /\ todo' = Tail(todo)
  /\ printed' = printed + 1
  /\ UNCHANGED <<init, Y, ink, spaces, start, plain, touched>>

Tab ==
  /\ todo # << >> /\ spaces = 0
  /\ Head(todo) = "\t"
  /\ spaces' = TabWidth
  /\ todo' = Tail(todo)
  /\ printed' = printed + 1
  /\ UNCHANGED <<init, cursorVars, ink, start, plain, touched>>

\* A mutant: the spaces of a tab are not counted.
TabSpace_Endless ==
  /\ spaces > 0
  /\ PutChar(ink \ {<<X, Y>>})
  /\ UNCHANGED <<init, todo, spaces, start, printed, plain>>

\* A space has no ink and takes away the ink that was there.
TabSpace ==
  /\ spaces > 0
  /\ PutChar(ink \ {<<X, Y>>})
  /\ spaces' = spaces - 1
  /\ UNCHANGED <<init, todo, start, printed, plain>>

PrintData == PrintChar \/ NewLine \/ CarriageReturn \/ Tab \/ TabSpace

Next == ScreenInit \/ Clear \/ Locate \/ Printf \/ PrintData

Spec == Init /\ [][Next]_vars /\ WF_vars(PrintData)

-----------------------------------------------------------------------------
(* Properties.                                                             *)

\* Every variable has its type: in particular the cursor is inside the grid
\* before every single character, so no character is drawn off the screen.
TypeOK ==
  /\ init \in {0, 1}
  /\ X \in Columns /\ Y \in RowNumbers
  /\ ink \in SUBSET (Columns \X RowNumbers)
  /\ todo \in Seq(STRING)
  /\ spaces \in 0 .. TabWidth
  /\ start \in Cursors
  /\ printed \in Nat
  /\ plain \in {"yes", "no"}
  /\ touched \in SUBSET RowNumbers

\* A text of plain characters leaves the cursor where Moved says and has
\* changed its own row and the rows Entered says, and no other.
PlainTextMoves ==
  Quiet /\ plain = "yes" /\ printed > 0 =>
    /\ Cursor = Moved(start, printed)
    /\ touched = {start.y} \cup Entered(start, printed)

\* A text that ends before the last column changes nothing but its own row:
\* this is what the pages, which place every text by SetXY, rely on.
FittingTextKeepsRows ==
  plain = "yes" /\ Fits(start, printed) => touched \subseteq {start.y}

\* The last row a print has entered is empty beyond the cursor: a text that
\* reaches the last column has wiped whatever the page had printed there.
EnteredRowIsWiped ==
  plain = "yes" /\ ~Fits(start, printed) =>
    \A x \in Columns : x >= X => <<x, Y>> \notin ink

\* Every print comes to its end.
PrintEnds == (todo # << >>) ~> Quiet

=============================================================================
