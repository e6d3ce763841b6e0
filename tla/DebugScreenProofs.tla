-------------------------- MODULE DebugScreenProofs --------------------------
(***************************************************************************)
(* Proofs about printing, for every size of the grid and every text.       *)
(***************************************************************************)
EXTENDS DebugScreen, SequenceTheorems, TLAPS

-----------------------------------------------------------------------------
(* Division: one character more is one column more, or a new row.          *)

LEMMA DivMod ==
  ASSUME NEW n \in Nat, NEW m \in Nat \ {0}
  PROVE  /\ n % m \in 0 .. m - 1
         /\ n \div m \in Nat
         /\ n = (m * (n \div m)) + (n % m)
OBVIOUS

LEMMA DivModUnique ==
  ASSUME NEW m \in Nat \ {0}, NEW q \in Nat, NEW r \in 0 .. m - 1
  PROVE  /\ ((m * q) + r) \div m = q
         /\ ((m * q) + r) % m = r
OBVIOUS

LEMMA DivModNext ==
  ASSUME NEW n \in Nat, NEW m \in Nat \ {0}
  PROVE  IF (n % m) + 1 >= m
           THEN (n + 1) % m = 0 /\ (n + 1) \div m = (n \div m) + 1
           ELSE (n + 1) % m = (n % m) + 1 /\ (n + 1) \div m = n \div m
<1> DEFINE q == n \div m
<1> DEFINE r == n % m
<1>1. r \in 0 .. m - 1 /\ q \in Nat /\ n = (m * q) + r
  BY DivMod
<1> HIDE DEF q, r
<1>2. CASE r + 1 >= m
  <2>1. r + 1 = m
    BY <1>1, <1>2
  <2>2. m * (q + 1) = (m * q) + m
    BY <1>1
  <2>3. n + 1 = (m * (q + 1)) + 0 /\ q + 1 \in Nat /\ 0 \in 0 .. m - 1
    BY <1>1, <2>1, <2>2
  <2>4. /\ ((m * (q + 1)) + 0) % m = 0
        /\ ((m * (q + 1)) + 0) \div m = q + 1
    BY <2>3, DivModUnique
  <2>5. QED BY <1>2, <2>3, <2>4 DEF q, r
<1>3. CASE r + 1 < m
  <2>1. n + 1 = (m * q) + (r + 1) /\ r + 1 \in 0 .. m - 1
    BY <1>1, <1>3
  <2>2. /\ ((m * q) + (r + 1)) % m = r + 1
        /\ ((m * q) + (r + 1)) \div m = q
    BY <1>1, <2>1, DivModUnique
  <2>3. QED BY <1>3, <2>1, <2>2 DEF q, r
<1>4. QED BY <1>1, <1>2, <1>3

-----------------------------------------------------------------------------
(* What the actions do, apart from the text that is consumed.              *)

LEMMA RowAfter ==
  ASSUME NEW y \in RowNumbers
  PROVE  /\ (IF y + 1 >= MY THEN 0 ELSE y + 1) \in RowNumbers
         /\ (IF y + 1 >= MY THEN 0 ELSE y + 1) = (y + 1) % MY
<1>1. MY \in Nat \ {0} /\ y \in Nat /\ y < MY
  BY ScreenAssumption DEF RowNumbers
<1>2. y % MY = y
  BY <1>1
<1>3. IF y + 1 >= MY THEN (y + 1) % MY = 0 ELSE (y + 1) % MY = y + 1
  <2>1. IF (y % MY) + 1 >= MY THEN (y + 1) % MY = 0 ELSE (y + 1) % MY = (y % MY) + 1
    BY <1>1, DivModNext
  <2>2. QED BY <1>2, <2>1
<1>4. (y + 1) % MY \in RowNumbers
  BY <1>1, <1>3 DEF RowNumbers
<1>5. QED BY <1>3, <1>4

LEMMA NextRowMoves ==
  ASSUME TypeOK, NEW filled \in SUBSET (Columns \X RowNumbers), NextRow(filled)
  PROVE  /\ X' = 0 /\ X' \in Columns
         /\ Y' = (Y + 1) % MY /\ Y' \in RowNumbers
         /\ touched' = touched \cup {Y, Y'} /\ touched' \in SUBSET RowNumbers
         /\ ink' \in SUBSET (Columns \X RowNumbers)
         /\ \A x \in Columns : <<x, Y'>> \notin ink'
<1>1. X \in Columns /\ Y \in RowNumbers /\ touched \in SUBSET RowNumbers
  BY DEF TypeOK
<1>2. 0 \in Columns
  BY ScreenAssumption DEF Columns
<1>3. X' = 0 /\ Y' = (IF Y + 1 >= MY THEN 0 ELSE Y + 1)
  BY DEF NextRow
<1>4. Y' = (Y + 1) % MY /\ Y' \in RowNumbers
  BY <1>1, <1>3, RowAfter
<1>5. ink' = filled \ (Columns \X {Y'}) /\ touched' = touched \cup {Y, Y'}
  BY <1>3 DEF NextRow, RowCells
<1>6. QED BY <1>1, <1>2, <1>3, <1>4, <1>5

LEMMA PutCharMoves ==
  ASSUME TypeOK, NEW filled \in SUBSET (Columns \X RowNumbers), PutChar(filled)
  PROVE  /\ X' \in Columns /\ Y' \in RowNumbers
         /\ touched' \in SUBSET RowNumbers
         /\ ink' \in SUBSET (Columns \X RowNumbers)
         /\ IF X + 1 >= MX
              THEN /\ X' = 0 /\ Y' = (Y + 1) % MY
                   /\ touched' = touched \cup {Y, Y'}
                   /\ \A x \in Columns : <<x, Y'>> \notin ink'
              ELSE /\ X' = X + 1 /\ Y' = Y
                   /\ touched' = touched \cup {Y}
                   /\ ink' = filled
<1>1. CASE X + 1 >= MX
  <2>1. NextRow(filled)
    BY <1>1 DEF PutChar
  <2>2. QED BY <1>1, <2>1, NextRowMoves
<1>2. CASE ~(X + 1 >= MX)
  <2>1. X' = X + 1 /\ Y' = Y /\ touched' = touched \cup {Y} /\ ink' = filled
    BY <1>2 DEF PutChar
  <2>2. X + 1 \in Columns
    BY <1>2, ScreenAssumption DEF TypeOK, Columns
  <2>3. QED BY <1>2, <2>1, <2>2 DEF TypeOK
<1>3. QED BY <1>1, <1>2

LEMMA InkTyped ==
  ASSUME TypeOK
  PROVE  /\ ink \cup {<<X, Y>>} \in SUBSET (Columns \X RowNumbers)
         /\ ink \ {<<X, Y>>} \in SUBSET (Columns \X RowNumbers)
         /\ ink \in SUBSET (Columns \X RowNumbers)
BY DEF TypeOK

LEMMA CursorTyped ==
  ASSUME TypeOK
  PROVE  /\ Cursor \in Cursors
         /\ \A x, y : SetXY(Cursor, x, y) \in Cursors
BY DEF TypeOK, Cursor, Cursors, SetXY

LEMMA ScreenOrigin == 0 \in Columns /\ 0 \in RowNumbers
BY ScreenAssumption DEF Columns, RowNumbers

LEMMA TruncatedTyped ==
  ASSUME NEW text \in Texts
  PROVE  Truncated(text) \in Seq(STRING)
<1>1. text \in Seq(STRING) /\ BufSize \in Nat \ {0} /\ Len(text) \in Nat
  BY DebugScreenAssumption
<1>2. CASE Len(text) < BufSize
  BY <1>1, <1>2 DEF Truncated
<1>3. CASE ~(Len(text) < BufSize)
  <2>1. \A i \in 1 .. BufSize - 1 : text[i] \in STRING
    BY <1>1, <1>3
  <2>2. SubSeq(text, 1, BufSize - 1) \in Seq(STRING)
    BY <1>1, <2>1, SubSeqProperties
  <2>3. QED BY <1>3, <2>2 DEF Truncated
<1>4. QED BY <1>2, <1>3

\* The character that is taken off the text.
Consumes ==
  /\ todo # << >> /\ spaces = 0
  /\ todo' = Tail(todo) /\ printed' = printed + 1
  /\ UNCHANGED <<init, start, plain>>

LEMMA ConsumesTyped ==
  ASSUME TypeOK, Consumes
  PROVE  /\ todo' \in Seq(STRING) /\ printed' \in Nat
         /\ Head(todo) = todo[1] /\ 1 \in DOMAIN todo
         /\ \A i \in DOMAIN todo' : i + 1 \in DOMAIN todo /\ todo'[i] = todo[i + 1]
<1>1. todo \in Seq(STRING) /\ todo # << >> /\ todo' = Tail(todo)
  BY DEF TypeOK, Consumes
<1>2. /\ Tail(todo) \in Seq(STRING) /\ Len(Tail(todo)) = Len(todo) - 1
      /\ \A i \in 1 .. Len(Tail(todo)) : Tail(todo)[i] = todo[i + 1]
  BY <1>1, HeadTailProperties
<1>3. Len(todo) \in Nat /\ Len(todo) > 0 /\ DOMAIN todo = 1 .. Len(todo)
  BY <1>1, EmptySeq
<1>4. DOMAIN Tail(todo) = 1 .. Len(todo) - 1
  BY <1>2, <1>3
<1>5. QED BY <1>1, <1>2, <1>3, <1>4 DEF TypeOK, Consumes

LEMMA PrintDataConsumes ==
  /\ PrintChar => Consumes /\ spaces' = spaces /\ PutChar(ink \cup {<<X, Y>>})
  /\ NewLine => Consumes /\ spaces' = spaces /\ NextRow(ink)
  /\ CarriageReturn => Consumes /\ X' = 0 /\ UNCHANGED <<spaces, Y, ink, touched>>
  /\ Tab => Consumes /\ spaces' = TabWidth /\ UNCHANGED <<X, Y, ink, touched>>
BY Zenon DEF PrintChar, NewLine, CarriageReturn, Tab, Consumes, cursorVars

LEMMA ControlsAreControl ==
  NewLine \/ CarriageReturn \/ Tab => Head(todo) \in Control
BY Zenon DEF NewLine, CarriageReturn, Tab, Control

-----------------------------------------------------------------------------
(* Types.                                                                  *)

\* The cursor is inside the grid before every single character, whatever the
\* text, the coordinates a page asks for and the size of the grid.
THEOREM TypeCorrect == Spec => []TypeOK
<1>1. Init => TypeOK
  BY ScreenOrigin, DebugScreenAssumption DEF Init, TypeOK, Cursors
<1>2. TypeOK /\ [Next]_vars => TypeOK'
  <2> SUFFICES ASSUME TypeOK, [Next]_vars PROVE TypeOK'
    OBVIOUS
  <2>1. CASE ScreenInit
    BY <2>1, ScreenOrigin DEF ScreenInit, TypeOK, printVars
  <2>2. CASE Clear
    BY <2>2, ScreenOrigin DEF Clear, TypeOK, Cursors
  <2>3. CASE Locate
    <3>1. PICK to \in Cursors : X' = to.x /\ Y' = to.y /\ start' = to
      BY <2>3, CursorTyped DEF Locate
    <3>2. to.x \in Columns /\ to.y \in RowNumbers
      BY DEF Cursors
    <3>3. QED BY <2>3, <3>1, <3>2 DEF Locate, TypeOK
  <2>4. CASE Printf
    <3>1. todo' \in Seq(STRING) /\ plain' \in {"yes", "no"}
      BY <2>4, TruncatedTyped DEF Printf
    <3>2. QED BY <2>4, <3>1, CursorTyped DEF Printf, TypeOK, cursorVars
  <2>5. CASE PrintChar
    <3>1. Consumes /\ spaces' = spaces /\ PutChar(ink \cup {<<X, Y>>})
      BY <2>5, PrintDataConsumes
    <3>2. /\ X' \in Columns /\ Y' \in RowNumbers /\ touched' \in SUBSET RowNumbers
          /\ ink' \in SUBSET (Columns \X RowNumbers)
      BY <3>1, InkTyped, PutCharMoves
    <3>3. QED BY <3>1, <3>2, ConsumesTyped DEF TypeOK, Consumes
  <2>6. CASE NewLine
    <3>1. Consumes /\ spaces' = spaces /\ NextRow(ink)
      BY <2>6, PrintDataConsumes
    <3>2. /\ X' \in Columns /\ Y' \in RowNumbers /\ touched' \in SUBSET RowNumbers
          /\ ink' \in SUBSET (Columns \X RowNumbers)
      BY <3>1, InkTyped, NextRowMoves
    <3>3. QED BY <3>1, <3>2, ConsumesTyped DEF TypeOK, Consumes
  <2>7. CASE CarriageReturn
    <3>1. Consumes /\ X' = 0 /\ UNCHANGED <<spaces, Y, ink, touched>>
      BY <2>7, PrintDataConsumes
    <3>2. QED BY <3>1, ScreenOrigin, ConsumesTyped DEF TypeOK, Consumes
  <2>8. CASE Tab
    <3>1. Consumes /\ spaces' = TabWidth /\ UNCHANGED <<X, Y, ink, touched>>
      BY <2>8, PrintDataConsumes
    <3>2. QED BY <3>1, DebugScreenAssumption, ConsumesTyped DEF TypeOK, Consumes
  <2>9. CASE TabSpace
    <3>1. /\ spaces > 0 /\ spaces' = spaces - 1 /\ PutChar(ink \ {<<X, Y>>})
          /\ UNCHANGED <<init, todo, start, printed, plain>>
      BY <2>9 DEF TabSpace
    <3>2. /\ X' \in Columns /\ Y' \in RowNumbers /\ touched' \in SUBSET RowNumbers
          /\ ink' \in SUBSET (Columns \X RowNumbers)
      BY <3>1, InkTyped, PutCharMoves
    <3>3. spaces' \in 0 .. TabWidth
      BY <3>1, DebugScreenAssumption DEF TypeOK
    <3>4. QED BY <3>1, <3>2, <3>3 DEF TypeOK
  <2>10. CASE UNCHANGED vars
    BY <2>10 DEF vars, cursorVars, printVars, TypeOK
  <2>11. QED
    BY <2>1, <2>2, <2>3, <2>4, <2>5, <2>6, <2>7, <2>8, <2>9, <2>10
    DEF Next, PrintData
<1>3. QED BY <1>1, <1>2, PTL DEF Spec

-----------------------------------------------------------------------------
(* What a plain text does, at every character of it.                       *)

\* Nothing is on the screen before psvDebugScreenInit.
BeginInv ==
  /\ init = 0 => Quiet /\ printed = 0 /\ start = [x |-> 0, y |-> 0]
  /\ printed = 0 => spaces = 0 /\ Cursor = start /\ touched = {}

PlainInv ==
  plain = "yes" =>
    /\ spaces = 0
    /\ \A i \in DOMAIN todo : todo[i] \notin Control
    /\ Cursor = Moved(start, printed)
    /\ printed > 0 => touched = {start.y} \cup Entered(start, printed)
    /\ ~Fits(start, printed) => \A x \in Columns : x >= X => <<x, Y>> \notin ink

\* A text of no characters leaves the cursor where it is.
LEMMA MovedByNothing ==
  ASSUME NEW c \in Cursors
  PROVE  Moved(c, 0) = c /\ Fits(c, 0)
<1>1. c = [x |-> c.x, y |-> c.y] /\ c.x \in 0 .. MX - 1 /\ c.y \in 0 .. MY - 1
  BY DEF Cursors, Columns, RowNumbers
<1>2. MX \in Nat \ {0} /\ MY \in Nat \ {0}
  BY ScreenAssumption
<1>3. c.x + 0 = (MX * 0) + c.x /\ c.y + 0 = (MY * 0) + c.y
  BY <1>1, <1>2
<1>4. (c.x + 0) % MX = c.x /\ (c.x + 0) \div MX = 0 /\ (c.y + 0) % MY = c.y
  BY <1>1, <1>2, <1>3, DivModUnique
<1>5. QED BY <1>1, <1>2, <1>4 DEF Moved, Fits

\* Moved and Entered follow the text character by character.
LEMMA MovedByOne ==
  ASSUME NEW c \in Cursors, NEW n \in Nat
  PROVE  LET at == Moved(c, n)
         IN /\ at \in Cursors
            /\ IF at.x + 1 >= MX
                 THEN /\ Moved(c, n + 1) = [x |-> 0, y |-> (at.y + 1) % MY]
                      /\ Entered(c, n + 1) = Entered(c, n) \cup {(at.y + 1) % MY}
                 ELSE /\ Moved(c, n + 1) = [x |-> at.x + 1, y |-> at.y]
                      /\ Entered(c, n + 1) = Entered(c, n)
                      /\ Fits(c, n) => Fits(c, n + 1)
            /\ n = 0 => Entered(c, n) = {}
            /\ at.y \in {c.y} \cup Entered(c, n)
            /\ Fits(c, n) => Entered(c, n) = {}
<1> DEFINE q == (c.x + n) \div MX
<1> DEFINE r == (c.x + n) % MX
<1>1. /\ c.x \in Nat /\ c.x < MX /\ c.y \in Nat /\ c.y < MY
      /\ MX \in Nat \ {0} /\ MY \in Nat \ {0} /\ c.x + n \in Nat
  BY ScreenAssumption DEF Cursors, Columns, RowNumbers
<1>2. r \in 0 .. MX - 1 /\ q \in Nat /\ c.x + n = (MX * q) + r
  BY <1>1, DivMod
<1>3. c.x + (n + 1) = (c.x + n) + 1
  BY <1>1
<1>4. IF r + 1 >= MX
        THEN (c.x + (n + 1)) % MX = 0 /\ (c.x + (n + 1)) \div MX = q + 1
        ELSE (c.x + (n + 1)) % MX = r + 1 /\ (c.x + (n + 1)) \div MX = q
  BY <1>1, <1>3, DivModNext
<1>5. Moved(c, n) = [x |-> r, y |-> (c.y + q) % MY]
  BY DEF Moved
<1>6. Entered(c, n) = {(c.y + k) % MY : k \in 1 .. q}
  BY DEF Entered
<1>7. Moved(c, n + 1) = [x |-> (c.x + (n + 1)) % MX,
                         y |-> (c.y + ((c.x + (n + 1)) \div MX)) % MY]
  BY DEF Moved
<1>8. Entered(c, n + 1) = {(c.y + k) % MY : k \in 1 .. ((c.x + (n + 1)) \div MX)}
  BY DEF Entered
<1>9. ((c.y + q) % MY) \in 0 .. MY - 1
  <2>1. c.y + q \in Nat
    BY <1>1, <1>2
  <2>2. QED BY <1>1, <2>1, DivMod
<1>10. (((c.y + q) % MY) + 1) % MY = (c.y + (q + 1)) % MY
  <2>1. c.y + (q + 1) = (c.y + q) + 1 /\ c.y + q \in Nat
    BY <1>1, <1>2
  <2>2. IF ((c.y + q) % MY) + 1 >= MY
          THEN ((c.y + q) + 1) % MY = 0
          ELSE ((c.y + q) + 1) % MY = ((c.y + q) % MY) + 1
    BY <1>1, <2>1, DivModNext
  <2>3. (IF ((c.y + q) % MY) + 1 >= MY THEN 0 ELSE ((c.y + q) % MY) + 1)
          = (((c.y + q) % MY) + 1) % MY
    BY <1>9, RowAfter DEF RowNumbers
  <2>4. QED BY <2>1, <2>2, <2>3
<1>11. Fits(c, n) => q = 0
  <2>1. SUFFICES ASSUME c.x + n < MX PROVE q = 0
    BY DEF Fits
  <2>2. c.x + n = (MX * 0) + (c.x + n) /\ c.x + n \in 0 .. MX - 1
    BY <1>1, <2>1
  <2>3. ((MX * 0) + (c.x + n)) \div MX = 0
    BY <1>1, <2>2, DivModUnique
  <2>4. QED BY <2>2, <2>3
<1>12. c.y % MY = c.y
  BY <1>1
<1> HIDE DEF q, r
<1>13. n = 0 => q = 0
  BY <1>1, <1>11 DEF Fits
<1>14. q = 0 => Entered(c, n) = {} /\ (c.y + q) % MY = c.y
  BY <1>1, <1>6, <1>12
<1>15. q > 0 => (c.y + q) % MY \in Entered(c, n)
  BY <1>2, <1>6
<1>16. CASE r + 1 >= MX
  <2>1. {(c.y + k) % MY : k \in 1 .. q + 1}
          = {(c.y + k) % MY : k \in 1 .. q} \cup {(c.y + (q + 1)) % MY}
    <3>1. 1 .. q + 1 = (1 .. q) \cup {q + 1}
      BY <1>2
    <3>2. QED BY <3>1, Zenon
  <2>2. QED BY <1>2, <1>4, <1>5, <1>6, <1>7, <1>8, <1>9, <1>10, <1>11, <1>13,
               <1>14, <1>15, <1>16, <2>1 DEF Cursors, Columns, RowNumbers
<1>17. CASE ~(r + 1 >= MX)
  <2>1. Fits(c, n) => Fits(c, n + 1)
    <3>1. SUFFICES ASSUME Fits(c, n) PROVE Fits(c, n + 1)
      OBVIOUS
    <3>2. c.x + n = r
      BY <1>1, <1>2, <1>11, <3>1
    <3>3. QED BY <1>1, <1>2, <1>3, <1>17, <3>2 DEF Fits
  <2>2. QED BY <1>2, <1>4, <1>5, <1>6, <1>7, <1>8, <1>9, <1>11, <1>13,
               <1>14, <1>15, <1>17, <2>1 DEF Cursors, Columns, RowNumbers
<1>18. QED BY <1>16, <1>17

LEMMA BeginInvariant == Spec => []BeginInv
<1>1. Init => BeginInv
  BY DEF Init, BeginInv, Cursor, Quiet
<1>2. TypeOK /\ BeginInv /\ [Next]_vars => BeginInv'
  <2> SUFFICES ASSUME TypeOK, BeginInv, [Next]_vars PROVE BeginInv'
    OBVIOUS
  <2>1. CASE ScreenInit
    BY <2>1 DEF ScreenInit, BeginInv, Cursor, printVars, Quiet
  <2>2. CASE Clear
    BY <2>2 DEF Clear, BeginInv, Cursor, Quiet
  <2>3. CASE Locate
    <3>1. PICK to \in Cursors : X' = to.x /\ Y' = to.y /\ start' = to
      BY <2>3, CursorTyped DEF Locate
    <3>2. to = [x |-> to.x, y |-> to.y]
      BY DEF Cursors
    <3>3. QED BY <2>3, <3>1, <3>2 DEF Locate, BeginInv, Cursor, Quiet
  <2>4. CASE Printf
    BY <2>4 DEF Printf, BeginInv, Cursor, cursorVars, Quiet
  <2>5. CASE Consumes
    <3>1. printed' \in Nat /\ printed' # 0
      BY <2>5 DEF Consumes, TypeOK
    <3>2. init' # 0
      BY <2>5 DEF Consumes, BeginInv, TypeOK, Quiet
    <3>3. QED BY <3>1, <3>2 DEF BeginInv
  <2>6. CASE TabSpace
    <3>1. spaces > 0 /\ UNCHANGED <<init, printed>>
      BY <2>6 DEF TabSpace
    <3>2. init # 0 /\ printed # 0
      BY <3>1 DEF BeginInv, Quiet
    <3>3. QED BY <3>1, <3>2 DEF BeginInv
  <2>7. CASE UNCHANGED vars
    BY <2>7 DEF vars, cursorVars, printVars, BeginInv, Cursor, Quiet
  <2>8. QED
    BY <2>1, <2>2, <2>3, <2>4, <2>5, <2>6, <2>7, PrintDataConsumes
    DEF Next, PrintData
<1>3. QED BY <1>1, <1>2, TypeCorrect, PTL DEF Spec

\* A print begins: nothing of it is printed, and the text has no character
\* or is what Printf found in it.
LEMMA PlainBegins ==
  ASSUME TypeOK', printed' = 0, spaces' = 0, Cursor' = start',
         plain' = "yes" => \A i \in DOMAIN todo' : todo'[i] \notin Control
  PROVE  PlainInv'
<1>1. start' \in Cursors
  BY DEF TypeOK
<1>2. Moved(start', 0) = start' /\ Fits(start', 0)
  BY <1>1, MovedByNothing
<1>3. Cursor' = Moved(start', printed') /\ Fits(start', printed') /\ ~(printed' > 0)
  BY <1>2
<1>4. QED BY <1>3, Zenon DEF PlainInv

LEMMA PlainGoesOn ==
  ASSUME TypeOK, TypeOK', BeginInv, PlainInv, PrintChar
  PROVE  PlainInv'
<1> SUFFICES ASSUME plain' = "yes"
             PROVE  /\ spaces' = 0
                    /\ \A i \in DOMAIN todo' : todo'[i] \notin Control
                    /\ Cursor' = Moved(start', printed')
                    /\ printed' > 0 =>
                         touched' = {start'.y} \cup Entered(start', printed')
                    /\ ~Fits(start', printed') =>
                         \A x \in Columns : x >= X' => <<x, Y'>> \notin ink'
  BY Zenon DEF PlainInv
<1>1. Consumes /\ spaces' = spaces /\ PutChar(ink \cup {<<X, Y>>})
  BY PrintDataConsumes
<1>2. plain = "yes" /\ start' = start /\ printed' = printed + 1
  BY <1>1 DEF Consumes
<1>3. /\ spaces = 0
      /\ \A i \in DOMAIN todo : todo[i] \notin Control
      /\ Cursor = Moved(start, printed)
      /\ printed > 0 => touched = {start.y} \cup Entered(start, printed)
      /\ ~Fits(start, printed) => \A x \in Columns : x >= X => <<x, Y>> \notin ink
  BY <1>2, Zenon DEF PlainInv
<1>4. start \in Cursors /\ printed \in Nat
  BY DEF TypeOK
<1>5. \A i \in DOMAIN todo' : todo'[i] \notin Control
  BY <1>1, <1>3, ConsumesTyped
<1>6. X \in Columns /\ Y \in RowNumbers /\ Cursor.x = X /\ Cursor.y = Y
  BY DEF TypeOK, Cursor
<1>7. /\ IF X + 1 >= MX
           THEN /\ Moved(start, printed + 1) = [x |-> 0, y |-> (Y + 1) % MY]
                /\ Entered(start, printed + 1)
                     = Entered(start, printed) \cup {(Y + 1) % MY}
           ELSE /\ Moved(start, printed + 1) = [x |-> X + 1, y |-> Y]
                /\ Entered(start, printed + 1) = Entered(start, printed)
                /\ Fits(start, printed) => Fits(start, printed + 1)
      /\ printed = 0 => Entered(start, printed) = {}
      /\ Y \in {start.y} \cup Entered(start, printed)
  BY <1>3, <1>4, <1>6, MovedByOne
<1>8. touched \cup {Y} = {start.y} \cup Entered(start, printed)
  <2>1. CASE printed = 0
    BY <1>7, <2>1 DEF BeginInv
  <2>2. CASE printed > 0
    BY <1>3, <1>7, <2>2
  <2>3. QED BY <1>4, <2>1, <2>2
<1>9. IF X + 1 >= MX
        THEN /\ X' = 0 /\ Y' = (Y + 1) % MY
             /\ touched' = touched \cup {Y, Y'}
             /\ \A x \in Columns : <<x, Y'>> \notin ink'
        ELSE /\ X' = X + 1 /\ Y' = Y
             /\ touched' = touched \cup {Y}
             /\ ink' = ink \cup {<<X, Y>>}
  BY <1>1, InkTyped, PutCharMoves
<1>10. Cursor' = [x |-> X', y |-> Y']
  BY DEF Cursor
<1>11. CASE X + 1 >= MX
  <2>1. Cursor' = Moved(start, printed + 1)
    BY <1>7, <1>9, <1>10, <1>11
  <2>2. touched' = {start.y} \cup Entered(start, printed + 1)
    BY <1>7, <1>8, <1>9, <1>11
  <2>3. \A x \in Columns : <<x, Y'>> \notin ink'
    BY <1>9, <1>11
  <2>4. QED BY <1>1, <1>2, <1>3, <1>5, <2>1, <2>2, <2>3
<1>12. CASE ~(X + 1 >= MX)
  <2>1. Cursor' = Moved(start, printed + 1)
    BY <1>7, <1>9, <1>10, <1>12
  <2>2. touched' = {start.y} \cup Entered(start, printed + 1)
    BY <1>7, <1>8, <1>9, <1>12
  <2>3. ASSUME ~Fits(start, printed + 1), NEW x \in Columns, x >= X'
        PROVE  <<x, Y'>> \notin ink'
    <3>1. X' = X + 1 /\ Y' = Y /\ ink' = ink \cup {<<X, Y>>}
      BY <1>9, <1>12
    <3>2. x \in Int /\ X \in Int
      BY <1>6, ScreenAssumption DEF Columns
    <3>3. x >= X /\ x # X
      BY <2>3, <3>1, <3>2
    <3>4. ~Fits(start, printed)
      BY <1>7, <1>12, <2>3
    <3>5. QED BY <1>3, <3>1, <3>3, <3>4
  <2>4. QED BY <1>1, <1>2, <1>3, <1>5, <2>1, <2>2, <2>3
<1>13. QED BY <1>11, <1>12

LEMMA PlainInvariant == Spec => []PlainInv
<1>1. Init => PlainInv
  <2> SUFFICES ASSUME Init PROVE PlainInv
    OBVIOUS
  <2>1. start \in Cursors /\ printed = 0 /\ spaces = 0 /\ Cursor = start
    BY ScreenOrigin DEF Init, Cursor, Cursors
  <2>2. DOMAIN todo = {}
    BY DEF Init
  <2>3. Moved(start, 0) = start /\ Fits(start, 0)
    BY <2>1, MovedByNothing
  <2>4. QED BY <2>1, <2>2, <2>3 DEF PlainInv
<1>2. TypeOK /\ TypeOK' /\ BeginInv /\ BeginInv' /\ PlainInv /\ [Next]_vars
        => PlainInv'
  <2> SUFFICES ASSUME TypeOK, TypeOK', BeginInv, BeginInv', PlainInv, [Next]_vars
               PROVE  PlainInv'
    OBVIOUS
  <2>1. CASE ScreenInit \/ Clear \/ Locate
    <3>1. todo' = << >> /\ printed' = 0
      BY <2>1 DEF ScreenInit, Clear, Locate, printVars, BeginInv, Quiet
    <3>2. spaces' = 0 /\ Cursor' = start'
      BY <3>1 DEF BeginInv
    <3>3. \A i \in DOMAIN todo' : todo'[i] \notin Control
      BY <3>1
    <3>4. QED BY <3>1, <3>2, <3>3, PlainBegins
  <2>2. CASE Printf
    <3>1. printed' = 0
      BY <2>2 DEF Printf
    <3>2. spaces' = 0 /\ Cursor' = start'
      BY <3>1 DEF BeginInv
    <3>3. plain' = "yes" => \A i \in DOMAIN todo' : todo'[i] \notin Control
      BY <2>2, Zenon DEF Printf, IsPlain
    <3>4. QED BY <3>1, <3>2, <3>3, PlainBegins
  <2>3. CASE PrintChar
    BY <2>3, PlainGoesOn
  <2>4. CASE NewLine \/ CarriageReturn \/ Tab
    <3>1. Consumes /\ Head(todo) \in Control
      BY <2>4, PrintDataConsumes, ControlsAreControl
    <3>2. todo[1] \in Control /\ 1 \in DOMAIN todo /\ plain' = plain
      BY <3>1, ConsumesTyped DEF Consumes
    <3>3. QED BY <3>2, Zenon DEF PlainInv
  <2>5. CASE TabSpace
    <3>1. spaces > 0 /\ plain' = plain
      BY <2>5 DEF TabSpace
    <3>2. QED BY <3>1 DEF PlainInv
  <2>6. CASE UNCHANGED vars
    BY <2>6 DEF vars, cursorVars, printVars, PlainInv, Cursor
  <2>7. QED BY <2>1, <2>2, <2>3, <2>4, <2>5, <2>6 DEF Next, PrintData
<1>3. QED BY <1>1, <1>2, TypeCorrect, BeginInvariant, PTL DEF Spec

\* A plain text moves the cursor as Moved says, and changes the rows Entered
\* says, whatever the size of the grid: ListPages and Summary rely on this.
THEOREM PlainTextAlwaysMoves == Spec => []PlainTextMoves
<1>1. PlainInv => PlainTextMoves
  BY DEF PlainInv, PlainTextMoves
<1>2. QED BY <1>1, PlainInvariant, PTL

\* A text that ends before the last column changes nothing but its own row.
THEOREM FittingTextAlwaysKeepsRows == Spec => []FittingTextKeepsRows
<1>1. TypeOK /\ BeginInv /\ PlainInv => FittingTextKeepsRows
  <2> SUFFICES ASSUME TypeOK, BeginInv, PlainInv, plain = "yes", Fits(start, printed)
               PROVE  touched \subseteq {start.y}
    BY DEF FittingTextKeepsRows
  <2>1. start \in Cursors /\ printed \in Nat
    BY DEF TypeOK
  <2>2. Entered(start, printed) = {}
    BY <2>1, MovedByOne
  <2>3. touched = {} \/ touched = {start.y} \cup Entered(start, printed)
    BY <2>1 DEF BeginInv, PlainInv
  <2>4. QED BY <2>2, <2>3
<1>2. QED BY <1>1, TypeCorrect, BeginInvariant, PlainInvariant, PTL

\* A text that reaches the last column wipes the row it enters.
THEOREM EnteredRowAlwaysWiped == Spec => []EnteredRowIsWiped
<1>1. PlainInv => EnteredRowIsWiped
  BY DEF PlainInv, EnteredRowIsWiped
<1>2. QED BY <1>1, PlainInvariant, PTL

=============================================================================
