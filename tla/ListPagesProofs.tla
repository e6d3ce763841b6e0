--------------------------- MODULE ListPagesProofs ---------------------------
(***************************************************************************)
(* Proofs about the list pages, for any lists of items, of any length, and *)
(* any number of failures.                                                 *)
(***************************************************************************)
EXTENDS ListPages, SequenceTheorems, TLAPS

LEMMA FieldsFacts ==
  ASSUME NEW p \in Pages
  PROVE  Len(Fields[p]) = 6 /\ \A c \in 1 .. 6 : Fields[p][c] \in 0 .. 6
BY DEF Fields, Pages

\* How a getter may end.
LEMMA GetFacts ==
  ASSUME ItemsAndFaults, TypeOK, Get
  PROVE  /\ \/ ret' = "ok" /\ (Available \/ Stray) /\ slot' = Mine /\ faults' = faults
            \/ ret' = "error" /\ slot' = AfterFailure
         /\ ret' = "error" /\ Available => faults' = faults + 1
         /\ faults' \in 0 .. MaxFaults /\ faults' >= faults
BY DEF Get, Fault, TypeOK, ItemsAndFaults

\* A getter leaves in slot a field of its own item, nothing, or what was there.
LEMMA SlotTyped ==
  ASSUME ItemsAndFaults, TypeOK, Get
  PROVE  slot' \in CellTypes
<1>1. Mine \in CellTypes
  <2>1. Fields[page][field] \in 0 .. 6
    BY FieldsFacts DEF TypeOK, FieldNumbers
  <2>2. QED BY <2>1 DEF Mine, CellTypes, TypeOK
<1>2. AfterFailure \in CellTypes
  BY DEF AfterFailure, CellTypes, TypeOK
<1>3. QED BY <1>1, <1>2, GetFacts

-----------------------------------------------------------------------------
(* Types, with what a row is and where the loop stands.                     *)

RowTypes == [item : Nat \ {0}, row : Nat, cells : Seq(CellTypes)]

\* The row that is being filled: its item was answered for, and it has the cells of
\* the fields asked for so far; modules() does not print what it asks first.
Filling ==
  /\ rows # << >>
  /\ i \in Answerable
  /\ source = "ready"
  /\ rows[Len(rows)].item = i
  /\ Len(rows[Len(rows)].cells) = IF page = "playlog" THEN field - 1 ELSE field - 2

LoopInv ==
  /\ Len(items) \in Nat /\ DOMAIN items = 1 .. Len(items)
  /\ rows \in Seq(RowTypes)
  /\ pc = "begin" => rows = << >> /\ i = 1 /\ field = 1 /\ y = FirstRow
  /\ pc = "first" => field = 1 /\ y <= LastRow
  /\ pc = "field" => field \in 2 .. 6 /\ y <= LastRow /\ Filling

TypeInv == TypeOK /\ LoopInv

\* The items and what may lie behind them stay as long as the page is drawn.
LEMMA AnswerableFacts ==
  ASSUME ItemsAndFaults, TypeInv
  PROVE  /\ Answerable \subseteq Nat \ {0}
         /\ Available \/ Stray => i \in Answerable
         /\ items' = items => Answerable' = Answerable
<1>1. Len(items) \in Nat /\ MaxStray \in Nat /\ i \in Nat \ {0}
  BY DEF ItemsAndFaults, TypeInv, TypeOK, LoopInv
<1>2. Answerable \subseteq Nat \ {0}
  BY <1>1 DEF Answerable
<1>3. Available \/ Stray => i \in Answerable
  BY <1>1 DEF Answerable, Available, Stray
<1>4. items' = items => Answerable' = Answerable
  BY DEF Answerable
<1>5. QED BY <1>2, <1>3, <1>4

\* The row that First appends.
NewRow == [item |-> i, row |-> y, cells |-> IF page = "playlog" THEN <<slot'>> ELSE << >>]

LEMMA NewRowFacts ==
  ASSUME ItemsAndFaults, TypeInv, Get
  PROVE  /\ NewRow \in RowTypes
         /\ NewRow.item = i /\ NewRow.row = y
         /\ Len(NewRow.cells) = IF page = "playlog" THEN 1 ELSE 0
         /\ \A c \in DOMAIN NewRow.cells : page = "playlog" /\ c = 1 /\ NewRow.cells[c] = slot'
<1>1. slot' \in CellTypes
  BY SlotTyped DEF TypeInv
<1>2. <<slot'>> \in Seq(CellTypes) /\ << >> \in Seq(CellTypes)
  BY <1>1
<1>3. QED BY <1>2 DEF NewRow, RowTypes, TypeInv, TypeOK

\* Appending a row keeps the others.
LEMMA AppendRow ==
  ASSUME NEW s \in Seq(RowTypes), NEW r \in RowTypes
  PROVE  /\ Append(s, r) \in Seq(RowTypes) /\ Append(s, r) # << >>
         /\ DOMAIN s = 1 .. Len(s) /\ Len(s) \in Nat
         /\ Len(Append(s, r)) = Len(s) + 1
         /\ DOMAIN Append(s, r) = 1 .. Len(s) + 1
         /\ \A k \in 1 .. Len(s) : Append(s, r)[k] = s[k]
         /\ Append(s, r)[Len(s) + 1] = r
BY AppendProperties, LenProperties

LEMMA RowWithCells ==
  ASSUME NEW q \in RowTypes, NEW cells \in Seq(CellTypes)
  PROVE  /\ [q EXCEPT !.cells = cells] \in RowTypes
         /\ [q EXCEPT !.cells = cells].cells = cells
         /\ [q EXCEPT !.cells = cells].item = q.item
         /\ [q EXCEPT !.cells = cells].row = q.row
BY DEF RowTypes

\* Printing a cell e changes the last row of s, and there only the cells.
Grown(s, e, t) ==
  /\ t \in Seq(RowTypes) /\ t # << >>
  /\ Len(s) \in Nat \ {0} /\ Len(t) = Len(s)
  /\ DOMAIN s = 1 .. Len(s) /\ DOMAIN t = 1 .. Len(s)
  /\ \A k \in 1 .. Len(s) : k # Len(s) => t[k] = s[k]
  /\ \A k \in 1 .. Len(s) : t[k].item = s[k].item /\ t[k].row = s[k].row
  /\ LET old == s[Len(s)].cells
         new == t[Len(s)].cells
     IN /\ Len(old) \in Nat
        /\ DOMAIN old = 1 .. Len(old)
        /\ Len(new) = Len(old) + 1
        /\ DOMAIN new = 1 .. Len(old) + 1
        /\ \A c \in 1 .. Len(old) : new[c] = old[c]
        /\ new[Len(old) + 1] = e

LEMMA LastRowGrows ==
  ASSUME NEW s \in Seq(RowTypes), s # << >>, NEW e \in CellTypes
  PROVE  Grown(s, e, [s EXCEPT ![Len(s)].cells = Append(@, e)])
<1> DEFINE t == [s EXCEPT ![Len(s)].cells = Append(@, e)]
<1>1. Len(s) \in Nat \ {0} /\ DOMAIN s = 1 .. Len(s)
  BY EmptySeq, LenProperties
<1>2. \A k \in 1 .. Len(s) : s[k] \in RowTypes
  BY ElementOfSeq
<1> DEFINE old == s[Len(s)].cells
           r == [s[Len(s)] EXCEPT !.cells = Append(old, e)]
<1>3. old \in Seq(CellTypes)
  BY <1>1, <1>2 DEF RowTypes
<1>4. /\ Append(old, e) \in Seq(CellTypes)
      /\ Len(old) \in Nat /\ DOMAIN old = 1 .. Len(old)
      /\ Len(Append(old, e)) = Len(old) + 1
      /\ DOMAIN Append(old, e) = 1 .. Len(old) + 1
      /\ \A c \in 1 .. Len(old) : Append(old, e)[c] = old[c]
      /\ Append(old, e)[Len(old) + 1] = e
  BY <1>3, AppendProperties, LenProperties
<1>5. /\ r \in RowTypes /\ r.cells = Append(old, e)
      /\ r.item = s[Len(s)].item /\ r.row = s[Len(s)].row
  <2>1. s[Len(s)] \in RowTypes
    BY <1>1, <1>2
  <2> HIDE DEF old
  <2>2. QED BY <2>1, <1>4, RowWithCells
<1>6. t = [s EXCEPT ![Len(s)] = r]
  OBVIOUS
<1> HIDE DEF t, r
<1>7. /\ t \in Seq(RowTypes) /\ Len(t) = Len(s) /\ DOMAIN t = 1 .. Len(s)
      /\ t[Len(s)] = r
      /\ \A k \in 1 .. Len(s) : k # Len(s) => t[k] = s[k]
  <2>1. /\ [s EXCEPT ![Len(s)] = r] \in Seq(RowTypes)
        /\ Len([s EXCEPT ![Len(s)] = r]) = Len(s)
        /\ \A k \in 1 .. Len(s) : [s EXCEPT ![Len(s)] = r][k] = IF k = Len(s) THEN r ELSE s[k]
    BY <1>1, <1>5, ExceptSeq
  <2>2. /\ t \in Seq(RowTypes) /\ Len(t) = Len(s)
        /\ \A k \in 1 .. Len(s) : t[k] = IF k = Len(s) THEN r ELSE s[k]
    BY <1>6, <2>1, Zenon
  <2>3. DOMAIN t = 1 .. Len(s)
    BY <2>2, LenProperties
  <2>4. Len(s) \in 1 .. Len(s)
    BY <1>1
  <2>5. t[Len(s)] = r /\ \A k \in 1 .. Len(s) : k # Len(s) => t[k] = s[k]
    BY <2>2, <2>4, Zenon
  <2>6. QED BY <2>2, <2>3, <2>5
<1>8. t # << >>
  BY <1>1, <1>7, EmptySeq
<1>9. QED
  <2>1. Grown(s, e, t)
    BY <1>1, <1>4, <1>5, <1>7, <1>8 DEF Grown
  <2>2. QED BY <2>1 DEF t

LEMMA CellTyped ==
  ASSUME ItemsAndFaults, TypeOK, Get
  PROVE  Cell \in CellTypes
BY SlotTyped DEF Cell, CellTypes

\* The item is there, and the filter does not let it through; or it is not there.
LeftOut == page = "modules" /\ (i <= Len(items) => ~IsListed(items[i]))

\* What First does: a new row, or the next item, or the end of the loop.
LEMMA FirstMoves ==
  ASSUME ItemsAndFaults, TypeInv, First
  PROVE  /\ pc = "first" /\ UNCHANGED <<page, source, items, y, dots>>
         /\ \/ /\ pc' = "field" /\ field' = 2 /\ i' = i
               /\ rows' = Append(rows, NewRow)
               /\ ret' = "ok"
            \/ /\ rows' = rows /\ i' = i + 1 /\ field' = 1
               /\ ret' = "ok" /\ LeftOut /\ pc' = "first"
            \/ /\ rows' = rows /\ i' = i + 1 /\ field' = 1
               /\ ret' = "error" /\ pc' = "dots"
<1>1. ret' \in {"ok", "error"}
  BY GetFacts DEF First, TypeInv
<1>2. PICK listed \in Listed :
        IF ret' = "ok" /\ listed
          THEN /\ rows' = Append(rows, NewRow)
               /\ field' = 2 /\ pc' = "field" /\ UNCHANGED <<i, y>>
          ELSE UNCHANGED <<y, rows>> /\ LoopTest
  BY DEF First, NewRow
<1>3. listed \/ LeftOut
  BY DEF Listed, LeftOut, IsListed, TypeInv, TypeOK, Pages
<1>4. CASE ret' = "ok" /\ listed
  BY <1>2, <1>4 DEF First
<1>5. CASE ~(ret' = "ok" /\ listed)
  BY <1>1, <1>2, <1>3, <1>5 DEF First, LoopTest, TypeInv, LoopInv
<1>6. QED BY <1>4, <1>5

\* What Field does: one cell more, and after the last field the end of the row.
LEMMA FieldMoves ==
  ASSUME ItemsAndFaults, TypeInv, Field
  PROVE  /\ pc = "field" /\ UNCHANGED <<page, source, items, dots>>
         /\ Cell \in CellTypes
         /\ rows' = [rows EXCEPT ![Len(rows)].cells = Append(@, Cell)]
         /\ \/ field < 6 /\ field' = field + 1 /\ UNCHANGED <<pc, i, y>>
            \/ /\ field = 6 /\ y' = y + 2 /\ i' = i + 1 /\ field' = 1
               /\ \/ ret' = "ok" /\ y' <= LastRow /\ pc' = "first"
                  \/ (ret' = "error" \/ y' > LastRow) /\ pc' = "dots"
<1>1. Len(Fields[page]) = 6 /\ field \in 1 .. 6 /\ y \in Nat
  BY FieldsFacts DEF TypeInv, TypeOK, FieldNumbers
<1>2. ret' \in {"ok", "error"} /\ Cell \in CellTypes
  BY GetFacts, CellTyped DEF Field, TypeInv
<1>3. QED BY <1>1, <1>2 DEF Field, LoopTest, LastRow

\* The rows before and after a cell is printed.
LEMMA FieldRows ==
  ASSUME ItemsAndFaults, TypeInv, Field
  PROVE  rows \in Seq(RowTypes) /\ rows # << >> /\ Grown(rows, Cell, rows')
<1>1. rows \in Seq(RowTypes) /\ rows # << >>
  BY DEF TypeInv, LoopInv, Filling, Field
<1>2. Cell \in CellTypes /\ rows' = [rows EXCEPT ![Len(rows)].cells = Append(@, Cell)]
  BY FieldMoves
<1>3. QED BY <1>1, <1>2, LastRowGrows, Zenon

LEMMA TypeInvariant ==
  ASSUME ItemsAndFaults
  PROVE  /\ Init => TypeInv
         /\ TypeInv /\ [Next]_vars => TypeInv'
<1> USE DEF TypeInv, TypeOK, LoopInv, FieldNumbers, FirstRow, LastRow
<1>1. ASSUME Init PROVE TypeInv
  BY <1>1, EmptySeq DEF Init, ItemsAndFaults, CellTypes
<1>2. ASSUME TypeInv, [Next]_vars PROVE TypeInv'
  <2>0. /\ items' = items => Answerable' = Answerable
        /\ Answerable \subseteq Nat \ {0}
    BY <1>2, AnswerableFacts, ItemsAndFaults
  <2>1. CASE Begin
    BY <1>2, <2>0, <2>1 DEF Begin
  <2>2. CASE First
    <3>1. Get /\ ret' \in {"ok", "error"} /\ faults' \in 0 .. MaxFaults
      BY <1>2, <2>2, GetFacts, ItemsAndFaults DEF First
    <3>2. slot' \in CellTypes
      BY <1>2, <3>1, SlotTyped, ItemsAndFaults
    <3>3. CASE pc' = "first" \/ pc' = "dots"
      BY <1>2, <2>0, <2>2, <3>1, <3>2, <3>3, FirstMoves, ItemsAndFaults
    <3>4. CASE pc' = "field"
      <4>1. /\ rows' = Append(rows, NewRow) /\ field' = 2 /\ ret' = "ok"
            /\ UNCHANGED <<i, page, source, items, y, dots>>
        BY <1>2, <2>2, <3>4, FirstMoves, ItemsAndFaults
      <4>2. Available \/ Stray
        BY <1>2, <3>1, <4>1, GetFacts, ItemsAndFaults
      <4>3. i \in Answerable /\ source = "ready"
        BY <1>2, <4>2, AnswerableFacts, ItemsAndFaults DEF Available, Stray
      <4>4. QED
        BY <1>2, <2>0, <2>2, <3>1, <3>2, <3>4, <4>1, <4>3, NewRowFacts, AppendRow, FirstMoves,
           ItemsAndFaults
        DEF Filling
    <3>5. QED BY <1>2, <2>2, <3>3, <3>4, FirstMoves, ItemsAndFaults
  <2>3. CASE Field
    <3>1. Get /\ ret' \in {"ok", "error"} /\ faults' \in 0 .. MaxFaults
      BY <1>2, <2>3, GetFacts, ItemsAndFaults DEF Field
    <3>2. slot' \in CellTypes
      BY <1>2, <3>1, SlotTyped, ItemsAndFaults
    <3>3. /\ UNCHANGED <<page, source, items, dots>>
          /\ i' \in Nat \ {0} /\ field' \in 1 .. 6 /\ y' \in Nat
          /\ pc' \in {"first", "field", "dots"}
      BY <1>2, <2>3, FieldMoves, ItemsAndFaults
    <3>4. \A k \in DOMAIN rows' :
             /\ rows'[k].item \in Answerable
             /\ \A c \in DOMAIN rows'[k].cells : rows'[k].cells[c] \in CellTypes
      <4>1. SUFFICES ASSUME NEW k \in DOMAIN rows'
                     PROVE  /\ rows'[k].item \in Answerable
                            /\ rows'[k].cells \in Seq(CellTypes)
        BY ElementOfSeq, LenProperties
      <4>2. k \in 1 .. Len(rows') /\ k \in DOMAIN rows /\ rows'[k].item = rows[k].item
        BY <1>2, <2>3, FieldRows, ItemsAndFaults DEF Grown
      <4>3. rows'[k] \in RowTypes
        BY <1>2, <2>3, <4>2, FieldRows, ElementOfSeq, ItemsAndFaults DEF Grown
      <4>4. QED BY <1>2, <4>2, <4>3 DEF RowTypes
    <3>5. TypeOK'
      BY <1>2, <2>0, <3>1, <3>2, <3>3, <3>4
    <3>6. LoopInv'
      <4>1. rows' \in Seq(RowTypes)
        BY <1>2, <2>3, FieldRows, ItemsAndFaults DEF Grown
      <4>2. CASE pc' # "field"
        BY <1>2, <2>3, <3>3, <4>1, <4>2, FieldMoves, ItemsAndFaults
      <4>3. CASE pc' = "field"
        <5>1. /\ pc = "field" /\ field < 6 /\ field' = field + 1
              /\ UNCHANGED <<i, y, page, source, items>>
          BY <1>2, <2>3, <4>3, FieldMoves, ItemsAndFaults
        <5>2. /\ rows' # << >> /\ rows # << >> /\ Len(rows') = Len(rows)
              /\ rows'[Len(rows)].item = rows[Len(rows)].item
              /\ Len(rows'[Len(rows)].cells) = Len(rows[Len(rows)].cells) + 1
          BY <1>2, <2>3, FieldRows, ItemsAndFaults DEF Grown
        <5>3. Answerable' = Answerable
          BY <2>0, <5>1
        <5>4. Filling /\ y <= LastRow /\ field \in 2 .. 6
          BY <1>2, <5>1
        <5>5. Filling'
          BY <5>1, <5>2, <5>3, <5>4 DEF Filling
        <5>6. QED BY <1>2, <3>3, <4>1, <4>3, <5>1, <5>4, <5>5
      <4>4. QED BY <4>2, <4>3
    <3>7. QED BY <3>5, <3>6
  <2>4. CASE Dots
    BY <1>2, <2>0, <2>4 DEF Dots
  <2>5. CASE Redraw
    BY <1>2, <2>5, EmptySeq, ItemsAndFaults DEF Redraw, ItemsAndFaults
  <2>6. CASE UNCHANGED vars
    BY <1>2, <2>0, <2>6 DEF vars, Filling
  <2>7. QED BY <1>2, <2>1, <2>2, <2>3, <2>4, <2>5, <2>6 DEF Next, Step
<1>3. QED BY <1>1, <1>2

\* Every variable of the list pages keeps its type, however many rounds the
\* loops make: a row is about an item that is there, or, of the modules, one the
\* kernel has answered for past the end of its list.
THEOREM TypeCorrect == ASSUME ItemsAndFaults PROVE Spec => []TypeOK
<1>1. TypeInv => TypeOK BY DEF TypeInv
<1>2. QED BY <1>1, TypeInvariant, PTL DEF Spec

-----------------------------------------------------------------------------
(* The rows.                                                                *)

\* The n-th row of the page is at 6 + 2 (n - 1) and on the screen, above the
\* row of the dots, and the items are in their order: no row covers another.
RowsInOrder ==
  \A k \in DOMAIN rows :
    /\ rows[k].row = FirstRow + 2 * (k - 1)
    /\ rows[k].row <= LastRow
    /\ \A j \in DOMAIN rows : j < k => rows[j].item < rows[k].item

\* y is where the next row goes, or the one that is being filled, and no item
\* after this one has a row.
RowInv ==
  /\ RowsInOrder
  /\ pc \in {"begin", "first"} => y = FirstRow + 2 * Len(rows)
  /\ pc = "field" => y = FirstRow + 2 * (Len(rows) - 1)
  /\ pc = "first" => \A k \in DOMAIN rows : rows[k].item < i

LEMMA RowStep ==
  ASSUME ItemsAndFaults, TypeInv, RowInv, [Next]_vars
  PROVE  RowInv'
<1> USE DEF RowInv, RowsInOrder, FirstRow, LastRow
<1>1. CASE Begin
  BY <1>1, EmptySeq DEF Begin, TypeInv, LoopInv
<1>2. CASE First
  <2>1. CASE rows' = rows /\ i' = i + 1 /\ pc' # "field"
    <3>1. \A k \in DOMAIN rows : rows[k].item < i /\ rows[k].item \in Nat
      BY <1>2, FirstMoves, AnswerableFacts DEF TypeInv, TypeOK, LoopInv
    <3>2. i \in Nat
      BY DEF TypeInv, TypeOK
    <3>3. QED BY <1>2, <2>1, <3>1, <3>2, FirstMoves
  <2>2. CASE pc' = "field" /\ i' = i /\ rows' = Append(rows, NewRow)
    <3>1. NewRow \in RowTypes /\ NewRow.item = i /\ NewRow.row = y
      BY <1>2, NewRowFacts DEF First
    <3>2. /\ Len(rows) \in Nat /\ DOMAIN rows = 1 .. Len(rows)
          /\ Len(rows') = Len(rows) + 1 /\ DOMAIN rows' = 1 .. Len(rows) + 1
          /\ \A k \in 1 .. Len(rows) : rows'[k] = rows[k]
          /\ rows'[Len(rows) + 1] = NewRow
      BY <2>2, <3>1, AppendRow DEF TypeInv, LoopInv
    <3>3. pc = "first" /\ y <= LastRow /\ y' = y
      BY <1>2, FirstMoves DEF TypeInv, LoopInv
    <3>4. QED BY <2>2, <3>1, <3>2, <3>3
  <2>3. QED BY <1>2, <2>1, <2>2, FirstMoves
<1>3. CASE Field
  <2>1. /\ Len(rows) \in Nat \ {0} /\ Len(rows') = Len(rows)
        /\ DOMAIN rows = 1 .. Len(rows) /\ DOMAIN rows' = 1 .. Len(rows)
        /\ \A k \in 1 .. Len(rows) : rows'[k].item = rows[k].item /\ rows'[k].row = rows[k].row
    BY <1>3, FieldRows DEF Grown
  <2>2. pc = "field" /\ rows[Len(rows)].item = i /\ i \in Nat \ {0} /\ y \in Nat
    BY <1>3, FieldMoves DEF TypeInv, TypeOK, LoopInv, Filling
  <2>3. CASE UNCHANGED <<pc, i, y>>
    BY <2>1, <2>2, <2>3
  <2>4. CASE y' = y + 2 /\ i' = i + 1 /\ pc' \in {"first", "dots"}
    <3>1. \A k \in DOMAIN rows : rows[k].item \in Nat
      <4>1. SUFFICES ASSUME NEW k \in DOMAIN rows PROVE rows[k].item \in Nat
        OBVIOUS
      <4>2. rows[k] \in RowTypes
        BY <2>1, ElementOfSeq DEF TypeInv, LoopInv
      <4>3. QED BY <4>2 DEF RowTypes
    <3>2. \A k \in 1 .. Len(rows) : k < Len(rows) => rows[k].item < i
      BY <2>1, <2>2
    <3>3. \A k \in 1 .. Len(rows) : rows[k].item < i + 1
      <4> HIDE DEF RowInv, RowsInOrder
      <4>1. SUFFICES ASSUME NEW k \in 1 .. Len(rows) PROVE rows[k].item < i + 1
        OBVIOUS
      <4>2. CASE k < Len(rows)
        <5>1. rows[k].item \in Nat /\ rows[k].item < i
          BY <2>1, <3>1, <3>2, <4>1, <4>2
        <5>2. QED BY <2>2, <5>1
      <4>3. CASE k = Len(rows)
        BY <2>2, <4>3
      <4>4. Len(rows) \in Nat /\ k \in Nat /\ k <= Len(rows)
        BY <2>1, <4>1
      <4>5. k < Len(rows) \/ k = Len(rows)
        BY <4>4
      <4>6. QED BY <4>2, <4>3, <4>5
    <3>4. y' = FirstRow + 2 * Len(rows)
      BY <2>1, <2>2, <2>4
    <3>5. RowsInOrder'
      BY <2>1
    <3>6. QED BY <2>1, <2>4, <3>3, <3>4, <3>5
  <2>5. QED BY <1>3, <2>3, <2>4, FieldMoves
<1>4. CASE Dots
  BY <1>4 DEF Dots
<1>5. CASE Redraw
  BY <1>5, EmptySeq DEF Redraw
<1>6. CASE UNCHANGED vars
  BY <1>6 DEF vars
<1>7. QED BY <1>1, <1>2, <1>3, <1>4, <1>5, <1>6 DEF Next, Step

\* The rows of a list follow each other every second row in the order of its
\* items, and none is printed below the screen or in the row of the dots.
THEOREM RowsAlwaysInOrder == ASSUME ItemsAndFaults PROVE Spec => []RowsInOrder
<1>1. Init => RowInv
  BY EmptySeq DEF Init, RowInv, RowsInOrder, FirstRow
<1>2. TypeInv /\ RowInv /\ [Next]_vars => RowInv'
  BY RowStep
<1>3. RowInv => RowsInOrder
  BY DEF RowInv
<1>4. QED BY <1>1, <1>2, <1>3, TypeInvariant, PTL DEF Spec

-----------------------------------------------------------------------------
(* The cells.                                                               *)

\* While a row of the modules is filled, what is in retstr is of its item.
CellInv ==
  /\ CellsBelongToRow
  /\ pc = "field" /\ page = "modules" => slot[1] = i

\* What Field prints belongs to the item and, in the playlog, to the field.
LEMMA CellOfItem ==
  ASSUME ItemsAndFaults, TypeInv, CellInv, Field
  PROVE  /\ page = "playlog" => Cell \in {<< >>, <<i, Fields[page][field]>>}
         /\ page = "modules" => Cell[1] = i /\ slot'[1] = i
<1>1. pc = "field" /\ Get
  BY DEF Field
<1>2. CASE ret' = "ok"
  BY <1>1, <1>2, GetFacts DEF Mine, Cell, TypeInv
<1>3. CASE ret' = "error"
  BY <1>1, <1>3, GetFacts DEF AfterFailure, Cell, CellInv, TypeInv, TypeOK, Pages
<1>4. QED BY <1>1, <1>2, <1>3, GetFacts DEF TypeInv

LEMMA CellInit == Init => CellInv
BY DEF Init, CellInv, CellsBelongToRow

LEMMA CellStep ==
  ASSUME ItemsAndFaults, TypeInv, CellInv, [Next]_vars
  PROVE  CellInv'
<1> USE DEF CellInv, CellsBelongToRow
<1>1. CASE Begin
  BY <1>1 DEF Begin
<1>2. CASE First
  <2>1. CASE rows' = rows /\ pc' # "field"
    BY <1>2, <2>1, FirstMoves
  <2>2. CASE pc' = "field" /\ i' = i /\ rows' = Append(rows, NewRow) /\ ret' = "ok"
    <3>1. slot' = Mine
      BY <1>2, <2>2, GetFacts DEF First, TypeInv
    <3>2. /\ NewRow \in RowTypes /\ NewRow.item = i
          /\ \A c \in DOMAIN NewRow.cells :
                page = "playlog" /\ c = 1 /\ NewRow.cells[c] = slot'
      BY <1>2, NewRowFacts DEF First
    <3>3. /\ Len(rows) \in Nat /\ DOMAIN rows = 1 .. Len(rows)
          /\ DOMAIN rows' = 1 .. Len(rows) + 1
          /\ \A k \in 1 .. Len(rows) : rows'[k] = rows[k]
          /\ rows'[Len(rows) + 1] = NewRow
      BY <2>2, <3>2, AppendRow DEF TypeInv, LoopInv
    <3>4. field = 1 /\ page' = page
      BY <1>2, FirstMoves DEF TypeInv, LoopInv
    <3>5. QED BY <2>2, <3>1, <3>2, <3>3, <3>4 DEF Mine
  <2>3. QED BY <1>2, <2>1, <2>2, FirstMoves
<1>3. CASE Field
  <2>1. page' = page /\ (pc' = "field" => i' = i)
    BY <1>3, FieldMoves
  <2>2. /\ Len(rows) \in Nat \ {0}
        /\ DOMAIN rows = 1 .. Len(rows) /\ DOMAIN rows' = 1 .. Len(rows)
        /\ \A k \in 1 .. Len(rows) : rows'[k].item = rows[k].item
        /\ \A k \in 1 .. Len(rows) : k # Len(rows) => rows'[k] = rows[k]
    BY <1>3, FieldRows DEF Grown
  <2>3. LET old == rows[Len(rows)].cells
            new == rows'[Len(rows)].cells
        IN /\ Len(old) \in Nat
           /\ DOMAIN old = 1 .. Len(old)
           /\ DOMAIN new = 1 .. Len(old) + 1
           /\ \A c \in 1 .. Len(old) : new[c] = old[c]
           /\ new[Len(old) + 1] = Cell
    BY <1>3, FieldRows DEF Grown
  <2>4. /\ rows[Len(rows)].item = i /\ field \in 2 .. 6
        /\ Len(rows[Len(rows)].cells) = IF page = "playlog" THEN field - 1 ELSE field - 2
        /\ page \in {"playlog", "modules"}
    BY <1>3, FieldMoves DEF TypeInv, TypeOK, LoopInv, Filling, Pages
  <2>5. SUFFICES ASSUME NEW k \in DOMAIN rows', NEW c \in DOMAIN rows'[k].cells
                 PROVE  LET cell == rows'[k].cells[c]
                        IN IF page = "playlog"
                             THEN cell \in {<< >>, <<rows'[k].item, Fields[page][c]>>}
                             ELSE cell[1] = rows'[k].item
    BY <1>3, <2>1, <2>4, CellOfItem
  <2>6. CASE k # Len(rows)
    BY <2>2, <2>5, <2>6
  <2>7. CASE k = Len(rows)
    <3>1. CASE c \in DOMAIN rows[k].cells
      <4>1. rows'[k].cells[c] = rows[k].cells[c] /\ rows'[k].item = rows[k].item
        BY <2>2, <2>3, <2>7, <3>1
      <4>2. k \in DOMAIN rows
        BY <2>2, <2>7
      <4>3. QED BY <3>1, <4>1, <4>2
    <3>2. CASE c = Len(rows[k].cells) + 1
      <4>1. rows'[k].cells[c] = Cell /\ rows'[k].item = i
        BY <2>2, <2>3, <2>4, <2>7, <3>2
      <4>2. page = "playlog" => c = field
        BY <2>4, <2>7, <3>2
      <4>3. QED BY <1>3, <2>4, <4>1, <4>2, CellOfItem
    <3>3. c \in DOMAIN rows[k].cells \/ c = Len(rows[k].cells) + 1
      BY <2>3, <2>5, <2>7
    <3>4. QED BY <3>1, <3>2, <3>3
  <2>8. QED BY <2>6, <2>7
<1>4. CASE Dots
  BY <1>4 DEF Dots
<1>5. CASE Redraw
  BY <1>5 DEF Redraw
<1>6. CASE UNCHANGED vars
  BY <1>6 DEF vars
<1>7. QED BY <1>1, <1>2, <1>3, <1>4, <1>5, <1>6 DEF Next, Step

\* Whichever getter fails, no row of a list shows what belongs to another item.
THEOREM CellsAlwaysBelongToRow == ASSUME ItemsAndFaults PROVE Spec => []CellsBelongToRow
<1>1. TypeInv /\ CellInv /\ [Next]_vars => CellInv'
  BY CellStep
<1>2. CellInv => CellsBelongToRow
  BY DEF CellInv
<1>3. QED BY <1>1, <1>2, CellInit, TypeInvariant, PTL DEF Spec

-----------------------------------------------------------------------------
(* Nothing is left out.                                                     *)

IsShown(k) == \E r \in DOMAIN rows : rows[r].item = k

\* As long as nothing has failed, every item the loop has passed is on the page
\* if the filter lets it through; the loop ends after the last item or when
\* the rows are full.
PassedInv ==
  source = "ready" /\ faults = 0 =>
    /\ pc \in {"first", "field", "dots"} =>
         \A k \in DOMAIN items :
           k < i /\ (page = "playlog" \/ IsListed(items[k])) => IsShown(k)
    /\ pc = "dots" => y > LastRow \/ i > Len(items)

CompleteInv == PassedInv /\ NothingDroppedSilently

\* Nobody takes a row away before the page is drawn again.
LEMMA RowsStay ==
  ASSUME ItemsAndFaults, TypeInv, First \/ Field, NEW k
  PROVE  IsShown(k) => IsShown(k)'
<1>1. CASE First
  <2>1. CASE rows' = Append(rows, NewRow)
    <3>1. NewRow \in RowTypes
      BY <1>1, NewRowFacts DEF First
    <3>2. QED BY <2>1, <3>1, AppendRow DEF IsShown, TypeInv, LoopInv
  <2>2. QED BY <1>1, <2>1, FirstMoves DEF IsShown
<1>2. CASE Field
  BY <1>2, FieldRows DEF Grown, IsShown
<1>3. QED BY <1>1, <1>2

LEMMA CompleteInit == Init => CompleteInv
BY DEF Init, CompleteInv, PassedInv, NothingDroppedSilently

LEMMA CompleteStep ==
  ASSUME ItemsAndFaults, TypeInv, CompleteInv, [Next]_vars
  PROVE  CompleteInv'
<1> USE DEF CompleteInv, PassedInv
<1>1. CASE Begin
  <2>1. i = 1 /\ DOMAIN items = 1 .. Len(items)
    BY <1>1 DEF Begin, TypeInv, LoopInv
  <2>2. PassedInv'
    BY <1>1, <2>1 DEF Begin
  <2>3. NothingDroppedSilently'
    BY <1>1 DEF Begin, NothingDroppedSilently
  <2>4. QED BY <2>2, <2>3
<1>2. CASE First
  <2>1. /\ Get /\ faults' >= faults /\ faults' \in Nat /\ faults \in Nat
        /\ ret' = "error" /\ Available => faults' = faults + 1
        /\ i \in Nat \ {0} /\ Len(items) \in Nat /\ DOMAIN items = 1 .. Len(items)
    BY <1>2, GetFacts DEF First, TypeInv, TypeOK, LoopInv, ItemsAndFaults
  <2>2. pc = "first" /\ pc' # "done" /\ UNCHANGED <<page, source, items>>
    BY <1>2, FirstMoves
  <2>3. SUFFICES ASSUME source = "ready", faults' = 0 PROVE PassedInv'
    BY <2>2 DEF NothingDroppedSilently
  <2>4. faults = 0
    BY <2>1, <2>3
  <2>5. \A k \in DOMAIN items :
           k < i /\ (page = "playlog" \/ IsListed(items[k])) => IsShown(k)'
    BY <1>2, <2>2, <2>3, <2>4, RowsStay
  <2>6. CASE pc' = "field" /\ i' = i
    BY <2>2, <2>5, <2>6
  <2>7. CASE i' = i + 1 /\ LeftOut /\ pc' = "first"
    <3>1. \A k \in DOMAIN items : k < i' => k < i \/ k = i
      BY <2>1, <2>7
    <3>2. i \in DOMAIN items => ~(page = "playlog" \/ IsListed(items[i]))
      BY <2>1, <2>7 DEF LeftOut
    <3>3. QED BY <2>2, <2>5, <2>7, <3>1, <3>2
  <2>8. CASE i' = i + 1 /\ ret' = "error" /\ pc' = "dots"
    <3>1. i > Len(items)
      BY <2>1, <2>3, <2>4, <2>8 DEF Available
    <3>2. \A k \in DOMAIN items : k < i
      BY <2>1, <3>1
    <3>3. i' > Len(items)
      BY <2>1, <2>8, <3>1
    <3>4. QED BY <2>2, <2>5, <2>8, <3>2, <3>3
  <2>9. QED BY <1>2, <2>6, <2>7, <2>8, FirstMoves
<1>3. CASE Field
  <2>1. /\ Get /\ faults' >= faults /\ faults' \in Nat /\ faults \in Nat
        /\ ret' = "error" /\ Available => faults' = faults + 1
        /\ i \in Nat \ {0} /\ Len(items) \in Nat /\ DOMAIN items = 1 .. Len(items)
    BY <1>3, GetFacts DEF Field, TypeInv, TypeOK, LoopInv, ItemsAndFaults
  <2>2. pc = "field" /\ pc' # "done" /\ UNCHANGED <<page, source, items>>
    BY <1>3, FieldMoves
  <2>3. SUFFICES ASSUME source = "ready", faults' = 0 PROVE PassedInv'
    BY <2>2 DEF NothingDroppedSilently
  <2>4. faults = 0
    BY <2>1, <2>3
  <2>5. \A k \in DOMAIN items :
           k < i /\ (page = "playlog" \/ IsListed(items[k])) => IsShown(k)'
    BY <1>3, <2>2, <2>3, <2>4, RowsStay
  <2>6. \E r \in DOMAIN rows' : rows'[r].item = i
    <3>1. rows[Len(rows)].item = i
      BY <2>2 DEF TypeInv, LoopInv, Filling
    <3>2. /\ Len(rows) \in Nat \ {0} /\ DOMAIN rows' = 1 .. Len(rows)
          /\ \A k \in 1 .. Len(rows) : rows'[k].item = rows[k].item
      BY <1>3, FieldRows DEF Grown
    <3>3. Len(rows) \in 1 .. Len(rows)
      BY <3>2
    <3>4. QED BY <3>1, <3>2, <3>3
  <2>7. source = "ready"
    BY <2>2 DEF TypeInv, LoopInv, Filling
  <2>8. ret' # "error" \/ i > Len(items)
    BY <2>1, <2>3, <2>4, <2>7 DEF Available
  <2>9. CASE UNCHANGED <<pc, i, y>>
    BY <2>2, <2>5, <2>9
  <2>10. CASE i' = i + 1 /\ pc' = "first"
    <3>1. \A k \in DOMAIN items : k < i' => k < i \/ k = i
      BY <2>1, <2>10
    <3>2. QED BY <2>2, <2>5, <2>6, <2>10, <3>1 DEF IsShown
  <2>11. CASE i' = i + 1 /\ pc' = "dots" /\ (y' > LastRow \/ i > Len(items))
    <3>1. \A k \in DOMAIN items : k < i' => k < i \/ k = i
      BY <2>1, <2>11
    <3>2. i' > Len(items) \/ y' > LastRow
      BY <2>1, <2>11
    <3>3. QED BY <2>2, <2>5, <2>6, <2>11, <3>1, <3>2 DEF IsShown
  <2>12. QED BY <1>3, <2>8, <2>9, <2>10, <2>11, FieldMoves
<1>4. CASE Dots
  <2>1. SUFFICES ASSUME source = "ready", faults = 0, dots' = "no"
                 PROVE  \A k \in DOMAIN items :
                          page = "playlog" \/ IsListed(items[k]) => IsShown(k)
    BY <1>4 DEF Dots, NothingDroppedSilently, Shown, IsShown
  <2>2. y < LastRow /\ y \in Nat
    BY <1>4, <2>1 DEF Dots, TypeInv, TypeOK, LastRow
  <2>3. i > Len(items)
    BY <1>4, <2>1, <2>2 DEF Dots, LastRow
  <2>4. \A k \in DOMAIN items : k < i
    BY <2>3 DEF TypeInv, TypeOK, LoopInv
  <2>5. QED BY <1>4, <2>1, <2>4 DEF Dots
<1>5. CASE Redraw
  BY <1>5 DEF Redraw, NothingDroppedSilently
<1>6. CASE UNCHANGED vars
  BY <1>6 DEF vars, IsShown, NothingDroppedSilently, Shown
<1>7. QED BY <1>1, <1>2, <1>3, <1>4, <1>5, <1>6 DEF Next, Step

\* A page without dots shows every item that the filter lets through, unless a
\* getter failed: no list is cut off without a sign.
THEOREM NothingEverDroppedSilently ==
  ASSUME ItemsAndFaults PROVE Spec => []NothingDroppedSilently
<1>1. TypeInv /\ CompleteInv /\ [Next]_vars => CompleteInv'
  BY CompleteStep
<1>2. CompleteInv => NothingDroppedSilently
  BY DEF CompleteInv
<1>3. QED BY <1>1, <1>2, CompleteInit, TypeInvariant, PTL DEF Spec

=============================================================================
