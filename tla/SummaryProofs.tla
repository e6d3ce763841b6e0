---------------------------- MODULE SummaryProofs ----------------------------
(***************************************************************************)
(* Proofs about summary(), for any kinds of device, whatever the checks    *)
(* find, on any screen that is at least as large as the one of the code.   *)
(***************************************************************************)
EXTENDS Summary, TLAPS

-----------------------------------------------------------------------------
(* What is in the tables.                                                   *)

\* A line of the first part ends before the last column; one that waits for a
\* development kit excludes one that waits for a retail unit.
LEMMA InfoFacts ==
  /\ Len(InfoChecks) = 9
  /\ \A c \in 1 .. 9 : \A line \in InfoChecks[c].lines : line[1] \in 1 .. 62
  /\ "Development" \in InfoChecks[5].needs
  /\ "CEX" \in InfoChecks[6].needs
BY DEF InfoChecks, Check, Always

\* Only the line about the activation backups reaches the last column; only the
\* touch panels have two lines; two checks exclude each other.
LEMMA AnomalyFacts ==
  /\ Len(AnomalyChecks) = 19
  /\ \A c \in 1 .. 19 : \A lines \in AnomalyChecks[c].lines :
       /\ lines[1] \in 1 .. 64
       /\ c # 9 => lines[1] <= 63
       /\ Len(lines) # 1 => c = 5
  /\ "MCEmu" \in AnomalyChecks[12].needs
  /\ "MCEmu" \in AnomalyChecks[13].bars
<1> USE DEF AnomalyChecks, Check, Always
<1>1. Len(AnomalyChecks) = 19
  OBVIOUS
<1>2. "MCEmu" \in AnomalyChecks[12].needs /\ "MCEmu" \in AnomalyChecks[13].bars
  OBVIOUS
<1>3. ASSUME NEW c \in 1 .. 19, c \notin {5, 9}, NEW lines \in AnomalyChecks[c].lines
      PROVE  lines[1] \in 1 .. 63 /\ Len(lines) = 1
  <2>1. /\ AnomalyChecks[1].lines = {<<44>>}
        /\ AnomalyChecks[2].lines = {<<45>>}
        /\ AnomalyChecks[3].lines = {<<44>>}
        /\ AnomalyChecks[4].lines = {<<53>>, <<54>>}
        /\ AnomalyChecks[6].lines = {<<35>>}
        /\ AnomalyChecks[7].lines = {<<39>>, <<60>>}
        /\ AnomalyChecks[8].lines = {<<63>>, <<59>>}
        /\ AnomalyChecks[10].lines = {<<57>>}
        /\ AnomalyChecks[11].lines = {<<38>>}
        /\ AnomalyChecks[12].lines = {<<53>>}
        /\ AnomalyChecks[13].lines = {<<63>>}
        /\ AnomalyChecks[14].lines = {<<55>>, <<57>>}
        /\ AnomalyChecks[15].lines = {<<56>>, <<58>>}
        /\ AnomalyChecks[16].lines = {<<59>>}
        /\ AnomalyChecks[17].lines = {<<60>>}
        /\ AnomalyChecks[18].lines = {<<46>>}
        /\ AnomalyChecks[19].lines = {<<44>>}
    OBVIOUS
  <2> HIDE DEF AnomalyChecks, Check, Always
  <2>2. c \in {1, 2, 3, 4, 6, 7, 8, 10, 11, 12, 13, 14, 15, 16, 17, 18, 19}
    BY <1>3
  <2>3. QED BY <1>3, <2>1, <2>2
<1>4. \A lines \in AnomalyChecks[5].lines : lines[1] \in 1 .. 63
  OBVIOUS
<1>5. \A lines \in AnomalyChecks[9].lines : lines[1] \in 1 .. 64 /\ Len(lines) = 1
  OBVIOUS
<1> HIDE DEF AnomalyChecks, Check, Always
<1>6. ASSUME NEW c \in 1 .. 19, NEW lines \in AnomalyChecks[c].lines
      PROVE  /\ lines[1] \in 1 .. 64
             /\ c # 9 => lines[1] <= 63
             /\ Len(lines) # 1 => c = 5
  <2>1. CASE c \notin {5, 9}
    BY <1>3, <1>6, <2>1
  <2>2. CASE c = 5
    BY <1>4, <1>6, <2>2
  <2>3. CASE c = 9
    BY <1>5, <1>6, <2>3
  <2>4. QED BY <2>1, <2>2, <2>3
<1>7. QED BY <1>1, <1>2, <1>6

LEMMA NthFacts ==
  /\ Len(Nth) = 19 /\ DOMAIN Nth = 1 .. 19
  /\ \A k \in 1 .. 19 : Nth[k] \notin {"title", "blank", "text", "good"}
BY DEF Nth

-----------------------------------------------------------------------------
(* Printing.                                                                *)

\* Less than a divisor, or just as much.
LEMMA DivModUnique ==
  ASSUME NEW m \in Nat \ {0}, NEW q \in Nat, NEW r \in 0 .. m - 1
  PROVE  /\ ((m * q) + r) \div m = q
         /\ ((m * q) + r) % m = r
OBVIOUS

LEMMA DivModSmall ==
  ASSUME NEW m \in Nat \ {0}, NEW n \in 0 .. m
  PROVE  /\ n < m => n \div m = 0 /\ n % m = n
         /\ n = m => n \div m = 1 /\ n % m = 0
<1>1. CASE n < m
  BY <1>1, (m * 0) + n = n, DivModUnique
<1>2. CASE n = m
  BY <1>2, (m * 1) + 0 = n, DivModUnique
<1>3. QED BY <1>1, <1>2

\* The row a text is printed in, and the row below it, from the last row on the
\* first.
RowOf(row) == IF row \in RowNumbers THEN row ELSE cursor.y
Below(row) == IF row = MY - 1 THEN 0 ELSE row + 1

\* A text that ends before the last column changes its own row only; one that
\* reaches it may wipe the row below, where the cursor is then.
LEMMA PrintFacts ==
  ASSUME ScreenAndDevices, cursor \in Cursors, NEW x \in {3, 4}, NEW row \in Nat,
         NEW n \in 1 .. 64, NEW what, PrintAt(x, row, n, what)
  PROVE  /\ RowOf(row) \in RowNumbers
         /\ cursor' \in Cursors
         /\ \/ /\ cursor'.y = RowOf(row)
               /\ rows' = [r \in RowNumbers |-> IF r = RowOf(row) THEN what ELSE rows[r]]
            \/ /\ x + n >= 68
               /\ Below(RowOf(row)) \in RowNumbers \ {RowOf(row)}
               /\ cursor'.y = Below(RowOf(row))
               /\ rows' = [r \in RowNumbers |->
                             IF r = Below(RowOf(row)) THEN "blank"
                             ELSE IF r = RowOf(row) THEN what ELSE rows[r]]
<1> DEFINE at == SetXY(cursor, x, row)
<1>1. /\ MX \in Nat /\ MY \in Nat /\ MX >= 68 /\ MY >= 34
  BY ScreenAssumption DEF ScreenAndDevices
<1>2. /\ x \in Columns
      /\ cursor.x \in Columns /\ cursor.y \in RowNumbers
  BY <1>1 DEF Cursors, Columns
<1>3. at.x = x /\ at.y = RowOf(row) /\ at.y \in RowNumbers
  BY <1>2 DEF SetXY, RowOf
<1> HIDE DEF at
<1>4. /\ cursor' = [x |-> (at.x + n) % MX, y |-> (at.y + (at.x + n) \div MX) % MY]
      /\ rows' = [r \in RowNumbers |->
                    IF r \in {(at.y + k) % MY : k \in 1 .. (at.x + n) \div MX} THEN "blank"
                    ELSE IF r = at.y THEN what ELSE rows[r]]
  BY DEF PrintAt, Moved, Entered, at
<1>5. CASE x + n < MX
  <2>1. (x + n) \div MX = 0 /\ (x + n) % MX = x + n
    BY <1>1, <1>5, DivModSmall
  <2>2. (at.y + 0) % MY = at.y
    BY <1>1, <1>3, DivModSmall DEF RowNumbers
  <2>3. cursor' = [x |-> x + n, y |-> at.y]
    BY <1>3, <1>4, <2>1, <2>2
  <2>4. {(at.y + k) % MY : k \in 1 .. (at.x + n) \div MX} = {}
    BY <1>3, <2>1
  <2>5. rows' = [r \in RowNumbers |-> IF r = at.y THEN what ELSE rows[r]]
    BY <1>4, <2>4
  <2>6. cursor' \in Cursors
    BY <1>1, <1>3, <1>5, <2>3 DEF Cursors, Columns
  <2>7. QED BY <1>3, <2>3, <2>5, <2>6
<1>6. CASE x + n >= MX
  <2>1. x + n = MX /\ x + n = 68
    BY <1>1, <1>6
  <2>2. (x + n) \div MX = 1 /\ (x + n) % MX = 0
    BY <1>1, <2>1, DivModSmall
  <2>3. (at.y + 1) % MY = Below(at.y) /\ Below(at.y) \in RowNumbers /\ Below(at.y) # at.y
    <3>1. at.y + 1 \in 0 .. MY /\ at.y \in Nat
      BY <1>1, <1>3 DEF RowNumbers
    <3>2. /\ at.y + 1 < MY => (at.y + 1) % MY = at.y + 1
          /\ at.y + 1 = MY => (at.y + 1) % MY = 0
      BY <1>1, <3>1, DivModSmall
    <3>3. QED BY <1>1, <3>1, <3>2 DEF Below, RowNumbers
  <2>4. cursor' = [x |-> 0, y |-> Below(at.y)]
    BY <1>3, <1>4, <2>2, <2>3
  <2>5. {(at.y + k) % MY : k \in 1 .. (at.x + n) \div MX} = {Below(at.y)}
    BY <1>3, <2>2, <2>3
  <2>6. rows' = [r \in RowNumbers |-> IF r = Below(at.y) THEN "blank"
                                     ELSE IF r = at.y THEN what ELSE rows[r]]
    BY <1>4, <2>5
  <2>7. cursor' \in Cursors
    BY <1>1, <2>3, <2>4 DEF Cursors, Columns
  <2>8. QED BY <1>3, <2>1, <2>3, <2>4, <2>6, <2>7
<1>7. QED BY <1>1, <1>5, <1>6

-----------------------------------------------------------------------------
(* Where the page stands at each check.  The greeting takes up to nine rows *)
(* and the first part one line for each of its checks but one, so that its  *)
(* end, the heading and "All good" have rows of their own.                  *)

Early == pc \in {"greeting", "info", "heading", "good"}

\* How many anomalies there may be before a check: one per check, two of the
\* touch panels, and one of the two about the internal card.
MostFound ==
  IF check <= 5 THEN check - 1
  ELSE IF check <= 12 THEN check
  ELSE IF check = 13 THEN IF "MCEmu" \in device THEN 13 ELSE 12
  ELSE check - 1

PlaceInv ==
  /\ pc = "greeting" => y = 4 /\ check = 1
  /\ pc = "info" =>
       /\ check \in 1 .. 9 /\ y >= 4
       /\ check <= 5 => y <= 13 + 2 * (check - 1)
       /\ check = 6 => y <= IF "Development" \in device THEN 23 ELSE 21
       /\ check >= 7 => y <= 13 + 2 * (check - 2)
  /\ pc = "heading" => check = 1 /\ y \in 4 .. 29
  /\ pc = "good" => check = 1 /\ y \in 8 .. 33
  /\ Early => found = 0
  /\ ~Early => first \in 8 .. 33 /\ y = first + 2 * found
  /\ pc = "anomalies" => found <= MostFound
  /\ pc = "rear" => check = 5 /\ found \in 1 .. 5

\* What is in the rows.  The cursor comes to the first row only if the text that
\* may reach the last column has been printed in the last row; all later texts
\* end before it, so none enters the row of the title.
RowInv ==
  /\ rows[1] = "title"
  /\ cursor.y = 0 \/ cursor.y >= 4
  /\ cursor.y = 0 => pc = "done" \/ (pc = "anomalies" /\ check > 9)
  /\ \A r \in RowNumbers : rows[r] = "good" => ~Early /\ found = 0 /\ r = first
  /\ ~Early /\ found = 0 => rows[first] = "good"
  /\ ~Early =>
       /\ first + 2 * (found - 1) < MY =>
            \A k \in 1 .. found : rows[first + 2 * (k - 1)] = Nth[k]
       /\ found > 0 => Visible(Nth[found])

SummaryInv == TypeOK /\ PlaceInv /\ RowInv

Texts == {"title", "blank", "text", "good"} \cup {Nth[k] : k \in DOMAIN Nth}

LEMMA GridFacts ==
  ASSUME ScreenAndDevices
  PROVE  MY \in Nat /\ MY >= 34 /\ RowNumbers = 0 .. MY - 1
BY ScreenAssumption DEF ScreenAndDevices, RowNumbers

\* A line of the first part, or the heading, or "All good".
LEMMA LinePrinted ==
  ASSUME ScreenAndDevices, SummaryInv, Early,
         NEW x \in {3, 4}, NEW row \in 4 .. 33, NEW n \in 1 .. 62, NEW what \in {"text", "good"},
         PrintAt(x, row, n, what)
  PROVE  /\ cursor' \in Cursors /\ cursor'.y = row
         /\ rows' \in [RowNumbers -> Texts]
         /\ rows'[1] = "title" /\ rows'[row] = what
         /\ \A r \in RowNumbers : r # row => rows'[r] # "good"
<1>1. RowOf(row) = row /\ row \in RowNumbers /\ 1 \in RowNumbers
  <2>1. row \in Nat /\ row <= 33
    OBVIOUS
  <2>2. QED BY <2>1, GridFacts DEF RowOf
<1>2. cursor \in Cursors /\ row \in Nat /\ n \in 1 .. 64 /\ x + n < 68
  <2>1. cursor \in Cursors
    BY DEF SummaryInv, TypeOK
  <2>2. row \in Nat /\ n \in 1 .. 64 /\ x + n < 68
    OBVIOUS
  <2>3. QED BY <2>1, <2>2
<1>3. /\ cursor' \in Cursors /\ cursor'.y = row
      /\ rows' = [r \in RowNumbers |-> IF r = row THEN what ELSE rows[r]]
  BY <1>1, <1>2, PrintFacts
<1>4. /\ rows \in [RowNumbers -> Texts] /\ rows[1] = "title"
      /\ \A r \in RowNumbers : rows[r] # "good"
  BY DEF SummaryInv, TypeOK, RowInv, Texts
<1>5. what \in Texts /\ row # 1
  BY DEF Texts
<1>6. /\ rows' \in [RowNumbers -> Texts] /\ rows'[1] = "title" /\ rows'[row] = what
      /\ \A r \in RowNumbers : r # row => rows'[r] # "good"
  <2> HIDE DEF Texts
  <2>1. \A r \in RowNumbers : rows'[r] = IF r = row THEN what ELSE rows[r]
    BY <1>3
  <2>2. rows' \in [RowNumbers -> Texts]
    BY <1>3, <1>4, <1>5
  <2>3. QED BY <1>1, <1>4, <1>5, <2>1, <2>2
<1>7. QED BY <1>3, <1>6

\* What printing the next anomaly does, on a row of its own or past the end.
LEMMA AnomalyPrinted ==
  ASSUME ScreenAndDevices, SummaryInv, ~Early, pc # "done",
         NEW n \in 1 .. 64, n # 64 \/ (pc = "anomalies" /\ check = 9), found \in 0 .. 18,
         PrintAnomaly(n)
  PROVE  /\ y' = y + 2 /\ found' = found + 1
         /\ cursor' \in Cursors
         /\ cursor'.y = 0 \/ cursor'.y >= 4
         /\ cursor'.y = 0 => n = 64 \/ cursor.y = 0
         /\ rows' \in [RowNumbers -> Texts]
         /\ rows'[1] = "title"
         /\ \A r \in RowNumbers : rows'[r] # "good"
         /\ \E r \in RowNumbers : rows'[r] = Nth[found + 1]
         /\ first + 2 * found < MY =>
              \A k \in 1 .. found + 1 : rows'[first + 2 * (k - 1)] = Nth[k]
<1> DEFINE at == RowOf(y)
           what == Nth[found + 1]
<1>1. /\ MY \in Nat /\ MY >= 34 /\ RowNumbers = 0 .. MY - 1
      /\ first \in 8 .. 33 /\ y = first + 2 * found /\ y \in Nat /\ found \in Nat
      /\ cursor \in Cursors /\ cursor.y \in RowNumbers
      /\ rows \in [RowNumbers -> Texts]
  <2>1. MY \in Nat /\ MY >= 34 /\ RowNumbers = 0 .. MY - 1
    BY GridFacts
  <2>2. first \in 8 .. 33 /\ y = first + 2 * found /\ y \in Nat /\ found \in Nat
    BY DEF SummaryInv, TypeOK, PlaceInv
  <2>3. cursor \in Cursors /\ cursor.y \in RowNumbers /\ rows \in [RowNumbers -> Texts]
    BY DEF SummaryInv, TypeOK, Texts, Cursors
  <2>4. QED BY <2>1, <2>2, <2>3
<1>2. /\ what \in Texts /\ what # "good"
  <2>1. found + 1 \in 1 .. 19
    OBVIOUS
  <2>2. QED BY <2>1, NthFacts DEF Texts
<1>3. /\ rows[1] = "title"
      /\ cursor.y = 0 \/ cursor.y >= 4
      /\ n = 64 => cursor.y # 0
      /\ \A r \in RowNumbers : rows[r] = "good" => found = 0 /\ r = first
      /\ first + 2 * (found - 1) < MY =>
           \A k \in 1 .. found : rows[first + 2 * (k - 1)] = Nth[k]
  BY DEF SummaryInv, RowInv
<1>4. PrintAt(4, y, n, what) /\ y' = y + 2 /\ found' = found + 1
  BY DEF PrintAnomaly, X1
<1>5. /\ at \in RowNumbers /\ cursor' \in Cursors
      /\ \/ /\ cursor'.y = at
            /\ rows' = [r \in RowNumbers |-> IF r = at THEN what ELSE rows[r]]
         \/ /\ n = 64
            /\ Below(at) \in RowNumbers \ {at}
            /\ cursor'.y = Below(at)
            /\ rows' = [r \in RowNumbers |-> IF r = Below(at) THEN "blank"
                                             ELSE IF r = at THEN what ELSE rows[r]]
  BY <1>1, <1>4, PrintFacts
<1>6. /\ y < MY => at = y
      /\ y >= MY => at = cursor.y
  BY <1>1 DEF RowOf
<1>7. /\ at = 0 \/ at >= 4
      /\ at = 0 => cursor.y = 0
      /\ at = 0 => n # 64
  BY <1>1, <1>3, <1>6
<1> HIDE DEF at, what
<1>8. CASE /\ cursor'.y = at
           /\ rows' = [r \in RowNumbers |-> IF r = at THEN what ELSE rows[r]]
  <2>1. 1 \in RowNumbers /\ rows'[1] = "title" /\ rows'[at] = what
    BY <1>1, <1>3, <1>5, <1>7, <1>8
  <2>2. rows' \in [RowNumbers -> Texts]
    BY <1>1, <1>2, <1>8
  <2>3. \A r \in RowNumbers : rows'[r] # "good"
    BY <1>1, <1>2, <1>3, <1>6, <1>8
  <2>4. ASSUME first + 2 * found < MY, NEW k \in 1 .. found + 1
        PROVE  rows'[first + 2 * (k - 1)] = Nth[k]
    <3>1. at = first + 2 * found
      BY <1>1, <1>6, <2>4
    <3>2. CASE k = found + 1
      BY <1>1, <2>1, <3>1, <3>2 DEF what
    <3>3. CASE k \in 1 .. found
      <4>1. first + 2 * (k - 1) \in RowNumbers /\ first + 2 * (k - 1) # at
        BY <1>1, <2>4, <3>1, <3>3
      <4>2. first + 2 * (found - 1) < MY
        BY <1>1, <2>4
      <4>3. rows[first + 2 * (k - 1)] = Nth[k]
        BY <1>3, <3>3, <4>2
      <4>4. QED BY <1>8, <4>1, <4>3
    <3>4. k = found + 1 \/ k \in 1 .. found
      BY <1>1, <2>4
    <3>5. QED BY <3>2, <3>3, <3>4
  <2>5. QED BY <1>4, <1>5, <1>7, <1>8, <2>1, <2>2, <2>3, <2>4 DEF what
<1>9. CASE /\ n = 64
           /\ Below(at) \in RowNumbers \ {at}
           /\ cursor'.y = Below(at)
           /\ rows' = [r \in RowNumbers |-> IF r = Below(at) THEN "blank"
                                            ELSE IF r = at THEN what ELSE rows[r]]
  <2>1. at >= 4 /\ (Below(at) = 0 \/ Below(at) = at + 1)
    BY <1>1, <1>5, <1>7, <1>9 DEF Below
  <2>2. 1 \in RowNumbers /\ rows'[1] = "title" /\ rows'[at] = what
    BY <1>1, <1>3, <1>5, <1>9, <2>1
  <2>3. rows' \in [RowNumbers -> Texts]
    BY <1>1, <1>2, <1>9 DEF Texts
  <2>4. \A r \in RowNumbers : rows'[r] # "good"
    BY <1>1, <1>2, <1>3, <1>6, <1>9
  <2>5. ASSUME first + 2 * found < MY, NEW k \in 1 .. found + 1
        PROVE  rows'[first + 2 * (k - 1)] = Nth[k]
    <3>1. at = first + 2 * found
      BY <1>1, <1>6, <2>5
    <3>2. CASE k = found + 1
      BY <1>1, <2>2, <3>1, <3>2 DEF what
    <3>3. CASE k \in 1 .. found
      <4>1. /\ first + 2 * (k - 1) \in RowNumbers
            /\ first + 2 * (k - 1) # at /\ first + 2 * (k - 1) # Below(at)
        BY <1>1, <2>1, <2>5, <3>1, <3>3
      <4>2. first + 2 * (found - 1) < MY
        BY <1>1, <2>5
      <4>3. rows[first + 2 * (k - 1)] = Nth[k]
        BY <1>3, <3>3, <4>2
      <4>4. QED BY <1>9, <4>1, <4>3
    <3>4. k = found + 1 \/ k \in 1 .. found
      BY <1>1, <2>5
    <3>5. QED BY <3>2, <3>3, <3>4
  <2>6. QED BY <1>1, <1>4, <1>5, <1>9, <2>1, <2>2, <2>3, <2>4, <2>5 DEF what
<1>10. QED BY <1>5, <1>8, <1>9

-----------------------------------------------------------------------------
(* The steps.                                                               *)

LEMMA Typed ==
  TypeOK <=>
    /\ device \in Devices
    /\ pc \in {"greeting", "info", "heading", "good", "anomalies", "rear", "done"}
    /\ check \in 1 .. 19
    /\ y \in Nat
    /\ cursor \in Cursors
    /\ rows \in [RowNumbers -> Texts]
    /\ found \in 0 .. 19
    /\ first \in RowNumbers
BY AnomalyFacts, NthFacts DEF TypeOK, Texts

LEMMA InitStep == ASSUME ScreenAndDevices, Init PROVE SummaryInv
<1>1. MY \in Nat /\ MY >= 34 /\ RowNumbers = 0 .. MY - 1 /\ 1 \in Columns
  BY GridFacts, ScreenAssumption DEF ScreenAndDevices, Columns
<1>2. cursor \in Cursors /\ cursor.y = 16
  BY <1>1 DEF Init, Cursors
<1>3. rows \in [RowNumbers -> Texts]
  BY DEF Init, Texts
<1>4. TypeOK
  BY <1>1, <1>2, <1>3, Typed DEF Init
<1>5. PlaceInv
  BY DEF Init, PlaceInv, Early
<1>6. RowInv
  BY <1>1, <1>2 DEF Init, RowInv, Early
<1>7. QED BY <1>4, <1>5, <1>6 DEF SummaryInv

LEMMA GreetingStep == ASSUME ScreenAndDevices, SummaryInv, Greeting PROVE SummaryInv'
<1>1. /\ MY \in Nat /\ MY >= 34 /\ RowNumbers = 0 .. MY - 1
      /\ X1 \in Columns /\ 40 \in Columns
  BY GridFacts, ScreenAssumption DEF ScreenAndDevices, Columns, X1
<1>2. /\ pc = "greeting" /\ pc' = "info" /\ y = 4 /\ check = 1 /\ found = 0
      /\ UNCHANGED <<device, check, found, first>>
  BY DEF Greeting, SummaryInv, PlaceInv, Early
<1>3. /\ device \in Devices /\ cursor \in Cursors /\ cursor.y >= 4
      /\ rows \in [RowNumbers -> Texts] /\ first \in RowNumbers
      /\ rows[1] = "title" /\ \A r \in RowNumbers : rows[r] # "good"
  BY <1>2, Typed DEF SummaryInv, RowInv, Early
<1>4. /\ y' \in {4, 11, 13}
      /\ cursor' \in Cursors /\ cursor'.y >= 4
      /\ rows' \in [RowNumbers -> Texts]
      /\ rows'[1] = "title" /\ \A r \in RowNumbers : rows'[r] # "good"
  <2>1. CASE UNCHANGED <<y, cursor, rows>>
    BY <1>2, <1>3, <2>1
  <2>2. CASE cursor' = [x |-> X1, y |-> y] /\ UNCHANGED <<y, rows>>
    BY <1>1, <1>2, <1>3, <2>2 DEF Cursors
  <2>3. CASE \E lines \in {3, 4} :
               /\ y' = y + 2 * lines + 1
               /\ cursor' = [x |-> IF lines = 3 THEN X1 ELSE 40, y |-> y + 6]
               /\ rows' = [r \in RowNumbers |->
                             IF r \in {y + 2 * k : k \in 0 .. lines - 1} THEN "text"
                             ELSE rows[r]]
    <3>1. PICK lines \in {3, 4} :
               /\ y' = y + 2 * lines + 1
               /\ cursor' = [x |-> IF lines = 3 THEN X1 ELSE 40, y |-> y + 6]
               /\ rows' = [r \in RowNumbers |->
                             IF r \in {y + 2 * k : k \in 0 .. lines - 1} THEN "text"
                             ELSE rows[r]]
      BY <2>3
    <3>2. y' \in {11, 13}
      BY <1>2, <3>1
    <3>3. cursor' \in Cursors /\ cursor'.y = 10
      BY <1>1, <1>2, <3>1 DEF Cursors
    <3>4. 1 \notin {y + 2 * k : k \in 0 .. lines - 1} /\ 1 \in RowNumbers
      BY <1>1, <1>2
    <3>5. /\ rows' \in [RowNumbers -> Texts]
          /\ rows'[1] = "title" /\ \A r \in RowNumbers : rows'[r] # "good"
      BY <1>3, <3>1, <3>4 DEF Texts
    <3>6. QED BY <3>2, <3>3, <3>5
  <2>4. QED BY <2>1, <2>2, <2>3 DEF Greeting
<1>5. TypeOK'
  BY <1>2, <1>3, <1>4, AnomalyFacts, NthFacts DEF TypeOK, Texts
<1>6. PlaceInv'
  BY <1>2, <1>4 DEF PlaceInv, Early
<1>7. RowInv'
  BY <1>2, <1>4 DEF RowInv, Early
<1>8. QED BY <1>5, <1>6, <1>7 DEF SummaryInv

\* While no anomaly is listed, the invariant of the rows says only this.
EarlyRows ==
  /\ rows[1] = "title"
  /\ cursor.y >= 4
  /\ \A r \in RowNumbers : rows[r] # "good"

LEMMA EarlyRowInv ==
  ASSUME ScreenAndDevices, SummaryInv, Early
  PROVE  /\ EarlyRows /\ found = 0
         /\ Early' /\ EarlyRows' => RowInv'
<1>1. found = 0 /\ pc \notin {"anomalies", "done"} /\ cursor.y \in RowNumbers
  BY DEF SummaryInv, PlaceInv, TypeOK, Cursors, Early
<1>2. MY \in Nat /\ RowNumbers = 0 .. MY - 1
  BY GridFacts
<1>3. EarlyRows
  BY <1>1, <1>2 DEF SummaryInv, RowInv, EarlyRows
<1>4. Early' /\ EarlyRows' => RowInv'
  <2>1. SUFFICES ASSUME Early', EarlyRows' PROVE RowInv'
    OBVIOUS
  <2>2. \A r \in RowNumbers : rows'[r] # "good"
    BY <2>1 DEF EarlyRows
  <2>3. rows'[1] = "title" /\ cursor'.y >= 4 /\ cursor'.y # 0
    BY <2>1 DEF EarlyRows
  <2>4. QED BY <2>1, <2>2, <2>3 DEF RowInv
<1>5. QED BY <1>1, <1>3, <1>4

LEMMA InfoStep == ASSUME ScreenAndDevices, SummaryInv, Info PROVE SummaryInv'
<1>1. /\ pc = "info" /\ Early /\ found' = found /\ device' = device /\ first' = first
      /\ check \in 1 .. 9 /\ y \in 4 .. 27
      /\ check <= 5 => y <= 13 + 2 * (check - 1)
      /\ check = 6 => y <= IF "Development" \in device THEN 23 ELSE 21
      /\ check >= 7 => y <= 13 + 2 * (check - 2)
  <2>1. pc = "info" /\ Early /\ found' = found /\ device' = device /\ first' = first
    BY DEF Info, Early
  <2>2. /\ check \in 1 .. 9 /\ y >= 4 /\ y \in Nat
        /\ check <= 5 => y <= 13 + 2 * (check - 1)
        /\ check = 6 => y <= IF "Development" \in device THEN 23 ELSE 21
        /\ check >= 7 => y <= 13 + 2 * (check - 2)
    BY <2>1 DEF SummaryInv, PlaceInv, TypeOK
  <2>3. QED BY <2>1, <2>2
<1>2. /\ device \in Devices /\ cursor \in Cursors /\ first \in RowNumbers
      /\ rows \in [RowNumbers -> Texts] /\ EarlyRows /\ found = 0
  BY <1>1, Typed, EarlyRowInv DEF SummaryInv
<1>3. /\ cursor' \in Cursors /\ rows' \in [RowNumbers -> Texts] /\ EarlyRows'
      /\ \/ y' = y
         \/ y' = y + 2 /\ Made(InfoChecks[check])
  <2>1. CASE UNCHANGED <<y, cursor, rows>>
    BY <1>2, <2>1 DEF EarlyRows
  <2>2. CASE \E line \in InfoChecks[check].lines :
               Made(InfoChecks[check]) /\ PrintAt(X1, y, line[1], "text") /\ y' = y + 2
    <3>1. PICK line \in InfoChecks[check].lines :
            Made(InfoChecks[check]) /\ PrintAt(X1, y, line[1], "text") /\ y' = y + 2
      BY <2>2
    <3>2. line[1] \in 1 .. 62
      BY <1>1, InfoFacts
    <3>3. y \in 4 .. 33
      BY <1>1
    <3>4. /\ cursor' \in Cursors /\ cursor'.y = y
          /\ rows' \in [RowNumbers -> Texts]
          /\ rows'[1] = "title" /\ rows'[y] = "text"
          /\ \A r \in RowNumbers : r # y => rows'[r] # "good"
      BY <1>1, <3>1, <3>2, <3>3, LinePrinted DEF X1
    <3>5. EarlyRows'
      BY <3>3, <3>4 DEF EarlyRows
    <3>6. QED BY <3>1, <3>4, <3>5
  <2>3. QED BY <2>1, <2>2 DEF Info
<1>4. /\ check = 5 /\ Made(InfoChecks[check]) => "Development" \in device
      /\ check = 6 /\ Made(InfoChecks[check]) => "Development" \notin device
  BY <1>2, InfoFacts DEF Made, ScreenAndDevices
<1>5. /\ check < 9 => check' = check + 1 /\ pc' = "info"
      /\ check = 9 => check' = 1 /\ pc' = "heading"
  BY <1>1, InfoFacts DEF Info
<1>6. PlaceInv'
  <2>1. CASE check \in 1 .. 4
    BY <1>1, <1>2, <1>3, <1>5, <2>1 DEF PlaceInv, Early
  <2>2. CASE check = 5
    BY <1>1, <1>2, <1>3, <1>4, <1>5, <2>2 DEF PlaceInv, Early
  <2>3. CASE check = 6
    BY <1>1, <1>2, <1>3, <1>4, <1>5, <2>3 DEF PlaceInv, Early
  <2>4. CASE check \in 7 .. 8
    BY <1>1, <1>2, <1>3, <1>5, <2>4 DEF PlaceInv, Early
  <2>5. CASE check = 9
    BY <1>1, <1>2, <1>3, <1>5, <2>5 DEF PlaceInv, Early
  <2>6. QED BY <1>1, <2>1, <2>2, <2>3, <2>4, <2>5
<1>7. TypeOK'
  <2>1. check' \in 1 .. 19 /\ y' \in Nat /\ pc' \in {"info", "heading"}
    BY <1>1, <1>3, <1>5
  <2>2. QED BY <1>1, <1>2, <1>3, <2>1, AnomalyFacts, NthFacts DEF TypeOK, Texts
<1>8. RowInv'
  <2>1. Early'
    BY <1>1, <1>5 DEF Early
  <2>2. QED BY <1>1, <1>3, <2>1, EarlyRowInv
<1>9. QED BY <1>6, <1>7, <1>8 DEF SummaryInv

LEMMA HeadingStep == ASSUME ScreenAndDevices, SummaryInv, Heading PROVE SummaryInv'
<1>1. /\ pc = "heading" /\ Early /\ pc' = "good" /\ check = 1 /\ y \in 4 .. 29
      /\ y' = y + 4 /\ UNCHANGED <<device, check, found, first>>
  BY DEF Heading, Early, SummaryInv, PlaceInv
<1>2. /\ device \in Devices /\ first \in RowNumbers /\ EarlyRows /\ found = 0
  BY <1>1, Typed, EarlyRowInv DEF SummaryInv
<1>3. y + 2 \in 4 .. 33 /\ y' \in 8 .. 33 /\ y' \in Nat
  BY <1>1
<1>4. /\ cursor' \in Cursors /\ cursor'.y = y + 2
      /\ rows' \in [RowNumbers -> Texts]
      /\ rows'[1] = "title" /\ rows'[y + 2] = "text"
      /\ \A r \in RowNumbers : r # y + 2 => rows'[r] # "good"
  <2>1. PrintAt(3, y + 2, 43, "text")
    BY DEF X1, Heading
  <2>2. 43 \in 1 .. 62 /\ 3 \in {3, 4} /\ "text" \in {"text", "good"} /\ Early
    BY <1>1
  <2>3. QED BY <1>3, <2>1, <2>2, LinePrinted
<1>5. EarlyRows'
  BY <1>3, <1>4 DEF EarlyRows
<1>6. TypeOK'
  BY <1>1, <1>2, <1>3, <1>4, AnomalyFacts, NthFacts DEF TypeOK, Texts
<1>7. PlaceInv'
  BY <1>1, <1>2, <1>3 DEF PlaceInv, Early
<1>8. RowInv'
  <2>1. Early'
    BY <1>1 DEF Early
  <2>2. QED BY <1>1, <1>5, <2>1, EarlyRowInv
<1>9. QED BY <1>6, <1>7, <1>8 DEF SummaryInv

LEMMA AllGoodStep == ASSUME ScreenAndDevices, SummaryInv, AllGood PROVE SummaryInv'
<1>1. /\ pc = "good" /\ Early /\ pc' = "anomalies" /\ check = 1 /\ y \in 8 .. 33
      /\ first' = y /\ UNCHANGED <<device, check, y, found>>
  BY DEF AllGood, Early, SummaryInv, PlaceInv
<1>2. device \in Devices /\ found = 0
  BY <1>1, Typed, EarlyRowInv DEF SummaryInv
<1>3. y \in 4 .. 33 /\ y \in Nat /\ y \in RowNumbers
  <2>1. y \in Nat /\ y <= 33 /\ y >= 4
    BY <1>1
  <2>2. QED BY <2>1, GridFacts
<1>4. /\ cursor' \in Cursors /\ cursor'.y = y
      /\ rows' \in [RowNumbers -> Texts]
      /\ rows'[1] = "title" /\ rows'[y] = "good"
      /\ \A r \in RowNumbers : r # y => rows'[r] # "good"
  <2>1. PrintAt(4, y, 26, "good")
    BY DEF X1, AllGood
  <2>2. 26 \in 1 .. 62 /\ 4 \in {3, 4} /\ "good" \in {"text", "good"} /\ Early
    BY <1>1
  <2>3. QED BY <1>3, <2>1, <2>2, LinePrinted
<1>5. TypeOK'
  BY <1>1, <1>2, <1>3, <1>4, AnomalyFacts, NthFacts DEF TypeOK, Texts
<1>6. PlaceInv'
  BY <1>1, <1>2, <1>3 DEF PlaceInv, Early, MostFound
<1>7. RowInv'
  BY <1>1, <1>2, <1>3, <1>4 DEF RowInv, Early
<1>8. QED BY <1>5, <1>6, <1>7 DEF SummaryInv

\* How the next anomaly leaves the invariant of the rows, whatever comes next.
\* The text that reaches the last column is that of check 9, so that the cursor
\* is in the first row after it only.
LEMMA RowsGrow ==
  ASSUME ScreenAndDevices, SummaryInv, pc \in {"anomalies", "rear"},
         NEW n \in 1 .. 64, n # 64 \/ (pc = "anomalies" /\ check = 9), found \in 0 .. 18,
         PrintAnomaly(n), first' = first,
         \/ pc' = "anomalies" /\ check' = check + 1
         \/ pc' = "rear" /\ check = 5
         \/ pc' = "done"
  PROVE  /\ cursor' \in Cursors /\ rows' \in [RowNumbers -> Texts]
         /\ y' = y + 2 /\ found' = found + 1
         /\ RowInv'
<1>1. /\ check \in 1 .. 19 /\ first \in 8 .. 33 /\ first \in RowNumbers
      /\ ~Early /\ pc # "done" /\ ~Early' /\ found \in Nat
      /\ pc = "rear" => check = 5
      /\ cursor.y = 0 => pc = "anomalies" /\ check > 9
  <2>1. check \in 1 .. 19 /\ first \in RowNumbers
    BY Typed DEF SummaryInv
  <2>2. ~Early /\ pc # "done" /\ ~Early'
    BY DEF Early
  <2>3. first \in 8 .. 33 /\ (pc = "rear" => check = 5)
    BY <2>2 DEF SummaryInv, PlaceInv
  <2>4. cursor.y = 0 => pc = "anomalies" /\ check > 9
    BY <2>2 DEF SummaryInv, RowInv
  <2>5. QED BY <2>1, <2>2, <2>3, <2>4
<1>2. /\ y' = y + 2 /\ found' = found + 1
      /\ cursor' \in Cursors
      /\ cursor'.y = 0 \/ cursor'.y >= 4
      /\ cursor'.y = 0 => n = 64 \/ cursor.y = 0
      /\ rows' \in [RowNumbers -> Texts]
      /\ rows'[1] = "title"
      /\ \A r \in RowNumbers : rows'[r] # "good"
      /\ \E r \in RowNumbers : rows'[r] = Nth[found + 1]
      /\ first + 2 * found < MY =>
           \A k \in 1 .. found + 1 : rows'[first + 2 * (k - 1)] = Nth[k]
  BY <1>1, AnomalyPrinted
<1>3. cursor'.y = 0 => pc' = "done" \/ (pc' = "anomalies" /\ check' > 9)
  BY <1>1, <1>2
<1>4. (found + 1) - 1 = found /\ found + 1 # 0
  BY <1>1
<1>5. Visible(Nth[found])'
  BY <1>2 DEF Visible
<1>6. first' + 2 * (found' - 1) < MY =>
         \A k \in 1 .. found' : rows'[first' + 2 * (k - 1)] = Nth[k]
  BY <1>2, <1>4
<1>7. RowInv'
  BY <1>1, <1>2, <1>3, <1>4, <1>5, <1>6 DEF RowInv
<1>8. QED BY <1>2, <1>7

\* The bound on the anomalies before a check, for the next one.
LEMMA MostFoundGrows ==
  ASSUME SummaryInv, pc = "anomalies", device' = device, check' = check + 1, check \in 1 .. 18,
         \/ found' = found
         \/ found' = found + 1 /\ check # 5 /\ Made(AnomalyChecks[check])
         \/ found' = found + 1 /\ check = 5
  PROVE  found' <= MostFound'
<1>1. found <= MostFound /\ found \in Nat
  BY DEF SummaryInv, PlaceInv, TypeOK
<1>2. /\ check = 12 /\ Made(AnomalyChecks[check]) => "MCEmu" \in device
      /\ check = 13 /\ Made(AnomalyChecks[check]) => "MCEmu" \notin device
  BY AnomalyFacts DEF Made
<1>3. CASE check \in 1 .. 4
  BY <1>1, <1>3 DEF MostFound
<1>4. CASE check \in 5 .. 11
  BY <1>1, <1>4 DEF MostFound
<1>5. CASE check = 12
  BY <1>1, <1>2, <1>5 DEF MostFound
<1>6. CASE check = 13
  BY <1>1, <1>2, <1>6 DEF MostFound
<1>7. CASE check \in 14 .. 18
  BY <1>1, <1>7 DEF MostFound
<1>8. QED BY <1>3, <1>4, <1>5, <1>6, <1>7

LEMMA AnomalyStep == ASSUME ScreenAndDevices, SummaryInv, Anomaly PROVE SummaryInv'
<1>1. /\ pc = "anomalies" /\ ~Early /\ UNCHANGED <<device, first>>
  BY DEF Anomaly, Early
<1>2. /\ device \in Devices /\ check \in 1 .. 19 /\ y \in Nat /\ found \in 0 .. 19
      /\ first \in RowNumbers /\ cursor \in Cursors /\ rows \in [RowNumbers -> Texts]
      /\ first \in 8 .. 33 /\ y = first + 2 * found /\ found <= MostFound
  <2>1. TypeOK
    BY DEF SummaryInv
  <2>2. first \in 8 .. 33 /\ y = first + 2 * found /\ found <= MostFound
    BY <1>1 DEF SummaryInv, PlaceInv
  <2>3. QED BY <2>1, <2>2, Typed
<1>3. /\ NextCheck => \/ check \in 1 .. 18 /\ check' = check + 1 /\ pc' = "anomalies"
                      \/ check = 19 /\ check' = 19 /\ pc' = "done"
  BY <1>1, <1>2, AnomalyFacts DEF NextCheck
<1>4. found \in 0 .. 18
  BY <1>2 DEF MostFound
<1>5. CASE UNCHANGED <<y, cursor, rows, found>> /\ NextCheck
  <2>1. RowInv /\ check > 9 => check' > 9
    BY <1>2, <1>3, <1>5 DEF SummaryInv
  <2>2. ~Early' /\ pc' \in {"anomalies", "done"} /\ check' \in 1 .. 19
    BY <1>2, <1>3, <1>5 DEF Early
  <2>3. TypeOK'
    BY <1>1, <1>2, <1>5, <2>2, AnomalyFacts, NthFacts DEF TypeOK, Texts
  <2>4. PlaceInv'
    <3>1. pc' = "anomalies" => found' <= MostFound'
      BY <1>1, <1>2, <1>3, <1>5, MostFoundGrows
    <3>2. QED BY <1>1, <1>2, <1>5, <2>2, <3>1 DEF PlaceInv, Early
  <2>5. RowInv'
    <3>1. RowInv
      BY DEF SummaryInv
    <3>2. cursor.y = 0 => check > 9
      BY <1>1, <3>1 DEF RowInv
    <3>3. cursor'.y = 0 => pc' = "done" \/ (pc' = "anomalies" /\ check' > 9)
      BY <1>2, <1>3, <1>5, <3>2
    <3>4. QED BY <1>1, <1>5, <2>2, <3>1, <3>3 DEF RowInv, Visible
  <2>6. QED BY <2>3, <2>4, <2>5 DEF SummaryInv
<1>6. CASE /\ Made(AnomalyChecks[check])
           /\ \E lines \in AnomalyChecks[check].lines :
                /\ PrintAnomaly(lines[1])
                /\ IF Len(lines) = 1
                     THEN NextCheck
                     ELSE pc' = "rear" /\ UNCHANGED check
  <2>1. PICK lines \in AnomalyChecks[check].lines :
          /\ PrintAnomaly(lines[1])
          /\ IF Len(lines) = 1 THEN NextCheck ELSE pc' = "rear" /\ UNCHANGED check
    BY <1>6
  <2>2. /\ lines[1] \in 1 .. 64
        /\ lines[1] # 64 \/ check = 9
        /\ Len(lines) # 1 => check = 5
    <3>1. /\ lines[1] \in 1 .. 64
          /\ check # 9 => lines[1] <= 63
          /\ Len(lines) # 1 => check = 5
      BY <1>2, AnomalyFacts
    <3>2. QED BY <3>1
  <2>3. \/ check \in 1 .. 18 /\ check' = check + 1 /\ pc' = "anomalies"
        \/ check = 19 /\ check' = 19 /\ pc' = "done"
        \/ check = 5 /\ check' = 5 /\ pc' = "rear"
    BY <1>3, <2>1, <2>2
  <2>4. /\ cursor' \in Cursors /\ rows' \in [RowNumbers -> Texts]
        /\ y' = y + 2 /\ found' = found + 1
        /\ RowInv'
    <3>1. \/ pc' = "anomalies" /\ check' = check + 1
          \/ pc' = "rear" /\ check = 5
          \/ pc' = "done"
      BY <2>3
    <3>2. QED BY <1>1, <1>4, <2>1, <2>2, <3>1, RowsGrow
  <2>5. ~Early' /\ pc' \in {"anomalies", "rear", "done"} /\ check' \in 1 .. 19
        /\ found' \in 0 .. 19 /\ y' \in Nat
    BY <1>2, <1>4, <2>3, <2>4 DEF Early
  <2>6. TypeOK'
    BY <1>1, <1>2, <2>4, <2>5, AnomalyFacts, NthFacts DEF TypeOK, Texts
  <2>7. PlaceInv'
    <3>1. pc' = "anomalies" => found' <= MostFound'
      BY <1>1, <1>6, <2>3, <2>4, MostFoundGrows
    <3>2. pc' = "rear" => check' = 5 /\ found' \in 1 .. 5
      BY <1>2, <2>3, <2>4 DEF MostFound
    <3>3. first' \in 8 .. 33 /\ y' = first' + 2 * found'
      BY <1>1, <1>2, <2>4
    <3>4. QED BY <2>5, <3>1, <3>2, <3>3 DEF PlaceInv, Early
  <2>8. QED BY <2>4, <2>6, <2>7 DEF SummaryInv
<1>7. QED BY <1>5, <1>6 DEF Anomaly

LEMMA RearStep == ASSUME ScreenAndDevices, SummaryInv, RearToo PROVE SummaryInv'
<1>1. /\ pc = "rear" /\ ~Early /\ pc' = "anomalies" /\ ~Early' /\ check' = check + 1
      /\ PrintAnomaly(38) /\ UNCHANGED <<device, first>>
  BY DEF RearToo, Early
<1>2. /\ check = 5 /\ found \in 1 .. 5 /\ first \in 8 .. 33 /\ y = first + 2 * found
      /\ device \in Devices /\ first \in RowNumbers /\ y \in Nat
  <2>1. check = 5 /\ found \in 1 .. 5 /\ first \in 8 .. 33 /\ y = first + 2 * found
    BY <1>1 DEF SummaryInv, PlaceInv
  <2>2. QED BY <2>1, Typed DEF SummaryInv
<1>3. /\ cursor' \in Cursors /\ rows' \in [RowNumbers -> Texts]
      /\ y' = y + 2 /\ found' = found + 1
      /\ RowInv'
  <2>1. found \in 0 .. 18
    BY <1>2
  <2>2. QED BY <1>1, <2>1, RowsGrow
<1>4. check' = 6 /\ found' \in 2 .. 6 /\ y' \in Nat
  BY <1>1, <1>2, <1>3
<1>5. TypeOK'
  BY <1>1, <1>2, <1>3, <1>4, AnomalyFacts, NthFacts DEF TypeOK, Texts
<1>6. PlaceInv'
  <2>1. first' \in 8 .. 33 /\ y' = first' + 2 * found' /\ found' <= MostFound'
    BY <1>1, <1>2, <1>3, <1>4 DEF MostFound
  <2>2. QED BY <1>1, <2>1 DEF PlaceInv
<1>7. QED BY <1>3, <1>5, <1>6 DEF SummaryInv

LEMMA SummaryStep == ASSUME ScreenAndDevices, SummaryInv, [Next]_vars PROVE SummaryInv'
<1>1. CASE UNCHANGED vars
  BY <1>1 DEF vars, SummaryInv, TypeOK, PlaceInv, RowInv, Early, MostFound, Visible
<1>2. CASE Next
  BY <1>2, GreetingStep, InfoStep, HeadingStep, AllGoodStep, AnomalyStep, RearStep DEF Next
<1>3. QED BY <1>1, <1>2

-----------------------------------------------------------------------------
(* The theorems.                                                            *)

\* What the invariant says of a finished page, and of an unfinished one.
LEMMA SummaryImplies ==
  ASSUME ScreenAndDevices, SummaryInv
  PROVE  AllGoodIffNothingFound /\ AnomaliesKeepRows
<1>1. AllGoodIffNothingFound
  <2>1. SUFFICES ASSUME pc = "done" PROVE Visible("good") <=> found = 0
    BY DEF AllGoodIffNothingFound
  <2>2. ~Early /\ first \in RowNumbers
    BY <2>1, Typed DEF Early, SummaryInv
  <2>3. Visible("good") => found = 0
    BY DEF Visible, SummaryInv, RowInv
  <2>4. found = 0 => rows[first] = "good"
    BY <2>2 DEF SummaryInv, RowInv
  <2>5. QED BY <2>2, <2>3, <2>4 DEF Visible
<1>2. AnomaliesKeepRows
  <2>1. rows[1] = "title"
    BY DEF SummaryInv, RowInv
  <2>2. ASSUME pc \in {"anomalies", "done"}
        PROVE  /\ ~Early /\ first \in 8 .. 33 /\ found \in Nat
               /\ found > 0 => Visible(Nth[found])
               /\ first + 2 * (found - 1) < MY =>
                    \A k \in 1 .. found : rows[first + 2 * (k - 1)] = Nth[k]
    <3>1. ~Early
      BY <2>2 DEF Early
    <3>2. first \in 8 .. 33 /\ found \in Nat
      BY <3>1 DEF SummaryInv, PlaceInv, TypeOK
    <3>3. QED BY <3>1, <3>2 DEF SummaryInv, RowInv
  <2>3. ASSUME pc \in {"anomalies", "done"}, first + 2 * (found - 1) < MY, NEW k \in 1 .. found
        PROVE  Visible(Nth[k])
    <3>1. k \in Nat /\ k >= 1 /\ k <= found /\ first \in 8 .. 33 /\ found \in Nat
      BY <2>2, <2>3
    <3>2. first + 2 * (k - 1) \in Nat /\ first + 2 * (k - 1) < MY
      BY <3>1, <2>3, GridFacts
    <3>3. first + 2 * (k - 1) \in RowNumbers
      BY <3>2, GridFacts
    <3>4. rows[first + 2 * (k - 1)] = Nth[k]
      BY <2>2, <2>3
    <3>5. QED BY <3>3, <3>4 DEF Visible
  <2>4. QED BY <2>1, <2>2, <2>3 DEF AnomaliesKeepRows
<1>3. QED BY <1>1, <1>2

LEMMA SummaryInvariant == ASSUME ScreenAndDevices PROVE Spec => []SummaryInv
BY InitStep, SummaryStep, PTL DEF Spec

\* Every variable of summary() has its type: no check prints more than the
\* nineteen lines there are, the cursor stays on the screen, and "All good" has
\* a row of the screen, however many lines the first part prints.
THEOREM TypeCorrect == ASSUME ScreenAndDevices PROVE Spec => []TypeOK
<1>1. SummaryInv => TypeOK
  BY DEF SummaryInv
<1>2. QED BY <1>1, SummaryInvariant, PTL

\* A finished page says that all is good exactly if no check found anything:
\* the first anomaly is printed over that line, no other line is.
THEOREM AllGoodAlwaysIffNothingFound ==
  ASSUME ScreenAndDevices PROVE Spec => []AllGoodIffNothingFound
BY SummaryInvariant, SummaryImplies, PTL

\* As long as the rows last no anomaly covers or wipes another; the last one is
\* to be seen even past the last row; and the title stays.
THEOREM AnomaliesAlwaysKeepRows ==
  ASSUME ScreenAndDevices PROVE Spec => []AnomaliesKeepRows
BY SummaryInvariant, SummaryImplies, PTL

=============================================================================
