------------------------------ MODULE Summary -------------------------------
(***************************************************************************)
(* summary(): the greeting, what makes the unit special, and the list of   *)
(* anomalies.  It is the one page whose rows nobody counts: every check    *)
(* that finds something prints a line and moves the row y on by two, past  *)
(* the end of the screen if need be, where SetXY ignores the row.  What a  *)
(* check finds is left open; what happens to its line is not.              *)
(***************************************************************************)
EXTENDS Screen, Sequences

CONSTANT Devices      \* the kinds of device: sets of facts, see Check

\* The screen is as large as the code's; a retail unit is no development kit.
ScreenAndDevices ==
  /\ MX >= 68 /\ MY >= 34
  /\ \A d \in Devices : ~({"CEX", "Development"} \subseteq d)

VARIABLES
  device,     \* the facts about this device
  pc,         \* the part of the page
  check,      \* the next check of that part
  y,          \* the row variable of summary()
  cursor,     \* the cursor of the screen
  rows,       \* for each row the text printed last in it
  found,      \* how many anomalies have been printed
  first       \* the row "> Nothing found. All good!" was meant for

vars == <<device, pc, check, y, cursor, rows, found, first>>

X1 == 3

\* A check is made if the device has what it needs and nothing it bars, and
\* prints one of these sequences of lines, given by their lengths, or nothing.
Check(needs, bars, lines) == [needs |-> needs, bars |-> bars, lines |-> lines]
Always(lines) == Check({}, {}, lines)

InfoChecks == <<
  Always({<<25>>}),                             \* Prototype
  Always({<<42>>}),                             \* Refurbished
  Always({<<52>>}),                             \* Internal Firmware
  Always({<<35>>, <<45>>, <<52>>}),             \* QA Token
  Check({"Development"}, {}, {<<60>>}),         \* never activated
  Check({"CEX", "VITA"}, {"MCEmu"}, {<<53>>}),  \* first production run
  Check({"VITA"}, {"MCEmu"}, {<<54>>}),         \* newer SoC
  Always({<<62>>}),                             \* Servicing Center
  Always({<<59>>})                              \* In-Store Demonstration Unit
>>

AnomalyChecks == <<
  Always({<<44>>}),                             \* firmware spoofed
  Always({<<45>>}),                             \* ConsoleID
  Always({<<44>>}),                             \* OpenPSID
  Always({<<53>>, <<54>>}),                     \* enter button
  Check({"VITA"}, {}, {<<52>>, <<36>>, <<38>>, <<36, 38>>}),  \* touchpanels
  Always({<<35>>}),                             \* downgraded
  Always({<<39>>, <<60>>}),                     \* target build
  Check({"Development"}, {}, {<<63>>, <<59>>}), \* activation data
  Check({"Development"}, {}, {<<64>>}),         \* activation backups
  Always({<<57>>}),                             \* os0: mounted
  Always({<<38>>}),                             \* ur0: resized
  Check({"MCEmu"}, {}, {<<53>>}),               \* internal card resized
  Check({}, {"MCEmu"}, {<<63>>}),               \* internal card on a fat model
  Always({<<55>>, <<57>>}),                     \* wave
  Always({<<56>>, <<58>>}),                     \* theme
  Always({<<59>>}),                             \* near
  Check({"card"}, {}, {<<60>>}),                \* demo files
  Always({<<46>>}),                             \* Windows
  Always({<<44>>})                              \* MacOS
>>

Made(c) == c.needs \subseteq device /\ c.bars \cap device = {}

\* printMenu has cleared the screen and printed the title in row 1.
Init ==
  /\ device \in Devices
  /\ pc = "greeting"
  /\ check = 1
  /\ y = 4
  /\ cursor = [x |-> 1, y |-> 16]     \* after the "<" at (0, 16)
  /\ rows = [r \in RowNumbers |-> IF r = 1 THEN "title" ELSE "blank"]
  /\ found = 0
  /\ first = 0

-----------------------------------------------------------------------------
(* psvDebugScreenSetXY(x, row) and the printing of a text of n characters. *)

PrintAt(x, row, n, what) ==
  LET at == SetXY(cursor, x, row)
  IN /\ cursor' = Moved(at, n)
     /\ rows' = [r \in RowNumbers |->
                   IF r \in Entered(at, n) THEN "blank"
                   ELSE IF r = at.y THEN what ELSE rows[r]]

\* The greeting, with the helper only: the cursor is set before the user name
\* is read; three rows follow, a fourth if the code name is known, and an empty
\* one.  No later line depends on how far into its row the last text reached.
Greeting ==
  /\ pc = "greeting"
  /\ \/ UNCHANGED <<y, cursor, rows>>
     \/ cursor' = [x |-> X1, y |-> y] /\ UNCHANGED <<y, rows>>
     \/ \E lines \in {3, 4} :
          /\ y' = y + 2 * lines + 1
          /\ cursor' = [x |-> IF lines = 3 THEN X1 ELSE 40, y |-> y + 6]
          /\ rows' = [r \in RowNumbers |->
                        IF r \in {y + 2 * k : k \in 0 .. lines - 1} THEN "text"
                        ELSE rows[r]]
  /\ pc' = "info"
  /\ UNCHANGED <<device, check, found, first>>

\* A check of the first part: nothing, or one line at (x1, y).
Info ==
  /\ pc = "info"
  /\ \/ UNCHANGED <<y, cursor, rows>>
     \/ \E line \in InfoChecks[check].lines :
          /\ Made(InfoChecks[check])
          /\ PrintAt(X1, y, line[1], "text")
          /\ y' = y + 2
  /\ IF check < Len(InfoChecks)
       THEN check' = check + 1 /\ UNCHANGED pc
       ELSE check' = 1 /\ pc' = "heading"
  /\ UNCHANGED <<device, found, first>>

\* "y += 2; The following anomalies have been detected:"
Heading ==
  /\ pc = "heading"
  /\ PrintAt(X1, y + 2, 43, "text")
  /\ y' = y + 4
  /\ pc' = "good"
  /\ UNCHANGED <<device, check, found, first>>

\* A mutant: the row is passed on.
AllGood_MovesOn ==
  /\ pc = "good"
  /\ PrintAt(X1 + 1, y, 26, "good")
  /\ first' = y
  /\ y' = y + 2
  /\ pc' = "anomalies"
  /\ UNCHANGED <<device, check, found>>

\* "> Nothing found. All good!", "this get overwritten if something is found"
AllGood ==
  /\ pc = "good"
  /\ PrintAt(X1 + 1, y, 26, "good")
  /\ first' = y
  /\ pc' = "anomalies"
  /\ UNCHANGED <<device, check, y, found>>

\* One line of an anomaly: the lines are numbered as they are found.
Nth == <<"1st", "2nd", "3rd", "4th", "5th", "6th", "7th", "8th", "9th", "10th",
           "11th", "12th", "13th", "14th", "15th", "16th", "17th", "18th", "19th">>

\* A mutant: the row is not moved on.
PrintAnomaly_SameRow(n) ==
  /\ PrintAt(X1 + 1, y, n, Nth[found + 1])
  /\ found' = found + 1
  /\ UNCHANGED y

PrintAnomaly(n) ==
  /\ PrintAt(X1 + 1, y, n, Nth[found + 1])
  /\ y' = y + 2
  /\ found' = found + 1

NextCheck ==
  IF check < Len(AnomalyChecks)
    THEN check' = check + 1 /\ UNCHANGED pc
    ELSE pc' = "done" /\ UNCHANGED check

Anomaly ==
  /\ pc = "anomalies"
  /\ \/ UNCHANGED <<y, cursor, rows, found>> /\ NextCheck
     \/ /\ Made(AnomalyChecks[check])
        /\ \E lines \in AnomalyChecks[check].lines :
             /\ PrintAnomaly(lines[1])
             /\ IF Len(lines) = 1
                  THEN NextCheck
                  ELSE pc' = "rear" /\ UNCHANGED check
  /\ UNCHANGED <<device, first>>

\* The front panel was replaced, and the rear touchpad, too.
RearToo ==
  /\ pc = "rear"
  /\ PrintAnomaly(38)
  /\ check' = check + 1
  /\ pc' = "anomalies"
  /\ UNCHANGED <<device, first>>

Next == Greeting \/ Info \/ Heading \/ AllGood \/ Anomaly \/ RearToo

Spec == Init /\ [][Next]_vars

-----------------------------------------------------------------------------
(* Properties.                                                             *)

Visible(what) == \E r \in RowNumbers : rows[r] = what

\* Every variable has its type.
TypeOK ==
  /\ device \in Devices
  /\ pc \in {"greeting", "info", "heading", "good", "anomalies", "rear", "done"}
  /\ check \in 1 .. Len(AnomalyChecks)
  /\ y \in Nat
  /\ cursor \in Cursors
  /\ rows \in [RowNumbers -> {"title", "blank", "text", "good"} \cup
                             {Nth[k] : k \in DOMAIN Nth}]
  /\ found \in 0 .. Len(Nth)
  /\ first \in RowNumbers

\* "All good" is on the finished page exactly if nothing was found, even when
\* the first part has filled the screen down to its last row.
AllGoodIffNothingFound == pc = "done" => (Visible("good") <=> found = 0)

\* As long as the rows last, no anomaly covers another one or is wiped by the
\* line before it; the last one found is always to be seen; and the title in
\* row 1 stays, even if the last row reaches the last column and the text goes
\* around to the top of the screen.
AnomaliesKeepRows ==
  /\ rows[1] = "title"
  /\ pc \in {"anomalies", "done"} =>
       /\ first + 2 * (found - 1) < MY => \A k \in 1 .. found : Visible(Nth[k])
       /\ found > 0 => Visible(Nth[found])

\* The page says "The following anomalies have been detected:": every anomaly
\* found is listed.  It does not hold of the code: past the last row, each
\* line is printed over the one before.
AllAnomaliesListed == pc = "done" => \A k \in 1 .. found : Visible(Nth[k])

=============================================================================
