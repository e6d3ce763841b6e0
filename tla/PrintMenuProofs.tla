--------------------------- MODULE PrintMenuProofs ---------------------------
(***************************************************************************)
(* Proofs about printMenu: what PagesProofs, ListPagesProofs and           *)
(* SummaryProofs show of one kind of pages holds of the whole menu, whose  *)
(* steps are steps of one of them and stutter for the others.              *)
(***************************************************************************)
EXTENDS PrintMenu, PagesProofs, TLAPS

\* The modules of the proofs have the definitions of the pages, too, under
\* names of their own: first, that they are the same.
ListP == INSTANCE ListPagesProofs WITH
           page <- listPage, pc <- listPc, y <- listRow, ret <- listRet,
           slot <- listSlot, rows <- listRows

SpecialP == INSTANCE SummaryProofs WITH
              Devices <- Units, device <- unit, pc <- part, y <- line, cursor <- pen

LEMMA ListConstants == ListP!ItemsAndFaults
BY MenuAssumption DEF List!ItemsAndFaults, ListP!ItemsAndFaults, List!Pages, ListP!Pages

LEMMA SpecialConstants == SpecialP!ScreenAndDevices
BY MenuAssumption DEF Special!ScreenAndDevices, SpecialP!ScreenAndDevices

-----------------------------------------------------------------------------
(* The pages with lists.                                                    *)

LEMMA ListInit == MenuInit => ListP!Init
BY DEF MenuInit, List!Init, ListP!Init, List!Pages, ListP!Pages, List!FirstRow, ListP!FirstRow

LEMMA SameGet == List!Get <=> ListP!Get
BY DEF List!Get, ListP!Get, List!Available, ListP!Available, List!Stray, ListP!Stray, List!Mine, ListP!Mine,
       List!Fields, ListP!Fields, List!AfterFailure, ListP!AfterFailure, List!Fault, ListP!Fault

LEMMA SameLoopTest == List!LoopTest <=> ListP!LoopTest
BY DEF List!LoopTest, ListP!LoopTest, List!LastRow, ListP!LastRow

\* A step of a page with a list is one in the module of the proofs.
LEMMA SameStep == List!Step \/ List!Redraw => ListP!Next
<1>1. List!Begin => ListP!Begin
  BY DEF List!Begin, ListP!Begin
<1>2. List!First => ListP!First
  BY SameGet, SameLoopTest
  DEF List!First, ListP!First, List!Listed, ListP!Listed, List!IsListed, ListP!IsListed
<1>3. List!Field => ListP!Field
  BY SameGet, SameLoopTest
  DEF List!Field, ListP!Field, List!Cell, ListP!Cell, List!Fields, ListP!Fields
<1>4. List!Dots => ListP!Dots
  BY DEF List!Dots, ListP!Dots, List!LastRow, ListP!LastRow
<1>5. List!Redraw => ListP!Redraw
  BY DEF List!Redraw, ListP!Redraw, List!Pages, ListP!Pages, List!FirstRow, ListP!FirstRow
<1>6. QED BY <1>1, <1>2, <1>3, <1>4, <1>5 DEF List!Step, ListP!Step, ListP!Next

LEMMA ListStep == [MenuNext]_menuVars => [ListP!Next]_ListP!vars
<1>1. UNCHANGED listVars => UNCHANGED ListP!vars
  BY DEF listVars, ListP!vars
<1>2. MenuNext => UNCHANGED listVars \/ List!Step \/ List!Redraw
  BY DEF MenuNext, DrawFixed, DrawList, DrawListAgain, DrawSummary
<1>3. UNCHANGED menuVars => UNCHANGED listVars
  BY DEF menuVars
<1>4. QED BY <1>1, <1>2, <1>3, SameStep

\* The invariants of the lists, together.
ListInv == ListP!TypeInv /\ ListP!CellInv /\ ListP!CompleteInv

LEMMA ListInvariant == MenuSpec => []ListInv
<1>1. MenuInit => ListInv
  BY ListConstants, ListInit, ListP!TypeInvariant, ListP!CellInit, ListP!CompleteInit DEF ListInv
<1>2. ListInv /\ [MenuNext]_menuVars => ListInv'
  BY ListConstants, ListStep, ListP!TypeInvariant, ListP!CellStep, ListP!CompleteStep DEF ListInv
<1>3. QED BY <1>1, <1>2, PTL DEF MenuSpec

LEMMA ListImplies ==
  ListInv => List!TypeOK /\ CellsBelongToRow /\ NothingDroppedSilently
<1>1. ListP!TypeInv => List!TypeOK
  BY DEF ListP!TypeInv, ListP!TypeOK, List!TypeOK, ListP!Pages, List!Pages,
         ListP!FieldNumbers, List!FieldNumbers, ListP!CellTypes, List!CellTypes,
         ListP!Answerable, List!Answerable
<1>2. ListP!CellInv => CellsBelongToRow
  BY DEF ListP!CellInv, ListP!CellsBelongToRow, CellsBelongToRow, List!CellsBelongToRow,
         ListP!Fields, List!Fields
<1>3. ListP!CompleteInv => NothingDroppedSilently
  BY DEF ListP!CompleteInv, ListP!NothingDroppedSilently, NothingDroppedSilently,
         List!NothingDroppedSilently, ListP!IsListed, List!IsListed, ListP!Shown, List!Shown
<1>4. QED BY <1>1, <1>2, <1>3 DEF ListInv

-----------------------------------------------------------------------------
(* The summary.                                                             *)

LEMMA SameGrid ==
  /\ Special!RowNumbers = SpecialP!RowNumbers /\ Special!Columns = SpecialP!Columns
  /\ Special!Cursors = SpecialP!Cursors
BY DEF Special!RowNumbers, SpecialP!RowNumbers, Special!Columns, SpecialP!Columns,
       Special!Cursors, SpecialP!Cursors

LEMMA SummaryInit == MenuInit => SpecialP!Init
BY SameGrid DEF MenuInit, Special!Init, SpecialP!Init

LEMMA SamePrintAt ==
  \A x, row, n, what : Special!PrintAt(x, row, n, what) <=> SpecialP!PrintAt(x, row, n, what)
BY SameGrid
DEF Special!PrintAt, SpecialP!PrintAt, Special!SetXY, SpecialP!SetXY,
    Special!Moved, SpecialP!Moved, Special!Entered, SpecialP!Entered

LEMMA SameNext == Special!Next => SpecialP!Next
<1> USE SamePrintAt DEF Special!X1, SpecialP!X1, Special!Check, SpecialP!Check,
        Special!Always, SpecialP!Always
<1>1. Special!Greeting => SpecialP!Greeting
  BY SameGrid DEF Special!Greeting, SpecialP!Greeting
<1>2. Special!Info => SpecialP!Info
  <2>1. Special!InfoChecks = SpecialP!InfoChecks
    BY DEF Special!InfoChecks, SpecialP!InfoChecks
  <2>2. \A c : Special!Made(c) <=> SpecialP!Made(c)
    BY DEF Special!Made, SpecialP!Made
  <2>3. QED BY <2>1, <2>2 DEF Special!Info, SpecialP!Info
<1>3. Special!Heading => SpecialP!Heading
  BY DEF Special!Heading, SpecialP!Heading
<1>4. Special!AllGood => SpecialP!AllGood
  BY DEF Special!AllGood, SpecialP!AllGood
<1>5. /\ Special!AnomalyChecks = SpecialP!AnomalyChecks
      /\ Special!Nth = SpecialP!Nth
  BY DEF Special!AnomalyChecks, SpecialP!AnomalyChecks, Special!Nth, SpecialP!Nth
<1>6. \A n : Special!PrintAnomaly(n) <=> SpecialP!PrintAnomaly(n)
  BY <1>5 DEF Special!PrintAnomaly, SpecialP!PrintAnomaly
<1>7. Special!Anomaly => SpecialP!Anomaly
  <2>1. \A c : Special!Made(c) <=> SpecialP!Made(c)
    BY DEF Special!Made, SpecialP!Made
  <2>2. Special!NextCheck <=> SpecialP!NextCheck
    BY <1>5 DEF Special!NextCheck, SpecialP!NextCheck
  <2>3. QED BY <1>5, <1>6, <2>1, <2>2 DEF Special!Anomaly, SpecialP!Anomaly
<1>8. Special!RearToo => SpecialP!RearToo
  BY <1>6 DEF Special!RearToo, SpecialP!RearToo
<1>9. QED BY <1>1, <1>2, <1>3, <1>4, <1>7, <1>8 DEF Special!Next, SpecialP!Next

LEMMA SummaryStep == [MenuNext]_menuVars => [SpecialP!Next]_SpecialP!vars
<1>1. UNCHANGED summaryVars => UNCHANGED SpecialP!vars
  BY DEF summaryVars, SpecialP!vars
<1>2. MenuNext => UNCHANGED summaryVars \/ Special!Next
  BY DEF MenuNext, DrawFixed, DrawList, DrawListAgain, DrawSummary
<1>3. UNCHANGED menuVars => UNCHANGED summaryVars
  BY DEF menuVars
<1>4. QED BY <1>1, <1>2, <1>3, SameNext

LEMMA SummaryInvariant == MenuSpec => []SpecialP!SummaryInv
<1>1. MenuInit => SpecialP!SummaryInv
  BY ScreenAssumption, SpecialConstants, SummaryInit, SpecialP!InitStep
<1>2. SpecialP!SummaryInv /\ [MenuNext]_menuVars => SpecialP!SummaryInv'
  BY ScreenAssumption, SpecialConstants, SummaryStep, SpecialP!SummaryStep
<1>3. QED BY <1>1, <1>2, PTL DEF MenuSpec

LEMMA SummaryImplies ==
  SpecialP!SummaryInv => Special!TypeOK /\ AllGoodIffNothingFound /\ AnomaliesKeepRows
<1>1. SpecialP!SummaryInv => SpecialP!AllGoodIffNothingFound /\ SpecialP!AnomaliesKeepRows
  BY ScreenAssumption, SpecialConstants, SpecialP!SummaryImplies
<1>2. Special!Nth = SpecialP!Nth
  BY DEF Special!Nth, SpecialP!Nth
<1>3. \A what : Special!Visible(what) <=> SpecialP!Visible(what)
  BY SameGrid DEF Special!Visible, SpecialP!Visible
<1>4. Special!AnomalyChecks = SpecialP!AnomalyChecks
  BY DEF Special!AnomalyChecks, SpecialP!AnomalyChecks, Special!Check, SpecialP!Check,
         Special!Always, SpecialP!Always
<1>5. SpecialP!TypeOK => Special!TypeOK
  BY SameGrid, <1>2, <1>4 DEF SpecialP!TypeOK, Special!TypeOK
<1>6. QED BY <1>1, <1>2, <1>3, <1>5
  DEF SpecialP!SummaryInv, AllGoodIffNothingFound, AnomaliesKeepRows,
      SpecialP!AllGoodIffNothingFound, SpecialP!AnomaliesKeepRows,
      Special!AllGoodIffNothingFound, Special!AnomaliesKeepRows

-----------------------------------------------------------------------------
(* The fixed pages.                                                         *)

LEMMA FixedInvariant == MenuSpec => [](PageInv /\ Promises)
<1>1. MenuInit => PageInv /\ Promises
  BY PageInit, PromisesInit DEF MenuInit
<1>2. [MenuNext]_menuVars => [Next]_vars
  BY DEF MenuNext, DrawFixed, DrawList, DrawListAgain, DrawSummary, menuVars
<1>3. PageInv /\ Promises /\ [MenuNext]_menuVars => (PageInv /\ Promises)'
  BY <1>2, PageStep, PromisesStep
<1>4. QED BY <1>1, <1>3, PTL DEF MenuSpec

LEMMA FixedCases == MenuSpec => [](CaseInv /\ RowsKept /\ ClaimsFollowReads)
<1>1. MenuInit => CaseInv /\ RowsKept /\ ClaimsFollowReads
  BY CaseInit DEF MenuInit
<1>2. [MenuNext]_menuVars => [Next]_vars
  BY DEF MenuNext, DrawFixed, DrawList, DrawListAgain, DrawSummary, menuVars
<1>3. PageInv /\ PageInv' /\ CaseInv /\ RowsKept /\ ClaimsFollowReads /\ [MenuNext]_menuVars
        => (CaseInv /\ RowsKept /\ ClaimsFollowReads)'
  BY <1>2, CaseStep
<1>4. QED BY <1>1, <1>3, FixedInvariant, PTL DEF MenuSpec

-----------------------------------------------------------------------------
(* The theorems.                                                            *)

\* Every page keeps the types of its variables, whichever pages are drawn in
\* between.
THEOREM MenuTypeCorrect == MenuSpec => []MenuTypeOK
<1>1. PageInv /\ ListInv /\ SpecialP!SummaryInv => MenuTypeOK
  BY ListImplies, SummaryImplies DEF MenuTypeOK, PageInv
<1>2. QED BY <1>1, FixedInvariant, ListInvariant, SummaryInvariant, PTL

\* What the fixed pages promise about what they print holds of the whole menu:
\* values and errors are of their own line, what is crucial is covered, what
\* only the helper plugins can read is not shown without them, no line is over
\* another one and no fact is claimed that was not read.
THEOREM FixedPagesKeepPromises ==
  MenuSpec => [](/\ ShownIsOwn /\ ErrorIsOwn /\ MaskedHidden /\ NoHelperSaysSo
                 /\ RowsKept /\ ClaimsFollowReads)
<1>1. Promises => ShownIsOwn /\ ErrorIsOwn /\ MaskedHidden /\ NoHelperSaysSo
  BY DEF Promises
<1>2. QED BY <1>1, FixedInvariant, FixedCases, PTL

\* Whatever else printMenu draws, a list that is too long ends with the dots:
\* an item that passes the filter is left out silently only if a getter failed.
THEOREM ListsAlwaysComplete == MenuSpec => []NothingDroppedSilently
BY ListInvariant, ListImplies, PTL

\* A row of a list shows what was read for its own item, whichever getter fails
\* in the middle of it and whatever the page before has left in the globals.
THEOREM ListCellsAlwaysBelong == MenuSpec => []CellsBelongToRow
BY ListInvariant, ListImplies, PTL

\* The summary says that all is good exactly if it has found nothing.
THEOREM SummaryAlwaysHonest == MenuSpec => []AllGoodIffNothingFound
BY SummaryInvariant, SummaryImplies, PTL

\* The title stays, and as long as the rows last no anomaly covers another one.
THEOREM SummaryAlwaysKeepsRows == MenuSpec => []AnomaliesKeepRows
BY SummaryInvariant, SummaryImplies, PTL

=============================================================================
