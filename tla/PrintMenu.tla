----------------------------- MODULE PrintMenu ------------------------------
(***************************************************************************)
(* printMenu(): every page the application can show.  Those with the same  *)
(* lines every time are drawn by Pages, the two that list what they find   *)
(* by ListPages, the summary by Summary; a behaviour draws pages of one of *)
(* the three kinds.  They share the globals retstr, rawval .., of which    *)
(* each starts with what any other may have left: it is "old" to it.       *)
(***************************************************************************)
EXTENDS Pages, Sequences

CONSTANTS
  Items, MaxFaults, MaxStray,   \* of ListPages
  Units                         \* the devices of Summary

VARIABLES
  menu,                 \* "fixed", "list" or "summary": the kind of the pages
  \* ListPages
  listPage, source, items, listPc, i, field, listRow, listRet, listSlot, listRows,
  dots, faults,
  \* Summary
  unit, part, check, line, pen, rows, found, first

List == INSTANCE ListPages WITH
          page <- listPage, pc <- listPc, y <- listRow, ret <- listRet,
          slot <- listSlot, rows <- listRows

Special == INSTANCE Summary WITH
             Devices <- Units, device <- unit, pc <- part, y <- line, cursor <- pen

listVars == <<listPage, source, items, listPc, i, field, listRow, listRet, listSlot,
              listRows, dots, faults>>
summaryVars == <<unit, part, check, line, pen, rows, found, first>>
menuVars == <<menu, vars, listVars, summaryVars>>

ASSUME MenuAssumption == List!ItemsAndFaults /\ Special!ScreenAndDevices

\* The pages that are not drawn start in one state only.
MenuInit ==
  /\ menu \in {"fixed", "list", "summary"}
  /\ Init /\ List!Init /\ Special!Init
  /\ menu # "fixed" => kernmode /\ device = CHOOSE d \in Devices : TRUE
  /\ menu # "list" => listPage = "playlog" /\ source = "missing" /\ Len(items) = 0
  /\ menu # "summary" => unit = CHOOSE u \in Units : TRUE

DrawFixed == menu = "fixed" /\ Next /\ UNCHANGED <<menu, listVars, summaryVars>>
DrawList == menu = "list" /\ List!Step /\ UNCHANGED <<menu, vars, summaryVars>>
DrawListAgain == menu = "list" /\ List!Redraw /\ UNCHANGED <<menu, vars, summaryVars>>
DrawSummary == menu = "summary" /\ Special!Next /\ UNCHANGED <<menu, vars, listVars>>

MenuNext == DrawFixed \/ DrawList \/ DrawListAgain \/ DrawSummary

\* A loop that has begun goes on: printMenu runs to its end without waiting.
MenuSpec == MenuInit /\ [][MenuNext]_menuVars /\ WF_menuVars(DrawList)

-----------------------------------------------------------------------------
(* Properties: those of Pages, and these of the other pages.               *)

\* Every variable has its type.
MenuTypeOK == TypeOK /\ List!TypeOK /\ Special!TypeOK

\* Nothing is left out of a list silently for lack of room.
NothingDroppedSilently == List!NothingDroppedSilently

\* A row of a list shows what belongs to its own item.
CellsBelongToRow == List!CellsBelongToRow

\* Drawing a list comes to an end, unless the kernel answers past it.
PageEnds == List!PageEnds

\* The summary says that all is good exactly if it has found nothing.
AllGoodIffNothingFound == Special!AllGoodIffNothingFound

\* As long as the rows last, no anomaly covers another one.
AnomaliesKeepRows == Special!AnomaliesKeepRows

=============================================================================
