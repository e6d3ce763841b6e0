--------------------------- MODULE PSVidentProofs ---------------------------
(***************************************************************************)
(* Proofs about the main loop, for every number of pages, every hold time  *)
(* and every set of buttons.                                               *)
(***************************************************************************)
EXTENDS PSVident, TLAPS

\* What printMenu draws, and the banner written over it, are screens.
LEMMA DrawnIsScreen ==
  ASSUME NEW p \in 0 .. LastPage + 1, NEW r \in {0, 1}, NEW c \in {0, 1}
  PROVE  Drawn(p, r, c) \in Screens
BY DEF Drawn, Screens

LEMMA BlankIsScreen == Blank \in Screens
BY PSVidentAssumption, DrawnIsScreen DEF Blank

LEMMA BannerIsScreen ==
  ASSUME NEW s \in Screens
  PROVE  [s EXCEPT !.banner = "saving"] \in Screens
BY DEF Screens

\* What each operation on the pages does to their types.
LEMMA PagesTyped ==
  ASSUME TypeOK,
         RefreshPage \/ ToggleCensored \/ ToggleRaw \/ ResetAll
           \/ TurnPage(1, menu < LastPage) \/ TurnPage(-1, menu > 0)
           \/ UNCHANGED uiVars
  PROVE  /\ menu' \in 0 .. LastPage
         /\ RAW' \in {0, 1} /\ CENSORED' \in {0, 1}
         /\ screen' \in Screens
<1>1. /\ menu' \in 0 .. LastPage
      /\ RAW' \in {0, 1} /\ CENSORED' \in {0, 1}
  BY PSVidentAssumption
  DEF TypeOK, RefreshPage, ToggleCensored, ToggleRaw, ResetAll, TurnPage, uiVars
<1>2. PrintMenu \/ screen' = screen
  BY DEF RefreshPage, ToggleCensored, ToggleRaw, ResetAll, TurnPage, uiVars
<1>3. menu' \in 0 .. LastPage + 1
  BY <1>1, PSVidentAssumption
<1>4. screen' \in Screens
  BY <1>1, <1>2, <1>3, DrawnIsScreen DEF PrintMenu, TypeOK
<1>5. QED BY <1>1, <1>4

\* The type invariant is inductive as it stands.
THEOREM TypeCorrect == Spec => []TypeOK
<1>1. Init => TypeOK
  BY PSVidentAssumption, BlankIsScreen DEF Init, TypeOK, Statements
<1>2. TypeOK /\ [Next]_vars => TypeOK'
  <2> SUFFICES ASSUME TypeOK, [Next]_vars PROVE TypeOK'
    OBVIOUS
  <2> USE DEF pluginVars, padVars, reportVars, timeVars
  <2>1. CASE Load
    <3>1. menu \in 0 .. LastPage + 1
      BY PSVidentAssumption DEF TypeOK
    <3>2. CASE LoadKernelPlugin
      BY <3>2 DEF LoadKernelPlugin, TypeOK, Statements, uiVars
    <3>3. CASE LoadUserPlugin
      BY <3>3 DEF LoadUserPlugin, TypeOK, Statements, uiVars
    <3>4. CASE Start
      BY <3>4, <3>1, DrawnIsScreen DEF Start, TypeOK, Statements
    <3>5. QED BY <2>1, <3>2, <3>3, <3>4 DEF Load
  <2>2. CASE Peek
    BY <2>2, PSVidentAssumption DEF Peek, TypeOK, Statements, uiVars
  <2>3. CASE Cross \/ Square \/ Triangle \/ Circle \/ Right \/ Left
    <3>1. /\ menu' \in 0 .. LastPage
          /\ RAW' \in {0, 1} /\ CENSORED' \in {0, 1}
          /\ screen' \in Screens
      BY <2>3, PagesTyped
      DEF Cross, Square, Triangle, Circle, Right, Left, Handle
    <3>2. /\ pc' \in Statements
          /\ UNCHANGED <<pluginVars, padVars, reportVars, timeVars>>
      BY <2>3 DEF Cross, Square, Triangle, Circle, Right, Left, Handle, Statements
    <3>3. QED BY <3>1, <3>2 DEF TypeOK
  <2>4. CASE Down
    BY <2>4, PSVidentAssumption DEF Down, TypeOK, Statements, uiVars
  <2>5. CASE HoldCheck
    <3>1. [screen EXCEPT !.banner = "saving"] \in Screens
      BY BannerIsScreen DEF TypeOK
    <3>2. screen' \in Screens
      BY <2>5, <3>1, Zenon DEF HoldCheck, TypeOK
    <3>3. /\ pc' \in Statements
          /\ sinceSave' \in 0 .. Hold
          /\ UNCHANGED <<pluginVars, padVars, menu, RAW, CENSORED, reportVars,
                         heldFor>>
      BY <2>5, PSVidentAssumption DEF HoldCheck, TypeOK, Statements
    <3>4. QED BY <3>2, <3>3 DEF TypeOK
  <2>6. CASE SaveDone
    <3>1. menu \in 0 .. LastPage + 1
      BY PSVidentAssumption DEF TypeOK
    <3>2. QED BY <2>6, <3>1, DrawnIsScreen DEF SaveDone, TypeOK, Statements
  <2>7. CASE ExitCombo
    BY <2>7 DEF ExitCombo, TypeOK, Statements, uiVars
  <2>8. CASE Unload
    BY <2>8 DEF Unload, TypeOK, Statements, uiVars
  <2>9. CASE Relaunch
    BY <2>9, PSVidentAssumption, BlankIsScreen DEF Relaunch, TypeOK, Statements
  <2>10. CASE Clock
    BY <2>10, PSVidentAssumption DEF Clock, Later, TypeOK, uiVars
  <2>11. CASE UNCHANGED vars
    BY <2>11 DEF vars, uiVars, TypeOK
  <2>12. QED
    BY <2>1, <2>2, <2>3, <2>4, <2>5, <2>6, <2>7, <2>8, <2>9, <2>10, <2>11
    DEF Next, Program, Iteration, Handlers
<1>3. QED
  BY <1>1, <1>2, PTL DEF Spec

-----------------------------------------------------------------------------
(* The display modes and the screen.  A page is redrawn by every handler    *)
(* that changes what it shows, so the screen is current from Start on,      *)
(* except while the banner of a running report is over it.                  *)

Settled == {"peek", "cross", "square", "triangle", "circle", "right", "left",
            "down", "hold", "combo"}

ScreenInv ==
  /\ pc \in Settled => screen = Drawn(menu, RAW, CENSORED)
  /\ ~(RAW = 1 /\ CENSORED = 1)
  /\ ~(screen.RAW = 1 /\ screen.CENSORED = 1)

LEMMA DrawnFields ==
  ASSUME NEW p, NEW r, NEW c
  PROVE  /\ Drawn(p, r, c).menu = p
         /\ Drawn(p, r, c).RAW = r
         /\ Drawn(p, r, c).CENSORED = c
BY DEF Drawn

\* Handling a button keeps the modes apart and the screen up to date.
LEMMA HandlerKeepsScreen ==
  ASSUME TypeOK, ScreenInv, screen = Drawn(menu, RAW, CENSORED),
         RefreshPage \/ ToggleCensored \/ ToggleRaw \/ ResetAll
           \/ TurnPage(1, menu < LastPage) \/ TurnPage(-1, menu > 0)
           \/ UNCHANGED uiVars
  PROVE  screen' = Drawn(menu', RAW', CENSORED') /\ ~(RAW' = 1 /\ CENSORED' = 1)
<1>1. PrintMenu \/ UNCHANGED <<menu, RAW, CENSORED, screen>>
  BY DEF RefreshPage, ToggleCensored, ToggleRaw, ResetAll, TurnPage, uiVars
<1>2. ~(RAW' = 1 /\ CENSORED' = 1)
  BY DEF RefreshPage, ToggleCensored, ToggleRaw, ResetAll, TurnPage, uiVars,
         ScreenInv, TypeOK
<1>3. QED BY <1>1, <1>2, Zenon DEF PrintMenu

LEMMA ScreenStep ==
  ASSUME TypeOK, ScreenInv, [Next]_vars
  PROVE  ScreenInv'
<1> USE DEF Settled
<1>1. CASE LoadKernelPlugin \/ LoadUserPlugin \/ Peek \/ Down \/ ExitCombo
           \/ Unload \/ Clock \/ UNCHANGED vars
  <2>1. UNCHANGED <<menu, RAW, CENSORED, screen>>
    BY <1>1 DEF LoadKernelPlugin, LoadUserPlugin, Peek, Down, ExitCombo, Unload,
                Clock, vars, uiVars
  <2>2. pc' \in Settled => pc \in Settled
    BY <1>1 DEF LoadKernelPlugin, LoadUserPlugin, Peek, Down, ExitCombo, Unload,
                Clock, vars
  <2>3. QED BY <2>1, <2>2 DEF ScreenInv
<1>2. CASE Start \/ SaveDone
  <2>1. UNCHANGED <<menu, RAW, CENSORED>> /\ screen' = Drawn(menu, RAW, CENSORED)
    BY <1>2 DEF Start, SaveDone
  <2>2. QED BY <2>1, DrawnFields DEF ScreenInv
<1>3. CASE Cross \/ Square \/ Triangle \/ Circle \/ Right \/ Left
  <2>1. screen = Drawn(menu, RAW, CENSORED)
    BY <1>3 DEF ScreenInv, Cross, Square, Triangle, Circle, Right, Left, Handle
  <2>2. screen' = Drawn(menu', RAW', CENSORED') /\ ~(RAW' = 1 /\ CENSORED' = 1)
    BY <1>3, <2>1, HandlerKeepsScreen
    DEF Cross, Square, Triangle, Circle, Right, Left, Handle
  <2>3. QED BY <2>2, DrawnFields DEF ScreenInv
<1>4. CASE HoldCheck
  <2>1. /\ UNCHANGED <<menu, RAW, CENSORED>>
        /\ \/ pc' = "combo" /\ screen' = screen
           \/ pc' = "save" /\ screen' = [screen EXCEPT !.banner = "saving"]
    BY <1>4 DEF HoldCheck
  <2>2. screen'.RAW = screen.RAW /\ screen'.CENSORED = screen.CENSORED
    BY <2>1 DEF TypeOK, Screens
  <2>3. QED BY <1>4, <2>1, <2>2 DEF HoldCheck, ScreenInv
<1>5. CASE Relaunch
  BY <1>5, DrawnFields DEF Relaunch, Blank, ScreenInv
<1>6. QED
  BY <1>1, <1>2, <1>3, <1>4, <1>5
  DEF Next, Program, Load, Iteration, Handlers

THEOREM ScreenInvariant == Spec => []ScreenInv
<1>1. Init => ScreenInv
  BY DrawnFields DEF Init, Blank, ScreenInv, Settled
<1>2. TypeOK /\ ScreenInv /\ [Next]_vars => ScreenInv'
  BY ScreenStep
<1>3. QED
  BY <1>1, <1>2, TypeCorrect, PTL DEF Spec

\* Censored mode and raw mode exclude each other, in memory and on the screen.
THEOREM ModesAlwaysExclusive == Spec => []ModesExclusive
<1>1. ScreenInv => ModesExclusive
  BY DEF ScreenInv, ModesExclusive
<1>2. QED BY <1>1, ScreenInvariant, PTL

\* The page on the screen is the selected one in the selected modes.
THEOREM ScreenAlwaysCurrent == Spec => []ScreenCurrent
<1>1. ScreenInv => ScreenCurrent
  BY DEF ScreenInv, ScreenCurrent, Settled
<1>2. QED BY <1>1, ScreenInvariant, PTL

-----------------------------------------------------------------------------
(* The report.  Once the handlers have run, a report that is still owed for *)
(* this hold cannot come due before DOWN has been in every sample for Hold, *)
(* nor before Hold has passed since the last report.                        *)

Armed == pc \in {"hold", "combo", "peek"} /\ "DOWN" \in pad /\ refreshed = 0

HoldInv ==
  /\ pc \in Loading => pad = {} /\ oldpad = {}
  /\ pc = "peek" => oldpad = pad
  /\ Armed => heldFor + due >= Hold
  /\ Armed => sinceSave + due >= Hold
  /\ pc = "save" => "DOWN" \in pad /\ heldFor >= Hold

LEMMA HoldStep ==
  ASSUME TypeOK, HoldInv, [Next]_vars
  PROVE  HoldInv'
<1> USE PSVidentAssumption DEF TypeOK, HoldInv, Armed, Loading
<1>1. CASE Load \/ Unload
  BY <1>1 DEF Load, LoadKernelPlugin, LoadUserPlugin, Start, Unload, padVars,
              reportVars, timeVars
<1>2. CASE Peek
  BY <1>2 DEF Peek, reportVars
<1>3. CASE Cross \/ Square \/ Triangle \/ Circle \/ Right \/ Left
  BY <1>3 DEF Cross, Square, Triangle, Circle, Right, Left, Handle
<1>4. CASE Down
  BY <1>4 DEF Down, padVars, reportVars, timeVars
<1>5. CASE HoldCheck
  <2>1. /\ pc = "hold"
        /\ UNCHANGED <<pad, oldpad, due, refreshed, heldFor>>
        /\ \/ pc' = "combo" /\ UNCHANGED sinceSave
           \/ pc' = "save" /\ SaveIsDue
    BY <1>5 DEF HoldCheck, padVars, reportVars
  <2>2. QED BY <2>1 DEF SaveIsDue
<1>6. CASE SaveDone
  BY <1>6 DEF SaveDone, padVars, timeVars
<1>7. CASE ExitCombo
  BY <1>7 DEF ExitCombo, reportVars, timeVars
<1>8. CASE Relaunch
  BY <1>8 DEF Relaunch
<1>9. CASE Clock
  BY <1>9 DEF Clock, Later, padVars
<1>10. CASE UNCHANGED vars
  BY <1>10 DEF vars, padVars, reportVars, timeVars
<1>11. QED
  BY <1>1, <1>2, <1>3, <1>4, <1>5, <1>6, <1>7, <1>8, <1>9, <1>10
  DEF Next, Program, Iteration, Handlers

THEOREM HoldInvariant == Spec => []HoldInv
<1>1. Init => HoldInv
  BY DEF Init, HoldInv, Armed, Loading
<1>2. TypeOK /\ HoldInv /\ [Next]_vars => HoldInv'
  BY HoldStep
<1>3. QED
  BY <1>1, <1>2, TypeCorrect, PTL DEF Spec

\* A report begins only after DOWN was in every sample for the hold time.
THEOREM ReportAlwaysNeedsHold == Spec => []ReportNeedsHold
<1>1. HoldInv => ReportNeedsHold
  BY DEF HoldInv, ReportNeedsHold
<1>2. QED BY <1>1, HoldInvariant, PTL

\* Two reports are at least the hold time apart.
THEOREM ReportsAlwaysSpaced == Spec => ReportsSpaced
<1>1. TypeOK /\ HoldInv /\ [Next]_vars
        => [pc = "hold" /\ pc' = "save" => sinceSave >= Hold]_vars
  <2> SUFFICES ASSUME TypeOK, HoldInv, [Next]_vars, pc = "hold", pc' = "save"
               PROVE  sinceSave >= Hold
    OBVIOUS
  <2>1. HoldCheck
    BY DEF Next, Program, Load, LoadKernelPlugin, LoadUserPlugin, Start,
           Iteration, Peek, Handlers, Cross, Square, Triangle, Circle, Right,
           Left, Handle, Down, SaveDone, ExitCombo, Unload, Relaunch, Clock, vars
  <2>2. SaveIsDue
    BY <2>1 DEF HoldCheck
  <2>3. QED
    BY <2>2, PSVidentAssumption DEF SaveIsDue, HoldInv, Armed, TypeOK
<1>2. QED
  BY <1>1, TypeCorrect, HoldInvariant, PTL DEF Spec, ReportsSpaced

-----------------------------------------------------------------------------
(* The helper.  The notification depends on kernmode as it is at "start";   *)
(* nothing loads or unloads a plugin while the loop runs.                   *)

HelperInv ==
  /\ pc \in {"kernel", "user"} => notice = "none"
  /\ pc = "start" =>
        /\ notice = "none"
        /\ \/ kernmode = 1 /\ kernelLib = "resident" /\ user_id = "loaded"
           \/ kernmode = 0 /\ user_id = "failed"
  /\ HelperStatus

LEMMA HelperStep ==
  ASSUME TypeOK, HelperInv, [Next]_vars
  PROVE  HelperInv'
<1> USE DEF TypeOK, HelperInv, HelperStatus, Loading, Statements
<1>1. CASE LoadKernelPlugin
  BY <1>1 DEF LoadKernelPlugin
<1>2. CASE LoadUserPlugin
  BY <1>2 DEF LoadUserPlugin
<1>3. CASE Start
  BY <1>3 DEF Start
<1>4. CASE Peek \/ Down \/ SaveDone \/ ExitCombo
  BY <1>4 DEF Peek, Down, SaveDone, ExitCombo, pluginVars
<1>5. CASE Cross \/ Square \/ Triangle \/ Circle \/ Right \/ Left
  BY <1>5 DEF Cross, Square, Triangle, Circle, Right, Left, Handle, pluginVars
<1>6. CASE HoldCheck
  BY <1>6 DEF HoldCheck, SaveIsDue, pluginVars
<1>7. CASE Unload \/ Relaunch
  BY <1>7 DEF Unload, Relaunch
<1>8. CASE Clock
  BY <1>8 DEF Clock, pluginVars
<1>9. CASE UNCHANGED vars
  BY <1>9 DEF vars, pluginVars
<1>10. QED
  BY <1>1, <1>2, <1>3, <1>4, <1>5, <1>6, <1>7, <1>8, <1>9
  DEF Next, Program, Load, Iteration, Handlers

\* kernmode tells whether the helper is usable, and no report lacks it.
THEOREM HelperAlwaysKnown == Spec => []HelperStatus
<1>1. Init => HelperInv
  BY DEF Init, HelperInv, HelperStatus, Loading
<1>2. TypeOK /\ HelperInv /\ [Next]_vars => HelperInv'
  BY HelperStep
<1>3. HelperInv => HelperStatus
  BY DEF HelperInv
<1>4. QED
  BY <1>1, <1>2, <1>3, TypeCorrect, PTL DEF Spec

-----------------------------------------------------------------------------
(* The loop implements the viewer of README.md.                             *)

\* Handling a button is one operation of the viewer, or nothing.
LEMMA HandlerImplements ==
  ASSUME TypeOK, ScreenInv, screen = Drawn(menu, RAW, CENSORED),
         RefreshPage \/ ToggleCensored \/ ToggleRaw \/ ResetAll
           \/ TurnPage(1, menu < LastPage) \/ TurnPage(-1, menu > 0)
           \/ UNCHANGED uiVars
  PROVE  [View!Next]_View!viewerVars
<1> USE PSVidentAssumption DEF TypeOK, ScreenInv, DisplayMode, View!viewerVars
<1>1. screen' = Drawn(menu', RAW', CENSORED')
  BY HandlerKeepsScreen
<1>2. /\ screen'.menu = menu' /\ screen'.RAW = RAW'
      /\ screen'.CENSORED = CENSORED'
  BY <1>1, DrawnFields
<1> USE DEF View!Select, View!Drawn, View!Toggle
<1>3. CASE RefreshPage
  BY <1>3, <1>2 DEF RefreshPage, View!Next, View!Refresh
<1>4. CASE ToggleCensored
  BY <1>4, <1>2 DEF ToggleCensored, View!Next, View!Censored
<1>5. CASE ToggleRaw
  BY <1>5, <1>2 DEF ToggleRaw, View!Next, View!RawValues
<1>6. CASE ResetAll
  BY <1>6, <1>2 DEF ResetAll, View!Next, View!Reset
<1>7. CASE TurnPage(1, menu < LastPage)
  BY <1>7, <1>2 DEF TurnPage, uiVars, View!Next, View!NextPage
<1>8. CASE TurnPage(-1, menu > 0)
  BY <1>8, <1>2 DEF TurnPage, uiVars, View!Next, View!PreviousPage
<1>9. CASE UNCHANGED uiVars
  BY <1>9 DEF uiVars
<1>10. QED BY <1>3, <1>4, <1>5, <1>6, <1>7, <1>8, <1>9

\* Every step of the program is an operation of the viewer or is invisible.
LEMMA StepImplements ==
  ASSUME TypeOK, ScreenInv, [Next]_vars
  PROVE  [View!Next]_View!viewerVars
<1> USE DEF DisplayMode, View!viewerVars
<1>1. CASE LoadKernelPlugin \/ LoadUserPlugin \/ Peek \/ Down \/ ExitCombo
           \/ Unload \/ Clock \/ UNCHANGED vars
  BY <1>1 DEF LoadKernelPlugin, LoadUserPlugin, Peek, Down, ExitCombo, Unload,
              Clock, vars, uiVars
<1>2. CASE Start \/ SaveDone
  <2>1. UNCHANGED <<menu, RAW, CENSORED>> /\ screen' = Drawn(menu, RAW, CENSORED)
    BY <1>2 DEF Start, SaveDone
  <2>2. View!Refresh
    BY <2>1, DrawnFields DEF View!Refresh, View!Select, View!Drawn
  <2>3. QED BY <2>2 DEF View!Next
<1>3. CASE Cross \/ Square \/ Triangle \/ Circle \/ Right \/ Left
  <2>1. screen = Drawn(menu, RAW, CENSORED)
    BY <1>3 DEF ScreenInv, Settled, Cross, Square, Triangle, Circle, Right, Left,
                Handle
  <2>2. QED
    BY <1>3, <2>1, HandlerImplements
    DEF Cross, Square, Triangle, Circle, Right, Left, Handle
<1>4. CASE HoldCheck
  <2>1. /\ UNCHANGED <<menu, RAW, CENSORED>>
        /\ \/ screen' = screen
           \/ screen' = [screen EXCEPT !.banner = "saving"]
    BY <1>4 DEF HoldCheck
  <2>2. /\ screen'.menu = screen.menu /\ screen'.RAW = screen.RAW
        /\ screen'.CENSORED = screen.CENSORED
    BY <2>1 DEF TypeOK, Screens
  <2>3. QED BY <2>1, <2>2
<1>5. CASE Relaunch
  <2>1. View!Restart
    BY <1>5, DrawnFields DEF Relaunch, Blank, View!Restart, View!Blank
  <2>2. QED BY <2>1 DEF View!Next
<1>6. QED
  BY <1>1, <1>2, <1>3, <1>4, <1>5
  DEF Next, Program, Load, Iteration, Handlers

\* The polling loop implements the controls that README.md describes.
THEOREM LoopImplementsViewer == Spec => ImplementsViewer
<1>1. Init => View!Init
  BY DrawnFields DEF Init, Blank, DisplayMode, View!Init, View!Blank
<1>2. TypeOK /\ ScreenInv /\ [Next]_vars => [View!Next]_View!viewerVars
  BY StepImplements
<1>3. QED
  BY <1>1, <1>2, TypeCorrect, ScreenInvariant, PTL
  DEF Spec, ImplementsViewer, View!Spec

=============================================================================
