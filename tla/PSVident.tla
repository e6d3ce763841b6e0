------------------------------ MODULE PSVident ------------------------------
(***************************************************************************)
(* main() of PSVident: the helper plugins are loaded, then one loop polls  *)
(* the pad, handles the buttons, saves a report when DOWN was held, and    *)
(* leaves on START+SELECT.                                                 *)
(*                                                                         *)
(* The loop samples the pad (sceCtrlPeekBufferPositive), so what the user  *)
(* does between two samples is lost, and a handler runs for EVERY button   *)
(* held whenever ANY button changed.  Each "if" of the loop body is one    *)
(* action; time may pass between any two of them.  Pages are drawn by      *)
(* printMenu; this module keeps which page was drawn in which mode.        *)
(***************************************************************************)
EXTENDS Integers

CONSTANTS
  LastPage,   \* the last page (23 in the code, "hardcoded!")
  Hold,       \* how long DOWN is to be held, in clock units (2 s)
  Samples     \* bound: the sets of AllButtons that a sample may find held

AllButtons == {"CROSS", "SQUARE", "TRIANGLE", "CIRCLE", "RIGHT", "RTRIGGER",
               "LEFT", "LTRIGGER", "DOWN", "START", "SELECT", "OTHER"}

ASSUME PSVidentAssumption ==
  /\ LastPage \in Nat
  /\ Hold \in Nat
  /\ Samples \subseteq SUBSET AllButtons

VARIABLES
  pc,         \* the statement of main() that runs next
  kernelLib,  \* "resident" or "absent": the kernel plugin's exports
  user_id,    \* "none", "loaded" or "failed": the user plugin
  kernmode,   \* -1, 0 or 1: "helper plugin load status"
  notice,     \* "failed": "Failed to load helper plugin!" was sent
  pad,        \* the sample of this iteration
  oldpad,     \* the sample of the previous iteration
  menu,       \* the selected page
  RAW,        \* 1: display raw values
  CENSORED,   \* 1: hide crucial info
  screen,     \* the page on the screen
  due,        \* time left until the deadline "tick" of the report
  refreshed,  \* 1: the report of this hold has been saved
  heldFor,    \* observer: for how long every sample had DOWN, up to Hold
  sinceSave   \* observer: time since the last report began, up to Hold

pluginVars == <<kernelLib, user_id, kernmode, notice>>
padVars    == <<pad, oldpad>>
uiVars     == <<menu, RAW, CENSORED, screen>>
reportVars == <<due, refreshed>>
timeVars   == <<heldFor, sinceSave>>
vars == <<pc, pluginVars, padVars, uiVars, reportVars, timeVars>>

\* printMenu(menu) clears the screen and draws the page in the modes of now.
Drawn(p, r, c) == [menu |-> p, RAW |-> r, CENSORED |-> c, banner |-> "none"]
Blank == Drawn(LastPage + 1, 0, 0)

Later(t) == IF t < Hold THEN t + 1 ELSE Hold

-----------------------------------------------------------------------------
(* Start-up.  The globals have their initialisers; tick is not initialised *)
(* (any value), and the kernel plugin may be resident from an earlier run, *)
(* since it is never unloaded.                                             *)

Init ==
  /\ pc = "kernel"
  /\ kernelLib \in {"absent", "resident"}
  /\ user_id = "none"
  /\ kernmode = -1
  /\ notice = "none"
  /\ pad = {} /\ oldpad = {}
  /\ menu = 0 /\ RAW = 0 /\ CENSORED = 0
  /\ screen = Blank
  /\ due \in 0 .. Hold
  /\ refreshed = 0
  /\ heldFor = 0
  /\ sinceSave = Hold

\* _vshKernelSearchModuleByName finds it, or taiLoadStartKernelModule returns
\* a module, the OLD_LIB error, or another one.  The code takes OLD_LIB for a
\* library that is there already, and does not look whether it is this one.
LoadKernelPlugin ==
  /\ pc = "kernel"
  /\ \E outcome \in {"found", "ok", "OLD_LIB", "error"} :
        /\ outcome = "found" => kernelLib = "resident"
        /\ outcome = "ok" => kernelLib = "absent"
        /\ kernelLib' = IF outcome = "ok" THEN "resident" ELSE kernelLib
        /\ kernmode' = IF outcome = "error" THEN 0 ELSE 1
  /\ pc' = "user"
  /\ UNCHANGED <<user_id, notice, padVars, uiVars, reportVars, timeVars>>

\* A mutant: a failure to load the user plugin leaves kernmode as it is.
LoadUserPlugin_KeepsKernmode ==
  /\ pc = "user"
  /\ \E ok \in BOOLEAN :
        /\ ok => kernelLib = "resident"
        /\ user_id' = IF ok THEN "loaded" ELSE "failed"
        /\ kernmode' = IF ok THEN 1 ELSE kernmode
  /\ pc' = "start"
  /\ UNCHANGED <<kernelLib, notice, padVars, uiVars, reportVars, timeVars>>

\* The user plugin links the kernel plugin's stubs, so it loads only when the
\* kernel library is there; it may fail for other reasons too.
LoadUserPlugin ==
  /\ pc = "user"
  /\ \E ok \in BOOLEAN :
        /\ ok => kernelLib = "resident"
        /\ user_id' = IF ok THEN "loaded" ELSE "failed"
        /\ kernmode' = IF ok THEN 1 ELSE 0
  /\ pc' = "start"
  /\ UNCHANGED <<kernelLib, notice, padVars, uiVars, reportVars, timeVars>>

\* The notification, the first printMenu, and "int refreshed = 0".
Start ==
  /\ pc = "start"
  /\ notice' = IF kernmode = 0 THEN "failed" ELSE "none"
  /\ screen' = Drawn(menu, RAW, CENSORED)
  /\ refreshed' = 0
  /\ pc' = "peek"
  /\ UNCHANGED <<kernelLib, user_id, kernmode, padVars, menu, RAW, CENSORED,
                 due, timeVars>>

-----------------------------------------------------------------------------
(* The loop.                                                               *)

\* Sample the pad; the handlers run only if some button changed.
Peek ==
  /\ pc = "peek"
  /\ \E p \in Samples :
        /\ pad' = p
        /\ pc' = IF p # oldpad THEN "cross" ELSE "hold"
        /\ heldFor' = IF {"DOWN"} \subseteq p \cap oldpad THEN heldFor ELSE 0
  /\ UNCHANGED <<pluginVars, oldpad, uiVars, reportVars, sinceSave>>

\* A handler "if( pad.buttons & ... )": run body when one of keys is held.
Handle(here, keys, next, body) ==
  /\ pc = here
  /\ pc' = next
  /\ IF keys \cap pad # {} THEN body ELSE UNCHANGED uiVars
  /\ UNCHANGED <<pluginVars, padVars, reportVars, timeVars>>

PrintMenu == screen' = Drawn(menu', RAW', CENSORED')

RefreshPage == UNCHANGED <<menu, RAW, CENSORED>> /\ PrintMenu

\* A mutant: raw mode is not left.
ToggleCensored_KeepsRaw ==
  /\ CENSORED' = 1 - CENSORED
  /\ UNCHANGED <<menu, RAW>>
  /\ PrintMenu

ToggleCensored ==
  /\ CENSORED' = 1 - CENSORED
  /\ RAW' = IF CENSORED' = 1 THEN 0 ELSE RAW
  /\ UNCHANGED menu
  /\ PrintMenu

ToggleRaw ==
  /\ RAW' = 1 - RAW
  /\ CENSORED' = IF RAW' = 1 THEN 0 ELSE CENSORED
  /\ UNCHANGED menu
  /\ PrintMenu

\* A mutant: the modes are not reset.
ResetAll_PageOnly ==
  /\ menu' = 0
  /\ UNCHANGED <<RAW, CENSORED>>
  /\ PrintMenu

ResetAll ==
  /\ menu' = 0
  /\ RAW' = 0
  /\ CENSORED' = 0
  /\ PrintMenu

TurnPage(step, allowed) ==
  IF allowed
    THEN menu' = menu + step /\ UNCHANGED <<RAW, CENSORED>> /\ PrintMenu
    ELSE UNCHANGED uiVars

Cross    == Handle("cross", {"CROSS"}, "square", RefreshPage)
Square   == Handle("square", {"SQUARE"}, "triangle", ToggleCensored)
Triangle == Handle("triangle", {"TRIANGLE"}, "circle", ToggleRaw)
Circle   == Handle("circle", {"CIRCLE"}, "right", ResetAll)

\* A mutant: off by one at the last page.
Right_PastLast == Handle("right", {"RIGHT", "RTRIGGER"}, "left",
                         TurnPage(1, menu <= LastPage))

Right    == Handle("right", {"RIGHT", "RTRIGGER"}, "left",
                   TurnPage(1, menu < LastPage))
Left     == Handle("left", {"LEFT", "LTRIGGER"}, "down",
                   TurnPage(-1, menu > 0))

\* A mutant: the deadline is not set anew.
Down_OldDeadline ==
  /\ pc = "down"
  /\ IF "DOWN" \in pad
       THEN refreshed' = 0 /\ UNCHANGED due
       ELSE UNCHANGED reportVars
  /\ pc' = "hold"
  /\ UNCHANGED <<pluginVars, padVars, uiVars, timeVars>>

\* A mutant: a report that was saved before is not forgotten.
Down_NotRearmed ==
  /\ pc = "down"
  /\ IF "DOWN" \in pad
       THEN due' = Hold /\ UNCHANGED refreshed
       ELSE UNCHANGED reportVars
  /\ pc' = "hold"
  /\ UNCHANGED <<pluginVars, padVars, uiVars, timeVars>>

\* Save report, stage 1: any change while DOWN is held sets the deadline anew.
Down ==
  /\ pc = "down"
  /\ IF "DOWN" \in pad
       THEN due' = Hold /\ refreshed' = 0
       ELSE UNCHANGED reportVars
  /\ pc' = "hold"
  /\ UNCHANGED <<pluginVars, padVars, uiVars, timeVars>>

SaveIsDue ==
  /\ "DOWN" \in pad
  /\ refreshed = 0
  /\ kernmode = 1
  /\ due = 0

\* Save report, stage 2: "Saving Report.." is printed over the page.
HoldCheck ==
  /\ pc = "hold"
  /\ IF SaveIsDue
       THEN /\ screen' = [screen EXCEPT !.banner = "saving"]
            /\ sinceSave' = 0
            /\ pc' = "save"
       ELSE /\ UNCHANGED <<screen, sinceSave>>
            /\ pc' = "combo"
  /\ UNCHANGED <<pluginVars, padVars, menu, RAW, CENSORED, reportVars, heldFor>>

\* Mutants: the page is not drawn again; the report is not marked as saved.
SaveDone_NoRefresh ==
  /\ pc = "save"
  /\ refreshed' = 1
  /\ pc' = "combo"
  /\ UNCHANGED <<pluginVars, padVars, uiVars, due, timeVars>>

SaveDone_NotMarked ==
  /\ pc = "save"
  /\ screen' = Drawn(menu, RAW, CENSORED)
  /\ pc' = "combo"
  /\ UNCHANGED <<pluginVars, padVars, menu, RAW, CENSORED, reportVars, timeVars>>

\* savereport() returned, whatever it returned; Report.tla has its inside.
SaveDone ==
  /\ pc = "save"
  /\ screen' = Drawn(menu, RAW, CENSORED)
  /\ refreshed' = 1
  /\ pc' = "combo"
  /\ UNCHANGED <<pluginVars, padVars, menu, RAW, CENSORED, due, timeVars>>

\* A mutant: the combo only counts with no other button held.
ExitCombo_Alone ==
  /\ pc = "combo"
  /\ IF {"START", "SELECT"} = pad
       THEN pc' = "unload" /\ UNCHANGED oldpad
       ELSE pc' = "peek" /\ oldpad' = pad
  /\ UNCHANGED <<pluginVars, pad, uiVars, reportVars, timeVars>>

\* The exit combo, or "oldpad = pad" and the next iteration.
ExitCombo ==
  /\ pc = "combo"
  /\ IF {"START", "SELECT"} \subseteq pad
       THEN pc' = "unload" /\ UNCHANGED oldpad
       ELSE pc' = "peek" /\ oldpad' = pad
  /\ UNCHANGED <<pluginVars, pad, uiVars, reportVars, timeVars>>

\* Only the user plugin is unloaded; the kernel plugin stays.
Unload ==
  /\ pc = "unload"
  /\ user_id' = IF user_id = "loaded" THEN "none" ELSE user_id
  /\ pc' = "exited"
  /\ UNCHANGED <<kernelLib, kernmode, notice, padVars, uiVars, reportVars, timeVars>>

\* The user starts the application again: a new process, the same kernel.
Relaunch ==
  /\ pc = "exited"
  /\ pc' = "kernel"
  /\ user_id' = "none"
  /\ kernmode' = -1
  /\ notice' = "none"
  /\ pad' = {} /\ oldpad' = {}
  /\ menu' = 0 /\ RAW' = 0 /\ CENSORED' = 0
  /\ screen' = Blank
  /\ due' \in 0 .. Hold
  /\ refreshed' = 0
  /\ heldFor' = 0
  /\ sinceSave' = Hold
  /\ UNCHANGED kernelLib

\* Time passes.
Clock ==
  /\ due > 0 \/ heldFor < Hold \/ sinceSave < Hold
  /\ due' = IF due > 0 THEN due - 1 ELSE 0
  /\ heldFor' = IF "DOWN" \in pad THEN Later(heldFor) ELSE heldFor
  /\ sinceSave' = Later(sinceSave)
  /\ UNCHANGED <<pc, pluginVars, padVars, uiVars, refreshed>>

Load == LoadKernelPlugin \/ LoadUserPlugin \/ Start
Handlers == Cross \/ Square \/ Triangle \/ Circle \/ Right \/ Left \/ Down
Iteration == Peek \/ Handlers \/ HoldCheck \/ SaveDone \/ ExitCombo

Program == Load \/ Iteration \/ Unload

Next == Program \/ Relaunch \/ Clock

\* The program runs on its own thread and never blocks, and time passes.
\* Nothing makes the user start the application again.
Fairness == WF_vars(Program) /\ WF_vars(Clock)

Spec == Init /\ [][Next]_vars /\ Fairness

-----------------------------------------------------------------------------
(* Properties.                                                             *)

Statements == {"kernel", "user", "start", "peek", "cross", "square", "triangle",
               "circle", "right", "left", "down", "hold", "save", "combo",
               "unload", "exited"}

Loading == {"kernel", "user", "start"}

Screens == [menu : 0 .. LastPage + 1, RAW : {0, 1}, CENSORED : {0, 1},
            banner : {"none", "saving"}]

\* Every variable has its type; the page index stays inside printMenu's switch.
TypeOK ==
  /\ pc \in Statements
  /\ kernelLib \in {"absent", "resident"}
  /\ user_id \in {"none", "loaded", "failed"}
  /\ kernmode \in {-1, 0, 1}
  /\ notice \in {"none", "failed"}
  /\ pad \subseteq AllButtons /\ oldpad \subseteq AllButtons
  /\ menu \in 0 .. LastPage
  /\ RAW \in {0, 1} /\ CENSORED \in {0, 1}
  /\ screen \in Screens
  /\ due \in 0 .. Hold
  /\ refreshed \in {0, 1}
  /\ heldFor \in 0 .. Hold
  /\ sinceSave \in 0 .. Hold

\* Censored mode and raw mode exclude each other, in memory and on the
\* screen: the masks of the censored rows are placed over the nice format and
\* would miss a raw value ("hide crucial info (not in raw-mode though)").
ModesExclusive ==
  /\ ~(RAW = 1 /\ CENSORED = 1)
  /\ ~(screen.RAW = 1 /\ screen.CENSORED = 1)

\* Whenever the loop is about to sample the pad, the screen shows the selected
\* page in the selected modes, with no "Saving Report.." left on it, however
\* many buttons were handled in the iterations before.
ScreenCurrent == pc = "peek" => screen = Drawn(menu, RAW, CENSORED)

\* A report begins only when every sample of the last Hold time units had
\* DOWN: releasing it, or pressing it late, can never leave an old deadline
\* (or the uninitialised tick) to be compared with.
ReportNeedsHold == pc = "save" => "DOWN" \in pad /\ heldFor >= Hold

\* Reports do not follow each other faster than the hold time, whatever other
\* buttons are pressed while DOWN stays down (each re-arms the report).
ReportsSpaced == [][pc = "hold" /\ pc' = "save" => sinceSave >= Hold]_vars

\* Outside the loading sequence kernmode says whether the helper is usable:
\* the user plugin and the kernel library are both there, or the failure has
\* been reported; no report is written without the helper.
HelperStatus ==
  /\ pc \notin Loading \cup {"exited"} =>
        /\ kernmode = 1 => kernelLib = "resident" /\ user_id = "loaded" /\ notice = "none"
        /\ kernmode # 1 => user_id = "failed" /\ notice = "failed"
  /\ pc = "save" => kernmode = 1

\* When the helper is loaded, every hold of DOWN alone comes to a report of its
\* own, unless another sample comes first: the first hold of a run, and each
\* that follows a report (Report.tla says that a report ends, and with what).
\* README.md says so without the condition on the helper; HelperStatus has that
\* nothing is saved otherwise.
HoldingSaves ==
  (pc = "down" /\ pad = {"DOWN"} /\ kernmode = 1) ~> (pc = "save" \/ pad # {"DOWN"})

\* START and SELECT leave the application, even while a report is being saved.
ComboExits == (pc = "hold" /\ {"START", "SELECT"} \subseteq pad) ~> (pc = "exited")

DisplayMode(r, c) ==
  CASE r = 1 /\ c = 0 -> "raw"
    [] r = 0 /\ c = 1 -> "censored"
    [] r = 0 /\ c = 0 -> "normal"
    [] OTHER -> "invalid"

\* The loop implements the controls of the README: each handler is one
\* operation of the viewer, everything else is invisible to it.
View == INSTANCE Viewer WITH
  page <- menu,
  mode <- DisplayMode(RAW, CENSORED),
  shown <- [page |-> screen.menu,
            mode |-> DisplayMode(screen.RAW, screen.CENSORED)]

ImplementsViewer == View!Spec

=============================================================================
