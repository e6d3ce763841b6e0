------------------------------- MODULE Pages --------------------------------
(***************************************************************************)
(* The pages of main.c that always have the same lines: twenty-one         *)
(* functions, one after the other on the same six globals, ret, retstr,    *)
(* rawval .. and their twins.  A getter that fails may leave them as they  *)
(* were, and nothing but the test of ret keeps a page from showing what    *)
(* another line, or another page, has left there.  The same is true of     *)
(* the checks of summary(), whose rows are in module Summary, and of the   *)
(* lines of savereport(), whose file is in module Report.  PageTables has  *)
(* the cells of each page, Getters the ways each call may end; here a page *)
(* is drawn cell by cell.                                                  *)
(***************************************************************************)
EXTENDS Getters, PageTables, Screen, FiniteSets

CONSTANT Devices      \* the kinds of device: sets of the facts cells ask for

\* The screen has the rows of the code.  The facts about a unit are none of
\* those a page learns, and no mode.
ASSUME PageAssumption ==
  /\ MY >= 34
  /\ \A d \in Devices : d \cap (Learned \cup {"nice", "RAW", "CENSORED", "kernmode"}) = {}

VARIABLES
  page,       \* the page that is drawn, or the last one
  device,     \* what is known of the unit: CEX, DEX or Tool, VITA or Dolce ..
  mode,       \* "nice", "RAW" or "CENSORED"
  kernmode,   \* TRUE: the helper plugins are loaded
  pc,         \* "idle", "cell": calls are made, or "shown": the cell is printed
  cell,       \* the index of the cell in the page
  made,       \* how many of its calls have been made
  ret,        \* ret, ret2 and the value of a call inside a condition
  slot,       \* what each global holds: a fact, a tag of Getters, or "old"
  facts,      \* "found", "holds": how the last tests ended; marks of the page
  y,          \* the row variable of each side of the page
  cursor,     \* the row of the cursor
  last,       \* the row of the last label of each side
  shown       \* what the cell has printed

vars == <<page, device, mode, kernmode, pc, cell, made, ret, slot, facts, y,
          cursor, last, shown>>

-----------------------------------------------------------------------------

NothingShown == [text |-> {}, looked |-> {}, error |-> "none", claim |-> FALSE]

Current == Table[page][cell]

\* What a cell may ask about: the unit, the mode, how the tests ended.
Known ==
  device \cup {mode} \cup facts \cup {v \in {"ret", "ret2"} : ret[v] = "ok"}
  \cup {k \in {"kernmode"} : kernmode}

Reached(c) == c.when \subseteq Known /\ c.unless \cap Known = {}

\* The marks last as long as the page, the rest as long as the line.
Lasting == facts \ {"found", "holds"}

Untouched == [v \in RetVars |-> "old"]
Forgotten == [s \in Slots |-> "old"]
ForgottenButKept == [s \in Slots |-> IF s \in facts THEN slot[s] ELSE "old"]

\* Above the pages: the title is in row 1.
Top == [left |-> 0, right |-> 0]

Init ==
  /\ page = "overview" /\ device \in Devices /\ mode = "nice" /\ kernmode \in BOOLEAN
  /\ pc = "idle" /\ cell = 1 /\ made = 0
  /\ ret = Untouched /\ slot = Forgotten /\ facts = {}
  /\ y = Top /\ cursor = 1 /\ last = Top
  /\ shown = NothingShown

\* printMenu: the screen is cleared and the page drawn from its first line.
\* The mode and the page may change between two pages.  The report is saved
\* only with the helper plugins.
Draw ==
  /\ pc = "idle"
  /\ page' \in DOMAIN Table
  /\ page' = "report" => kernmode
  /\ mode' \in {"nice", "RAW", "CENSORED"}
  /\ pc' = "cell"
  /\ y' = Start(page')
  /\ UNCHANGED <<device, kernmode, cell, made, ret, slot, facts, cursor, last, shown>>

-----------------------------------------------------------------------------
(* A cell.                                                                 *)

\* On to the next cell, with these rows, or back to printMenu.
Advance(rows, labels) ==
  /\ made' = 0
  /\ shown' = NothingShown
  /\ IF cell < Len(Table[page])
       THEN /\ cell' = cell + 1 /\ pc' = "cell"
            /\ y' = rows /\ last' = labels
            /\ UNCHANGED <<ret, slot, facts, cursor>>
       ELSE /\ cell' = 1 /\ pc' = "idle"
            /\ y' = Top /\ last' = Top
            /\ ret' = Untouched /\ slot' = Forgotten /\ facts' = {} /\ cursor' = 1
  /\ UNCHANGED <<page, device, mode, kernmode>>

\* The condition around the cell does not hold.
Skip ==
  /\ pc = "cell" /\ made = 0
  /\ ~Reached(Current)
  /\ Advance(y, last)

\* What a global holds after a call: the fact that was asked for, what was
\* there before, or something that is no fact.
Content(c, tag, before) ==
  CASE tag = "own" -> c.fact
    [] tag = "left" -> before
    [] OTHER -> tag

\* "ret += .." in 32 bits: zero changes nothing, the second code of 0x8.......
\* makes the sum positive, a third one makes it negative again.
Plus(sum, code) ==
  IF code = "ok" THEN sum ELSE IF sum = "system" THEN "wrapped" ELSE code

Answer(c, outcome, r, s) ==
  /\ ret' = [v \in RetVars |->
               IF v # c.ret THEN r[v]
               ELSE IF c.adds THEN Plus(r[v], outcome.ret) ELSE outcome.ret]
  /\ slot' = [g \in Slots |-> CASE g = c.str -> Content(c, outcome.str, s[g])
                                [] g = c.raw -> Content(c, outcome.raw, s[g])
                                [] OTHER -> s[g]]

\* A getter is called; to the first call of a line all the rest is old.
Ask ==
  /\ pc = "cell"
  /\ made < Len(Current.calls)
  /\ made > 0 \/ Reached(Current)
  /\ LET c == Current.calls[made + 1]
         new == Current.fresh /\ made = 0
     IN /\ \E outcome \in Outcomes(c.get, kernmode) :
             IF new THEN Answer(c, outcome, Untouched, ForgottenButKept)
                    ELSE Answer(c, outcome, ret, slot)
        /\ facts' = IF new /\ Current.line THEN Lasting ELSE facts
  /\ made' = made + 1
  /\ UNCHANGED <<page, device, mode, kernmode, pc, cell, y, cursor, last, shown>>

Contents(slots) == {slot[s] : s \in slots}

\* "ret >= 0" for all that are tested, or the opposite.
TestsPass == \A v \in Current.tests : ret[v] \in Current.passes

\* What the tests tell: the further test of the values may end either way.
Learnt(holds) ==
  {f \in facts : (f = "found" => Current.tests = {}) /\ (f = "holds" => Current.compares = {})}
  \cup {f \in {"found", Current.marks} : TestsPass /\ Current.tests # {} /\ f # "nothing"}
  \cup {f \in {"holds"} : holds}

\* The label at (x1, y), then the text, the raw form, or error(ret).
Show ==
  /\ pc = "cell"
  /\ made = Len(Current.calls)
  /\ made > 0 \/ Reached(Current)
  /\ \E holds \in BOOLEAN :
       /\ holds => TestsPass /\ Current.compares # {}
       /\ facts' = Learnt(holds)
  /\ shown' =
       IF TestsPass
         THEN [text |-> Contents(IF mode = "RAW" THEN Current.raw ELSE Current.nice),
               looked |-> Contents(Current.compares), error |-> "none", claim |-> Current.claim]
         ELSE [NothingShown EXCEPT !.error = IF Current.error = "none" THEN "none"
                                             ELSE ret[Current.error]]
  /\ cursor' = IF Current.line
                 THEN SetXY([x |-> 1, y |-> cursor], 1, y[Current.side]).y
                 ELSE cursor
  /\ pc' = "shown"
  /\ ret' = IF Current.fresh /\ made = 0 THEN Untouched ELSE ret
  /\ slot' = [s \in Slots |-> IF s = Current.marks /\ TestsPass THEN slot.rawval ELSE slot[s]]
  /\ UNCHANGED <<page, device, mode, kernmode, cell, made, y, last>>

\* "y += 2"
Proceed ==
  /\ pc = "shown"
  /\ Advance([y EXCEPT ![Current.side] = @ + Current.down],
             [last EXCEPT ![Current.side] = IF Current.line THEN cursor ELSE @])

Next == Draw \/ Skip \/ Ask \/ Show \/ Proceed

Spec == Init /\ [][Next]_vars

-----------------------------------------------------------------------------
(* Properties.                                                             *)

\* What a cell asks for.
Asked == {Current.calls[k].fact : k \in DOMAIN Current.calls}

\* A cell has just been printed, and does not break the rule by itself.
Printed(flaw) == pc = "shown" /\ flaw \notin Current.flaws

\* Every variable has its type.
TypeOK ==
  /\ page \in DOMAIN Table /\ device \in Devices
  /\ mode \in {"nice", "RAW", "CENSORED"} /\ kernmode \in BOOLEAN
  /\ pc \in {"idle", "cell", "shown"}
  /\ cell \in DOMAIN Table[page] /\ made \in 0 .. 6
  /\ DOMAIN ret = RetVars /\ DOMAIN slot = Slots
  /\ facts \subseteq {"found", "holds", "mounted", "broken"} \cup BlockLocals
  /\ y \in [{"left", "right"} -> Nat] /\ last \in [{"left", "right"} -> RowNumbers]
  /\ cursor \in RowNumbers

\* What no line should show: left-overs, memory nobody wrote, what another part of
\* the same text was, an error code in the place of a value.
NoFacts == {"old", "junk", "kept", "code"}

\* What a line prints, and what its conditions look at, was read for this line
\* by a call that succeeded: nothing that the lines before it have left in the
\* globals, no memory nobody wrote and no error code in the place of a value.
ShownIsOwn ==
  Printed("stale") => (shown.text \cup shown.looked) \cap NoFacts = {}

\* error(ret) says how a call of this line failed, not how another line ended
\* and not that it succeeded.
ErrorIsOwn == Printed("foreign") => shown.error \notin {"old", "ok"}

\* The report is not censored in any mode.
Censored == mode = "CENSORED" /\ page # "report"

Uncovered == {f \in shown.text : ~(Crucial(f) \subseteq Current.mask)}

\* In censored mode the blocks lie over all of the text that identifies the
\* unit, its parts or the account: the last part of serial numbers and
\* addresses, the passwords.  A left-over of another line counts as such a text,
\* since it may be one.  The exceptions are what CrucialHidden is about.
MaskedHidden == Printed("crucial") /\ Censored => Uncovered = {}

\* "hide crucial info (not in raw-mode though)": the same for every line.  It
\* does not hold of the code: the serial numbers of the screens and the CID of a
\* game card are shown in full, and so is what a failed call has left in place.
CrucialHidden == pc = "shown" /\ Censored => Uncovered = {}

\* No line is printed over another one of its side, whichever lines the unit
\* and the failures leave out.
RowsKept == Printed("row") /\ Current.line => cursor > last[Current.side]

\* A fixed text that states a fact ("Prototype!", "QA-Flagged!") is printed
\* only if every call of its line succeeded.
ClaimsFollowReads ==
  Printed("claim") /\ shown.claim =>
    \A v \in RetVars : ret[v] \in {"old", "ok", "text", "black"}

\* "The following anomalies have been detected:", with nothing among them that
\* only means that the helper plugins are missing.  It does not hold of the
\* code: without them the rear touchpad is said to be broken.
AnomaliesAreReal ==
  pc = "shown" /\ page = "summary" /\ shown.claim => \A v \in RetVars : ret[v] # "NO HELPER"

\* "kits may never been activated so no magic either": of a kit whose NVS has
\* no activation, the summary says "This Unit was never activated".  It does
\* not hold of the code: the getter returns another code than it asks for.
NeverActivatedIsSaid ==
  pc = "shown" /\ page = "summary" /\ Asked = {"getActivationCountNvs"} /\ ret["ret"] = "NO DATA"
    => shown.claim

\* A line, with its label, that asks for nothing but facts of the helper plugins.
AsksHelperOnly == Current.line /\ Asked # {} /\ Asked \subseteq HelperFacts

\* Without the helper plugins, no page shows a fact that only they can read, and
\* a line that is about such facts only says "NO HELPER": not "ERROR", not "OFF",
\* and not nothing.  The lines known to do so have the flaw "helper".
NoHelperSaysSo ==
  pc = "shown" /\ ~kernmode =>
    /\ shown.text \cap HelperFacts = {}
    /\ AsksHelperOnly /\ "helper" \notin Current.flaws
         => Message(shown.error) = "NO HELPER"

=============================================================================
