----------------------------- MODULE PageCells ------------------------------
(***************************************************************************)
(* The pages of main.c are written from a handful of patterns: a label at  *)
(* (x1, y), one or two getters that fill the globals, a test of ret, and   *)
(* the printing of the text, the raw form or error(ret).  A cell is one    *)
(* such step; the modules of the pages (PageTables) are tables of cells.   *)
(***************************************************************************)
EXTENDS Naturals, Sequences

\* What summary() and savereport() keep in variables of their own.
PanelLocals == {"vid", "fw", "cfg", "vid_", "fw_", "cfg_"}
BlockLocals == {"ur0blocks", "ux0blocks"}

\* The globals a getter may fill, and "result", the text that the functions
\* without a return code give back.
Slots == {"retstr", "rawval", "rawstr", "retstr2", "rawval2", "rawstr2", "result"}
         \cup PanelLocals \cup BlockLocals

\* ret and ret2, and the value of a call that stands inside a condition.
RetVars == {"ret", "ret2", "value"}

\* What is learnt while a page is drawn; the rest of what cells ask about is
\* settled before: the unit, the mode and the helper plugins.
Learned == {"found", "holds", "ret", "ret2", "mounted", "broken"} \cup BlockLocals

\* A call: the getter, the fact it is asked for, and the globals it gets; with
\* "ret += ..", the result is added to the one before.
Call(get, fact, code, str, raw) ==
  [get |-> get, fact |-> fact, ret |-> code, str |-> str, raw |-> raw, adds |-> FALSE]
Added(call) == [call EXCEPT !.adds = TRUE]
First(get, raw) == Call(get, get, "ret", "retstr", raw)
Second(get, raw) == Call(get, get, "ret2", "retstr2", raw)

\* "ret >= 0"; 999 is "black", and left out.  Two codes of 0x8....... that are
\* added up to a positive number have "wrapped".
NotNegative == {"ok", "text", "wrapped"}
Negative == {"system", "custom", "NO HELPER", "NO DATA", "UNEXPECTED DATA"}

\* A cell that does nothing.
Blank == [
  when |-> {},         \* what must be known for the cell to be reached
  unless |-> {},       \* and what must not
  line |-> FALSE,      \* a label is printed at the row y of its side
  side |-> "left",
  fresh |-> FALSE,     \* nothing of the cells before it belongs here
  calls |-> << >>,     \* in order
  tests |-> {},        \* the results that must be among those that pass
  passes |-> NotNegative,
  compares |-> {},     \* the globals a further test looks at
  marks |-> "nothing", \* what is known for the rest of the page if it passes;
                       \*   a local keeps rawval
  nice |-> {},         \* the globals printed
  raw |-> {},          \*   and in raw mode
  claim |-> FALSE,     \* a fixed text is printed that states a fact
  error |-> "none",    \* whose code is printed if a test fails
  mask |-> {},         \* the columns of the text covered in censored mode
  down |-> 0,          \* how far y moves on
  flaws |-> {}]        \* the properties the code is known to break here

-----------------------------------------------------------------------------
(* How a cell differs from its pattern.                                    *)

When(known, c) == [c EXCEPT !.when = @ \cup known]
Unless(known, c) == [c EXCEPT !.unless = @ \cup known]
Down(n, c) == [c EXCEPT !.down = n]
Right(c) == [c EXCEPT !.side = "right"]
Masked(columns, c) == [c EXCEPT !.mask = columns]
Silent(c) == [c EXCEPT !.error = "none"]
Inline(c) == [c EXCEPT !.line = FALSE, !.fresh = FALSE, !.down = 0, !.error = "none"]
Flaw(kind, c) == [c EXCEPT !.flaws = @ \cup {kind}]

\* What another line has left in a global may be printed, whatever it is: it is
\* not told apart which of the left-overs are secrets.
LeftOver(c) == Flaw("crucial", Flaw("stale", c))

Marks(fact, c) == [c EXCEPT !.marks = fact]
Anew(c) == [Inline(c) EXCEPT !.fresh = TRUE]    \* inline, and on its own
Shows(slots, c) == [c EXCEPT !.nice = slots, !.raw = slots]
Comparing(slots, c) == [c EXCEPT !.compares = slots]
Unchecked(c) == [c EXCEPT !.tests = {}, !.error = "none"]

\* The same for a whole part of a page.
AllWhen(known, cells) == [k \in DOMAIN cells |-> When(known, cells[k])]
AllUnless(known, cells) == [k \in DOMAIN cells |-> Unless(known, cells[k])]
AllFlawed(kind, cells) == [k \in DOMAIN cells |-> Flaw(kind, cells[k])]
Repeated(n, cells) == [k \in 1 .. n * Len(cells) |-> cells[1 + ((k - 1) % Len(cells))]]

-----------------------------------------------------------------------------
(* The patterns.                                                           *)

Gap(n) == [Blank EXCEPT !.down = n]

\* A mutant: "y += 2" is forgotten.
Heading_SameRow == [Blank EXCEPT !.line = TRUE]

Heading == [Blank EXCEPT !.line = TRUE, !.down = 2]
Claim == [Heading EXCEPT !.claim = TRUE]

\* Mutants: the result is not tested; the error is the one of another line.
Value_Untested(get) ==
  [Heading EXCEPT !.fresh = TRUE, !.calls = <<First(get, "rawval")>>,
                  !.nice = {"retstr"}, !.raw = {"rawval"}, !.error = "ret"]
Value_OtherError(get) ==
  [Heading EXCEPT !.fresh = TRUE, !.calls = <<First(get, "rawval")>>, !.tests = {"ret"},
                  !.nice = {"retstr"}, !.raw = {"rawval"}, !.error = "ret2"]

\* One getter, tested; the text, or the number in raw mode, or the error.
Value(get) ==
  [Heading EXCEPT !.fresh = TRUE, !.calls = <<First(get, "rawval")>>, !.tests = {"ret"},
                  !.nice = {"retstr"}, !.raw = {"rawval"}, !.error = "ret"]

\* The raw form is a string; only the text, only the raw form is printed.
Chars(get) == [Value(get) EXCEPT !.calls = <<First(get, "rawstr")>>, !.raw = {"rawstr"}]
Words(get) == [Value(get) EXCEPT !.raw = {"retstr"}]
Number(get) == [Value(get) EXCEPT !.nice = {"rawval"}]
RawChars(get) == [Chars(get) EXCEPT !.nice = {"rawstr"}]

\* The second set of globals.
Value2(get) ==
  [Value(get) EXCEPT !.calls = <<Second(get, "rawval2")>>, !.tests = {"ret2"},
                     !.nice = {"retstr2"}, !.raw = {"rawval2"}, !.error = "none"]

\* Two getters; "if( ret >= 0 && ret2 >= 0 ) .. else error(ret)", which is no
\* error if only the second fails; or only ret is tested.
Both2(get, get2) ==
  [Flaw("foreign", Value(get)) EXCEPT !.calls = <<First(get, "rawval"), Second(get2, "rawval2")>>,
                     !.tests = {"ret", "ret2"}, !.nice = {"retstr", "retstr2"},
                     !.raw = {"rawval", "rawval2"}]
OneOf2(get, get2) == [Both2(get, get2) EXCEPT !.tests = {"ret"}, !.flaws = {}]

\* No label, nothing printed: the getter decides what follows.
Probe(get, raw) ==
  [Blank EXCEPT !.fresh = TRUE, !.calls = <<First(get, raw)>>, !.tests = {"ret"}]

\* A line that is there only if the getter found something.
IfFound(get, columns) ==
  << Probe(get, "rawstr"),
     When({"found"}, Masked(columns, [Heading EXCEPT !.nice = {"retstr"}, !.raw = {"rawstr"}])) >>

\* A mutant: the value is compared, whether or not there is one.
Alert_Untested(get, raw) ==
  << Unchecked(Comparing({raw}, Probe(get, raw))), When({"holds"}, Right(Claim)) >>

\* A fixed text that is there only if the value is the right one.
Alert(get, raw) ==
  << Comparing({raw}, Probe(get, raw)), When({"holds"}, Right(Claim)) >>

\* The current fact and the copy in IDStorage: once if they are the same, else
\* the original and, so many rows below it, the current one.
Copy == [rawval |-> "rawval2", rawstr |-> "rawstr2"]

Pair(get, get2, form, columns, below) ==
  LET blank == Masked(columns, Blank)
      number == {form} \cap {"rawval"}    \* a number is printed with its text
      current == [blank EXCEPT !.nice = {"retstr"} \cup number, !.raw = {form}]
      original == [blank EXCEPT !.nice = {"retstr2"} \cup {Copy[f] : f \in number},
                                !.raw = {Copy[form]}]
  IN << [Both2(get, get2) EXCEPT
           !.calls = <<First(get, form), Second(get2, Copy[form])>>,
           !.compares = {form, Copy[form]}, !.nice = {}, !.raw = {}, !.down = 0],
        When({"holds"}, current),
        When({"found"}, Unless({"holds"}, Down(below, original))),
        When({"found"}, Unless({"holds"}, [current EXCEPT !.line = below > 0])) >>

\* A text of the registry: it is printed as it comes, error texts included.
Setting(get, key) ==
  [Heading EXCEPT !.fresh = TRUE, !.calls = <<Call(get, key, "none", "result", "none")>>,
                  !.nice = {"result"}, !.raw = {"result"}]

\* The same, with blocks in its place in censored mode.
Secret(get, key) ==
  << Unless({"CENSORED"}, Setting(get, key)), When({"CENSORED"}, Heading) >>

\* "getRegistryIntegerNow_(..) > 0": if it is not, error(ret) is the code of
\* another getter; if it is, the keys are read again without a test.
Positive(key, keys) ==
  << Flaw("foreign",
          [Setting("getRegistryIntegerNow_", key) EXCEPT
             !.calls[1].ret = "value", !.tests = {"value"}, !.nice = {}, !.raw = {},
             !.error = "ret"]) >>
  \o [k \in DOMAIN keys |->
        When({"found"}, Flaw("stale", Inline(Setting("getRegistryIntegerNow_", keys[k]))))]

\* The lines of a text that is cut up while it is printed: at most "n".
Lines(get, fact, n, step) ==
  << Comparing({"result"}, [Inline(Setting(get, fact)) EXCEPT
                              !.fresh = TRUE, !.nice = {}, !.raw = {}]) >>
  \o Repeated(n, << When({"holds"}, Down(step, Shows({"result"}, Heading))),
                    When({"holds"}, Comparing({"result"}, Blank)) >>)

\* "GetDipsw(n) == TRUE ? "ON" : "OFF"": a failure is a switch that is off.
Switch ==
  Flaw("helper", Flaw("claim",
       [Claim EXCEPT !.fresh = TRUE, !.down = 1,
                     !.calls = <<Call("GetDipsw", "GetDipsw", "value", "result", "none")>>]))

\* "if( GetQAFlag(..) == SCE_TRUE )": a line with an empty row above it.
FlagLine ==
  << [Blank EXCEPT !.fresh = TRUE, !.tests = {"value"}, !.compares = {"result"},
                   !.calls = <<Call("GetQAFlag", "GetQAFlag", "value", "result", "none")>>],
     When({"holds"}, Gap(1)), When({"holds"}, Down(1, Claim)) >>

-----------------------------------------------------------------------------
(* summary() and savereport(): what they say has a row of its own, or a line *)
(* of the report.                                                           *)

\* A fixed text that states a fact.
Remark == [Blank EXCEPT !.claim = TRUE]

\* It is there only if the value is the right one.
Note(get, raw) == <<Comparing({raw}, Probe(get, raw)), When({"holds"}, Remark)>>

\* It is there only if the two values differ, or are so and so.
Compared(get, get2, form) ==
  [Comparing({form, Copy[form]}, Probe(get, form)) EXCEPT
     !.calls = <<First(get, form), Second(get2, Copy[form])>>, !.tests = {"ret", "ret2"}]
Versus(get, get2, form) == <<Compared(get, get2, form), When({"holds"}, Remark)>>

\* It is there only if a file or directory is, or is not.
File(does) ==
  Comparing({"result"}, [Blank EXCEPT
    !.fresh = TRUE, !.calls = <<Call(does, does, "none", "result", "none")>>])
FileNote(does) == <<File(does), When({"holds"}, Remark)>>

\* "(ret = get(..)) >= 0 ? retstr : error(ret, "ERROR")" in a line of the report.
Entry(get) == [Shows({"retstr"}, Anew(Value(get))) EXCEPT !.error = "ret"]
Entries(gets) == [k \in DOMAIN gets |-> Entry(gets[k])]
Fetched(get, key) == Anew(Setting(get, key))

=============================================================================
