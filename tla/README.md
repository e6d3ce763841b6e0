# PSVident: specifications

PSVident is an application for the PlayStation Vita that shows what can be found
out about a console, page by page, and saves it all as a text report.  This
directory holds TLA+ models of it, TLC configurations that check them on small
instances, and proofs for the parts that matter for every instance.  Paths such as
`main.c:6013` are under `src/src/`; the controls are in `src/README.md`.

## The system

| component | code | state | operations |
|---|---|---|---|
| main loop and controls | `main.c` `main`, `printMenu` | `pad`, `oldpad`, `menu`, `RAW`, `CENSORED`, `kernmode`, `tick`, `refreshed` | load both helper plugins, sample the pad, one handler per button, two stages of saving, exit combo |
| report file | `main.c` `savereport`, `utils.c` `logPrintf`, `psvident.c` `printCapabilities`, `printQaf` | the file on `ux0:`, one descriptor | name, remove, append line by line, notify |
| debug screen | `print/scr_printf.c` | `X`, `Y`, the frame buffer, `init` | init, clear, SetXY, print |
| list pages | `main.c` `playlog`, `modules` | `i`, `y`, `ret`, `retstr`, `rawval` | a loop over as many items as there are |
| summary page | `main.c` `summary` | `y` | thirty checks, each of which prints a line or not |
| fixed pages | `main.c`, the other 21 pages | `ret`, `retstr`, `rawval`, `rawstr` (shared globals) | label and getter per row, censored or raw |
| getters | `psvident.c` | static buffers | read one fact from the system, a file, or the helper |
| helper plugins | `plugin/kernel.c`, `plugin/user.c` | static buffers in the kernel, NVS signal, descriptors, syscall state | system calls that read NVS, MBR, KBL parameters, modules |
| error messages | `main.c` `message`, `error`, `warning` | one static buffer | code to text |
| utilities | `utils.c`, `registry.c`, `aes.c`, `font.c` | none | conversions, cipher, glyphs |

How they interact.  `main` is the only thread of the application.  It polls the
pad with `sceCtrlPeekBufferPositive` and never waits: what the user does between
two samples is lost, and time passes between any two statements.  A handler calls
`printMenu`, which clears the screen and runs one page; a page calls getters,
which leave their result in the shared globals and call the user plugin, which
calls the kernel plugin.  The report calls the same getters and writes to the
memory card.  The kernel plugin is never unloaded, so its library and its static
buffers outlive the application.

What is hard.
- *Sampling and time.*  Handlers run for every button held whenever any button
  changed; the report's deadline is set in one branch and tested in another, and
  the variable it is kept in starts uninitialised.
- *Partial failure.*  Two plugins of which either may fail to load; getters that
  fail one by one; `logPrintf` calls whose results nobody looks at; system calls
  that fail with a resource held.
- *Crashes.*  The console is switched off in the middle of a report.
- *Limits.*  34 rows and 68 columns, with a cursor that wraps and wipes; pages
  whose number of rows depends on data.
- *Stale state.*  Static and shared buffers that keep the last answer.

What makes each part correct is stated as properties in its module; the list of
hazards with their lines is in `PROJECT.json`.

## The modules

| module | models |
|---|---|
| `Viewer` | what the controls promise: a page, a mode, and a screen that shows them (abstract) |
| `PSVident` | `main`: start-up, loop, report timing, exit, relaunch; implements `Viewer` |
| `PSVidentProofs` | theorems about `PSVident` |
| `Report` | naming, removing, appending and announcing the report |
| `ReportLayout` | the lines of `savereport` and their conditions |
| `ReportProofs` | theorems about `Report` |
| `Screen` | cursor arithmetic as pages see it |
| `Getters` | the ways in which each getter of `psvident.c` may end |
| `PageCells` | the patterns the pages are written in: label, getter, test, text or error |
| `PageTables` | the cells of the twenty-one fixed pages |
| `SummaryTables` | what each check of `summary` asks, tests and compares |
| `ReportTables` | what each line of `savereport` is made of |
| `PageRules` | rules that every cell of the tables obeys, each about one line of one page |
| `PageCases` | for every cell, the cases in which a page may reach it, with bounds on rows and results |
| `Pages` | a page drawn cell by cell on the shared globals |
| `PagesProofs` | theorems about `Pages` |
| `PrintMenu` | every page: `Pages`, `ListPages` and `Summary` together |
| `PrintMenuProofs` | theorems about `PrintMenu` |
| `DebugScreen` | `scr_printf.c`, one character at a time; checks `Screen` |
| `DebugScreenProofs` | theorems about `DebugScreen` and the arithmetic of `Screen` |
| `ListPages` | the loops of `playlog` and `modules` |
| `ListPagesProofs` | theorems about `ListPages` |
| `Summary` | the rows of `summary`, with `Screen`'s cursor |
| `SummaryProofs` | theorems about `Summary` |
| `Helper` | the system calls of the kernel plugin |
| `HelperProofs` | theorems about `Helper` |
| `MC*` | instances for TLC |

Definitions keep the names of the code (`menu`, `RAW`, `CENSORED`, `kernmode`,
`refreshed`, `knvs`, `lokalmaster`, ...).  Operators with an underscore and a
remark (`Right_PastLast`) are faulty variants of the definition after them; no
specification uses them, they show that a property would notice that fault.

### PSVident

One action per statement of `main`: `LoadKernelPlugin`, `LoadUserPlugin`, `Start`;
`Peek`; a handler for each `if` (`Cross` ... `Down`); `HoldCheck` and `SaveDone`
around the call of `savereport`; `ExitCombo`, `Unload`.  `pc` is the statement that
comes next.  A handler sets `menu`, `RAW`, `CENSORED` and, through `PrintMenu`, the
record `screen` of what was drawn.  `due` is the time left until `tick`; it has any
value at first, like the variable it stands for.  `Clock` lets time pass at any
point.  `heldFor` and `sinceSave` observe and guide nothing.  The kernel library
is there, or not, from an earlier run, and stays after an exit.

`ImplementsViewer` maps `menu` to the page, the two flags to one mode and `screen`
to what is shown; `Peek`, `HoldCheck`, time and the plugins are stuttering steps.
The "Saving Report.." banner is invisible to the viewer and covered by
`ScreenCurrent`.

### Report

`Save`, `Remove`, then for each line that applies to the device `Open`, `Write`,
`Close`, or `GetterFails` where a getter decides whether the line is printed, and
at the end `Notify`.  `SkipLine` has the one `return ret` of the code, after the
first line.  `PowerOff` may come between any two calls, `Boot` follows; the card
keeps its files.  `files` holds for each name the entries (save, line, whole or
cut).  A faulty card, a full card and a missing card are all the same here: calls
that fail, each at most once per fault.  `ReportLayout` has the real table; a run
of `logPrintf` calls under one condition is one entry.  The device's facts that
cannot fail are in `device`; what getters find is in `ReportProbed`.

### Screen and DebugScreen

`DebugScreen` has `X`, `Y` and the set of cells with ink, printing one character
per step.  `PlainTextMoves` and `FittingTextKeepsRows` say that `Screen`'s
`Moved`, `Entered` and `Fits` are what the code does, so modules about pages
print a whole text in one step.

### Getters, PageCells and the tables

Some two hundred places of `main.c` call a getter, test `ret`, and print one of
six shared globals.  `PageCells` has the patterns of these places as records: the
condition, the calls with the globals they get, the results that are tested and
the values that are compared, what is printed in each mode, whose error is
printed, the columns that censored mode covers, and how far `y` moves.  The tables
put them in the order of the code.  `Getters` says of each getter how it may end:
what it returns, and what it leaves in its two outputs (the fact, nothing, memory
nobody wrote, another text, what the getter itself said the last time, or the error
code), with and without the helper.  It
is read off the code of each getter; how a getter comes by its answer is left out.

Where the code breaks a rule the tables say so, cell by cell, with `Flaw`:
- `stale`: globals are printed or compared that this line may not have filled
  (a second getter that is not tested, a getter that returns success without its
  text, a read of os0 whose failure is not noticed);
- `foreign`: `error(ret)` of another line or of a call that succeeded;
- `claim`: a fixed text stands for a failure (OFF, NO_FLAGS, 0 themes, a broken
  touchpad, two error codes whose sum is positive);
- `row`: a line past the last row of the screen;
- `crucial`: text that identifies the unit, one of its parts or the account, and that
  censored mode leaves open: the serial numbers of the screens (`main.c:1860`, 1872,
  1884, 1910), the CID of a game card, digits of the console id and of the MTP
  serial; and what a failed call has left in the global (`main.c:123`, 1531).  A
  left-over may be a secret of any other line, and left-overs are not told apart, so
  the mark is also on lines where that would take an unlikely order of pages;
- `helper`: a line that asks only the helper plugins and without them does not say
  so: the switches say OFF (from `main.c:3703` on), two modes and the language of the
  livearea nothing (681, 695), the QA flags NO_FLAGS (4043), and `getCpboard` ERROR,
  as it returns -1 and not -1111.

The properties exempt exactly these cells.  So what the run shows is that the
list is complete: every other cell keeps the rules, whatever fails.

`Crucial` says which columns of a text identify the unit, its parts or the account:
serial numbers, addresses of the network hardware, ids, passwords, and left-overs.
It does not count the names people gave (user, profile, device) nor the IP
address of the moment.

### Pages

`Draw` chooses page and mode, `Skip` passes a cell whose condition does not hold,
`Ask` makes one call with any of its outcomes, `Show` tests and prints, `Proceed`
moves `y`.  `slot` has for each global the fact it holds, or the tag "old" for
whatever was there before the line: all that other lines, other pages and other
kinds of pages leave behind is "old", so a page need not be drawn after every
other one.  For `MaskedHidden` an "old" text is a secret that needs blocks over all of
it, since nobody knows what it says.  `ret` is the last result, not its number;
`Plus` is what `ret +=` does to the sign.  `made` counts the calls of a cell.  In the tables "summary" and
"report" are the checks of `summary` and the lines of `savereport` (their rows and
the file are in `Summary` and `Report`); the report is drawn only with the helper.

### PageRules and PageCases

Neither models code.  The tables have no parameter, so what is true of single cells
is a closed formula: `PageRules` says of every cell where a text, a test or an error
comes from (`ShowsWhatItReads`, `ReportsItsOwn`, `CoversWhatItShows`, `NamesTheHelper`),
`PageCases` computes the cases in which each cell of each page may be reached (some
seven thousand in all) and says that every way on from a case stays within a case
of the next cell.  They are stated as assumptions, `RulesAssumption` and
`CasesAssumption`, and TLC decides them completely at the beginning of the run
`debug_screen`; there is nothing in them that a bound could leave out.  `PagesProofs`
uses them in place of the tables, which no prover could expand.  The run
`print_menu` does not extend them: there the properties must notice a fault in a cell.

### PrintMenu

`menu` is the kind of page a behaviour draws.  The three kinds share no state but
the globals, which start as "old" in each; `Pages`, `ListPages` and `Summary` are
joined by one step each in `MenuNext`.

### ListPages

`First` is the getter that asks whether there is an item, `Field` the other
getters of its row, `LoopTest` the end of the loop body with its `while`, `Dots`
the three dots in row 32.  A cell is the item and the field whose text is in
`retstr` when it is printed, so that stale text can be told.  The kernel looks a
module up by its number and never compares the number with how many there are
(`kernel.c:336`, 365), so `Stray` lets it answer past the list.  Up to `MaxStray` such
answers are modelled; `PageEnds` says that the page is finished unless the kernel
answers for a number past the list (`Astray`).  That it does not is the one thing
the loop of `modules` relies on and nothing in the code makes sure of.  Rows and columns
are those of the code; names are three letters, which is what the filter reads.

### Summary

Every check of `summary` with its condition on the device and the lengths of its
lines.  What a check finds is open, except that facts of the device exclude
others; what it has read when it finds something is in `SummaryTables`.  `rows` has
for each row what was printed there last.

### Helper

A call goes through `Lookup`, `Acquire`, `ReadNvs`, `FreeNvs` (NVS), or `Open`,
`Seek`, `ReadMbr`, `ReadEnso` (sectors), or `Ask` (one call to another kernel
module), every one of which may fail.  `entered` is the state that ENTER_SYSCALL
saved, `acquired` the NVS signal, `fds` open descriptors.  Calling a function that
was not found stops the console (`panic`, `Reboot`); since the pointers are static,
this cannot happen once a call of `nvs_Get` was answered (`NeverStopsOnceAnswered`).  The
four `AskingCalls` return an error without EXIT_SYSCALL.

## The runs

| run | question | instance |
|---|---|---|
| `main_loop` | invariants of the loop, `ImplementsViewer`, `HoldingSaves` (every time DOWN is held), `ComboExits` | 3 pages, hold time 2, every pair of seven buttons with a handler, the exit combo with and without DOWN |
| `report` | what is on the card after failures and crashes | 3 saves, 2 names, 3 faults, 4 lines, 3 devices |
| `report_complete` | "Report saved to" (violated) | the whole table, one fault of the card |
| `debug_screen` | the cursor and the cells; also decides `RulesAssumption` and `CasesAssumption` | 3 by 3 cells, 6 texts; the whole tables |
| `print_menu` | what all pages show, cover, claim and where | the code's grid; 7 kinds of device, 3 modes, with and without helper, every outcome of every getter; lists of 0 to 28 items with 2 faults and 2 answers past the end; every finding of the summary on 4 devices |
| `pages_crucial` | "hide crucial info" (violated) | all pages, 2 devices |
| `summary_no_helper` | "anomalies have been detected", "NO HELPER" (violated) | the same |
| `summary_activation` | "never activated", "no magic either" (violated) | the same |
| `modules_filter` | heading "None-SCE" (violated) | names with one letter of Sce |
| `helper` | resources, stale buffers, answers, stops | 8 calls, 3 offsets, 3 faults |
| `helper_token` | comment "theres an active token" (violated) | one fault |
| `summary_listed` | "The following anomalies have been detected" (violated) | the code's grid, 4 devices |

Why the bounds are enough.  Pages matter only by first, last and between.  Two
time units tell "at once", "too early" and "due".  Two buttons at once suffice for
every pair of handlers of one sample (RIGHT and LTRIGGER do what RTRIGGER and LEFT
do); the exit combo is pressed alone and on top of DOWN, which is how it comes
while a report is being saved.
The report's protocol treats all lines alike but the first, so a first line, one
that a getter decides, one that depends on the device and a last one are all the
cases; three saves with two names give an old file under the same name and under
the other.  A grid of three by three has a first, a middle and a last row and
column; longer texts go around it.  Thirteen items fill a list page.
The fixed pages are as long as in the code, but for three loops whose rounds are
all alike: `TextLines` (5 lines of a text that is cut up), `PartitionsAsked` (3 of
the 16 partitions: one as ur0, one as ux0, one as neither) and `ProfilesAsked` (3
of the 30 Wifi profiles of the report).  The seven kinds of device are those that
differ in their lines: a retail model with a memory card, one with 3G in a shop,
testkits with and without a screen, devkits with and without one, and a
PlayStation TV.  A line starts with globals that are "old", so one drawing of a
page stands for any number.  The helper's
calls only meet through the static buffers and the resources, so a history longer
than three failures repeats itself.

Deadlock is not checked in `report` and `report_complete`, where the bound on
saves ends the behaviour, nor in `summary_listed` and `print_menu`, where the
summary is drawn once.

What the violations show:
- `report_complete`: `main.c` announces a report whose lines were not all written.
- `modules_filter`: the filter of `modules` compares with the wrong connective.
- `helper_token`: an unsigned variable hides the failure of the NVS read, which is
  then read as an enabled token.
- `summary_listed`: the summary has more lines than rows.
- `pages_crucial`: the blocks over the console id leave a byte of the serial number
  open; the serial numbers of the screens, a game card's CID and three columns of the
  MTP serial are not covered, nor is what a failed call leaves in place.
- `summary_no_helper`: without the helper plugins every handheld is told that its
  rear touchpad might be broken, since -1111 is negative like any error.
- `summary_activation`: the line "never activated" waits for -2468, and the getter
  returns -1234.

A divergence that needs no run: `src/README.md` says "hold for 2s - Save Report"
without a condition, and `HelperStatus` has that nothing is saved without the helper.

## Fairness

`PSVident` has weak fairness of the program (its thread never blocks) and of the
clock (time passes).  No fairness is assumed of the user: nobody must press,
release or start anything.  `Report`, `DebugScreen`, `ListPages` (in
`PrintMenu`: `DrawList`) have weak fairness of their own steps only, since these run to
their end on the one thread; a new save, a power-off or a new page is up to the user.
`Helper` needs none: what is said of it is about what a step may never do.

## What is proved

Every invariant and every safety property of a step that a passing run checks is
also a theorem, in one of eight modules: for every value of the constants that the
named assumption allows, with no bound of a run.  In each the argument is the usual
one: an invariant that holds initially, is kept by every action, and implies the
property.  Type invariants are proved first and used by the others.  The
strengthened invariants have been checked by TLC on the instances of the runs
before they were proved.

`PSVidentProofs` proves, for every number of pages, hold time and set of
buttons (assumption `PSVidentAssumption`):

- `TypeCorrect`: the type invariant, which is inductive by itself.
- `ModesAlwaysExclusive` and `ScreenAlwaysCurrent`, from an invariant that says at
  which statements the screen must be current and that the flags are exclusive in
  memory and on the screen at all times (`ScreenInvariant`).  `ScreenCurrent` is
  not inductive: it is about one statement, and needs to be carried through the
  others.
- `ReportAlwaysNeedsHold` and `ReportsAlwaysSpaced`, from `HoldInvariant`.  It
  relates the deadline to the observers: at the test, with DOWN in the sample and
  the report armed, what is left of the deadline and the time DOWN has been seen
  add up to at least the hold time, and the same for the time since the last
  report.  This is why the uninitialised deadline is harmless: no sample has DOWN
  unless stage 1 ran first.
- `HelperAlwaysKnown`, from what the plugins' outcomes are at each statement of
  the start-up.
- `LoopImplementsViewer`: initial states map to initial states and each step to a
  step of `Viewer` or to a stutter, using the two invariants above.

`ReportProofs` proves, for every table of lines, every kind of device and any number
of saves and failures (`ReportAssumption`: the first line is unconditional, as in
`savereport`):

- `TypeCorrect` and `DescriptorsAlwaysClosed`, from `TypeInv`.
- `LinesAlwaysInOrder`: `OrderInv` adds how far the file of this save has come (up
  to the line before the current one until it is written, up to it afterwards) and
  that no file has an entry of a later save.  It needs that a file which could not
  be removed holds earlier saves only.
- `LatestAlwaysOnly`, inductive with the types.
- `NotifiedFileAlwaysExists`, from `FileInv`: a line after the first is reached only
  if the first has made the file.
- `OnlyFailedLinesAreMissing`: `CompleteInv` says which lines are in the file whole
  at each call of the save; the lines `NextLine` jumps over do not apply.

`DebugScreenProofs` proves, for every grid, every set of texts and every buffer and
tab width: `TypeCorrect` (the cursor stays in the grid), `PlainTextAlwaysMoves`,
`FittingTextAlwaysKeepsRows` and `EnteredRowAlwaysWiped`, from `PlainInv`, which states
the three of them for the part of the text printed so far.  The step from one
character to the next is `MovedByOne`, on the lemma `DivModNext` about quotient and
remainder.  `PlainTextAlwaysMoves` is what allows `Pages`, `ListPages` and `Summary`
to use `Screen` in place of the characters.

`HelperProofs` proves, for every set of offsets and any number of calls and
failures: `TypeCorrect`; `NothingEverHeld`, from what is held at each place in a
call (`HeldInv`); `SyscallStateAlwaysRestored`, `NvsAlwaysOfOffset`,
`EnsoAlwaysReal` and `MbrAlwaysKept`, from which call runs at each place (`PlaceInv`)
and what the static buffers then hold (`BufferInv`); and `OnceAnsweredNeverStops`,
since the addresses are known from the first answer on.

`ListPagesProofs` proves, for any lists of items of any length and any number of
failed getters (`ItemsAndFaults`: the two pages have their lists, names are three
letters):

- `TypeCorrect`, from `TypeInv`, which adds what row is being filled at each place
  in the loop body.
- `RowsAlwaysInOrder` (which no run checks by name): rows are two apart, in the order
  of the items, and above the dots.
- `CellsAlwaysBelongToRow`, from `CellInv`: while a row of the modules is filled, the
  global holds a field of its item, even if the next getter fails and its old text
  is printed.  That a cell belongs to its row is not inductive by itself, since the
  row was opened by the getter before.
- `NothingEverDroppedSilently`, from `CompleteInv`: as long as nothing has failed,
  every item the loop has passed is on the page if the filter lets it through, and
  the loop ends after the last item or when the rows are full.

`SummaryProofs` proves, for any kinds of device and any findings, on a screen that
is at least the code's (`ScreenAndDevices`; a retail unit is no development kit):
`TypeCorrect`; `AllGoodAlwaysIffNothingFound`; and `AnomaliesAlwaysKeepRows`.  The
last two rest on `PlaceInv`, which bounds the rows and the number of anomalies by the
checks that are done, and on `RowInv`: the k-th anomaly is in the row 2(k - 1) below
the first as long as that is on the screen, and the cursor comes to the row of the
title only if the one text that may reach the last column has been printed in the
last row.  Which text that is, and which check has two lines, are the lemmas
`InfoFacts` and `AnomalyFacts` about the tables of the module.

`PagesProofs` proves, for any kinds of device (`PageAssumption`: the screen has the
rows of the code, and what is known of a unit is no test result and no mode) and
with the rules and cases above:

- `TypeCorrect`.
- `ShownAlwaysOwn`, `ErrorAlwaysOwn`, `CrucialAlwaysMasked` and `NoHelperAlwaysSaid`,
  from `PageInv`.  `CrucialAlwaysMasked` covers left-overs too: a line without the flaw
  prints none, or has blocks over it all (`ShownCovered`).
  That the globals are a line's own when it prints is far from
  inductive: the value may have been read several cells before, by the cell that
  opened the line, and be shown only since a test that has passed in between says
  so.  The invariant follows the calls of that cell (`LineInv`): a call ended in one
  of its ways, its result stands until a cell makes another call for the same
  result, its text until one fills the same global, and what the tests have told
  is about that way of ending.  `AnswersInv` is the same for the cell's own calls,
  `BroughtInv` says that no global has a fact but of this line's calls, and `BegunInv`
  that the part of a cell's condition that cannot change still holds when it prints.
- `RowsAlwaysKept` and `ClaimsAlwaysFollowReads`, from `CaseInv`.  Where a line is
  depends on all the lines before it that were left out: two lines that exclude each
  other may share a row.  `CaseInv` says that one of the cases of `PageCases` stands:
  the facts that tell them apart are as the case says, no row is further down than
  its bound, and each result is among its codes.

`PrintMenuProofs` carries all of these over to `PrintMenu`, in which each kind of page
stutters while another one is drawn: `MenuTypeCorrect`, `FixedPagesKeepPromises` (the
six promises of the fixed pages), `ListsAlwaysComplete`, `ListCellsAlwaysBelong`,
`SummaryAlwaysHonest` and `SummaryAlwaysKeepsRows`.

What stays with TLC: liveness under fairness, which is out of the prover's reach
(`HoldingSaves`, `ComboExits`, `SaveEnds`, `PrintEnds` and `PageEnds`),
and the closed formulas about the tables, `RulesAssumption` and `CasesAssumption`,
which TLC decides in full.

## What is not modelled, and the plan

Next:
1. Proofs of the measures by which pages and saves come to their end.
2. `Conversions`: sizes in 32 bits (`psvident.c:1811`), battery times, MAC and
   serial formats, `removeChar`, checked against reference definitions.
3. What the getters of files do inside: index.dat and id.dat (descriptor, heap
   block, decryption, key look-up).

Left out, with the reason:
- how a getter computes its answer (tables of models and colours, formats of
  serial numbers) and the numbers that checks of the summary compare with: data
  that no property tells apart;
- the text that a value becomes, and so a line that runs into the next row because
  its text is long, or a string without the "_" that `main.c:4583` looks for;
- which of two codes the static buffer of `message` holds when both calls of one
  line of the report fail in raw mode (`main.c:5367`);
- `tests()`, the last page, which no button reaches, and the colours of texts;
- network start-up, `initSceAppUtil`; the plain calls of the kernel plugin that look
  at no result, `k_psvident_test`, and the user plugin, which passes everything on;
- AES (third-party, beyond TLC), fonts, the registry wrapper (two calls passed
  on), stubs and build files.
