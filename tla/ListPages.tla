----------------------------- MODULE ListPages ------------------------------
(***************************************************************************)
(* The two pages that list as many items as there are: playlog(), the      *)
(* entries of playlog.dat, and modules(), the kernel modules the helper    *)
(* plugin knows of.  Both run a do-while loop over the items, ask a getter *)
(* for each field of an item, and stop when a getter fails or the screen   *)
(* is full.  Every getter call opens the file or calls the kernel anew and *)
(* may fail at any time.                                                   *)
(***************************************************************************)
EXTENDS Integers, Sequences

CONSTANTS
  Items,      \* for each page, the lists of names it may find: Pages -> sets
  MaxFaults,  \* bound: how many getter calls fail
  MaxStray    \* bound: how far past the list of modules the kernel may answer

Pages == {"playlog", "modules"}

\* What the constants may be.
ItemsAndFaults ==
  /\ DOMAIN Items = Pages
  /\ \A p \in Pages : \A list \in Items[p] :
        /\ Len(list) \in Nat /\ DOMAIN list = 1 .. Len(list)
        /\ \A k \in DOMAIN list : Len(list[k]) = 3
  /\ MaxFaults \in Nat /\ MaxStray \in Nat

VARIABLES
  page,       \* the page that is drawn
  source,     \* "ready", or "missing": no playlog file, no helper plugin
  items,      \* the items that are there, each by three letters of its name
  pc,         \* what comes next
  i,          \* the item
  field,      \* the index of the field in Fields
  y,          \* the row
  ret,        \* "ok" or "error": the result of the last getter
  slot,       \* what retstr and rawval hold: <<item, field>> or << >>
  rows,       \* the rows printed: the item, the row, what its cells show
  dots,       \* "yes": "..." was printed
  faults      \* how many getter calls have failed

vars == <<page, source, items, pc, i, field, y, ret, slot, rows, dots, faults>>

FirstRow == 6
LastRow == 31

\* What the getters are asked for: the numbers of getPlaylogEntry and of
\* getModuleInfo.  The first is asked to find out whether there is an item.
Fields == [playlog |-> <<0, 1, 3, 4, 5, 6>>, modules |-> <<3, 3, 2, 1, 0, 5>>]

FieldNumbers == 1 .. 6

Init ==
  /\ page \in Pages
  /\ items \in Items[page]
  /\ source \in {"ready", "missing"}
  /\ pc = "begin"
  /\ i = 1 /\ field = 1 /\ y = FirstRow
  /\ ret = "ok"
  /\ slot = << >>
  /\ rows = << >>
  /\ dots = "no"
  /\ faults = 0

Fault == faults < MaxFaults /\ faults' = faults + 1

\* doesFileExist("..playlog.dat"); modules() starts its loop in any case.
Begin ==
  /\ pc = "begin"
  /\ IF page = "playlog" /\ source = "missing"
       THEN pc' = "done" /\ y' = y + 2         \* "No playlog file found!"
       ELSE pc' = "first" /\ UNCHANGED y
  /\ UNCHANGED <<page, source, items, i, field, ret, slot, rows, dots, faults>>

-----------------------------------------------------------------------------
(* The getters.                                                            *)

\* A mutant: the record before the one asked for is read.
Mine_Before == <<i - 1, Fields[page][field]>>

Mine == <<i, Fields[page][field]>>

\* The file has the entry; the kernel knows the module.
Available == source = "ready" /\ i <= Len(items)

\* Past the list the kernel takes the id from the rest of k_modlist, which nobody
\* has written: it does not compare "no" with the count, and may find a module.
Stray ==
  page = "modules" /\ source = "ready" /\ i \in Len(items) + 1 .. Len(items) + MaxStray

\* getPlaylogEntry empties retstr before anything can fail; getModuleInfo
\* leaves what the last call put there.
AfterFailure == IF page = "playlog" THEN << >> ELSE slot

Get ==
  \/ (Available \/ Stray) /\ ret' = "ok" /\ slot' = Mine /\ UNCHANGED faults
  \/ ~Available /\ ret' = "error" /\ slot' = AfterFailure /\ UNCHANGED faults
  \/ Available /\ ret' = "error" /\ slot' = AfterFailure /\ Fault

\* The filter of modules(): "retstr[0] != 'S' && retstr[1] != 'c' && ..".
IsListed(name) == name[1] # "S" /\ name[2] # "c" /\ name[3] # "e"

\* How the filter may decide: the name of a stray answer may be any.
Listed ==
  CASE page = "playlog" -> {TRUE}
    [] page = "modules" /\ i <= Len(items) -> {IsListed(items[i])}
    [] OTHER -> BOOLEAN

-----------------------------------------------------------------------------
(* The loop.                                                               *)

\* Mutants: the field is not reset; an item that is not listed is looked at
\* again ("i++" inside the if).
LoopTest_NoReset ==
  /\ i' = i + 1
  /\ field' = field + 1
  /\ pc' = IF ret' = "ok" /\ y' <= LastRow THEN "first" ELSE "dots"

LoopTest_Stuck ==
  /\ i' = IF pc = "first" /\ ret' = "ok" THEN i ELSE i + 1
  /\ field' = 1
  /\ pc' = IF ret' = "ok" /\ y' <= LastRow THEN "first" ELSE "dots"

\* "i++ ... while( ret >= 0 && y <= 31 )"
LoopTest ==
  /\ i' = i + 1
  /\ field' = 1
  /\ pc' = IF ret' = "ok" /\ y' <= LastRow THEN "first" ELSE "dots"

\* The first getter of the item: an item that is there gets a row.
First ==
  /\ pc = "first"
  /\ Get
  /\ \E listed \in Listed :
       IF ret' = "ok" /\ listed
         THEN /\ rows' = Append(rows, [item |-> i, row |-> y,
                                       cells |-> IF page = "playlog" THEN <<slot'>> ELSE << >>])
              /\ field' = 2
              /\ pc' = "field"
              /\ UNCHANGED <<i, y>>
         ELSE /\ UNCHANGED <<y, rows>>
              /\ LoopTest
  /\ UNCHANGED <<page, source, items, dots>>

\* playlog() prints a field only if the getter succeeded; modules() prints.
Cell == IF page = "playlog" /\ ret' = "error" THEN << >> ELSE slot'

Field ==
  /\ pc = "field"
  /\ Get
  /\ rows' = [rows EXCEPT ![Len(rows)].cells = Append(@, Cell)]
  /\ IF field < Len(Fields[page])
       THEN field' = field + 1 /\ UNCHANGED <<pc, i, y>>
       ELSE y' = y + 2 /\ LoopTest
  /\ UNCHANGED <<page, source, items, dots>>

\* A mutant: the dots ask for one row more than the loop.
Dots_OffByOne ==
  /\ pc = "dots"
  /\ dots' = IF y > LastRow + 1 THEN "yes" ELSE "no"
  /\ pc' = "done"
  /\ UNCHANGED <<page, source, items, i, field, y, ret, slot, rows, faults>>

Dots ==
  /\ pc = "dots"
  /\ dots' = IF y >= LastRow THEN "yes" ELSE "no"
  /\ pc' = "done"
  /\ UNCHANGED <<page, source, items, i, field, y, ret, slot, rows, faults>>

Step == Begin \/ First \/ Field \/ Dots

\* The user turns the page or draws it again.
Redraw ==
  /\ pc = "done"
  /\ page' \in Pages
  /\ items' \in Items[page']
  /\ source' \in {"ready", "missing"}
  /\ pc' = "begin"
  /\ i' = 1 /\ field' = 1 /\ y' = FirstRow
  /\ rows' = << >>
  /\ dots' = "no"
  /\ UNCHANGED <<ret, slot, faults>>

Next == Step \/ Redraw

Spec == Init /\ [][Next]_vars /\ WF_vars(Step)

-----------------------------------------------------------------------------
(* Properties.                                                             *)

\* The numbers that a getter may succeed for.
Answerable == 1 .. Len(items) + MaxStray

CellTypes == {<< >>} \cup (Nat \X (0 .. 6))

\* Every variable has its type.
TypeOK ==
  /\ page \in Pages /\ source \in {"ready", "missing"}
  /\ pc \in {"begin", "first", "field", "dots", "done"}
  /\ i \in Nat \ {0} /\ field \in FieldNumbers /\ y \in Nat
  /\ ret \in {"ok", "error"}
  /\ slot \in CellTypes
  /\ \A k \in DOMAIN rows : /\ rows[k].item \in Answerable
                            /\ \A c \in DOMAIN rows[k].cells :
                                  rows[k].cells[c] \in CellTypes
  /\ dots \in {"yes", "no"}
  /\ faults \in 0 .. MaxFaults

Shown == {rows[k].item : k \in DOMAIN rows}

\* When nothing failed and there are no dots, every item that passes the
\* filter is on the page: nothing is left out silently for lack of room.
NothingDroppedSilently ==
  pc = "done" /\ source = "ready" /\ faults = 0 /\ dots = "no" =>
    \A k \in DOMAIN items : page = "playlog" \/ IsListed(items[k]) => k \in Shown

\* A row of the playlog shows what belongs to its own entry or nothing, even
\* if a getter fails in the middle; a row of the modules may show what the
\* field before it left in retstr, but only of the same module.
CellsBelongToRow ==
  \A k \in DOMAIN rows : \A c \in DOMAIN rows[k].cells :
    LET cell == rows[k].cells[c]
    IN IF page = "playlog"
         THEN cell \in {<< >>, <<rows[k].item, Fields[page][c]>>}
         ELSE cell[1] = rows[k].item

\* The loop has gone on past the end of the list of modules.
Astray == page = "modules" /\ pc = "first" /\ i > Len(items) + 1

\* Drawing the page comes to an end, however long the list is and whichever
\* getters fail, as long as the kernel does not answer past the list: then only
\* the memory behind it decides when the loop of modules() ends.
PageEnds == (pc = "first") ~> (pc = "done" \/ Astray)

\* The heading of the page is "Loaded Kernel Modules (None-SCE)": a module
\* whose name does not begin with "Sce" is listed.  It does not hold of the
\* code, whose filter also drops names that share one of the three letters.
ListsEveryNonSce ==
  page = "modules" /\ pc = "done" /\ source = "ready" /\ faults = 0 /\ dots = "no" =>
    \A k \in DOMAIN items : items[k] # <<"S", "c", "e">> => k \in Shown

=============================================================================
