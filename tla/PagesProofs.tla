----------------------------- MODULE PagesProofs -----------------------------
(***************************************************************************)
(* Proofs about the pages of module Pages, for any kinds of device.  The   *)
(* tables of the pages are never expanded: what a proof needs of a cell is *)
(* one of the rules of PageRules, or a case of PageCases, which TLC has    *)
(* checked of every cell.                                                  *)
(***************************************************************************)
EXTENDS Pages, PageCases, TLAPS

-----------------------------------------------------------------------------
(* What a cell depends on.                                                  *)

\* What is known before a page is drawn, and does not change until it ends.
Settled == device \cup {mode} \cup {k \in {"kernmode"} : kernmode}

\* The settled part of a cell's condition holds: nothing a call brings can
\* change that.
Applies(c) == c.when \ Learned \subseteq Settled /\ c.unless \cap Settled = {}

LEMMA TablesAreTyped == TablesTyped /\ GettersTyped
BY RulesAssumption DEF TablesObeyRules

\* The cell that is drawn is one of the tables'.
LEMMA CurrentIsTyped ==
  ASSUME TypeOK
  PROVE  /\ CellTyped(Current) /\ Len(Table[page]) \in 1 .. 200
         /\ DOMAIN Table[page] = 1 .. Len(Table[page])
         /\ cell \in 1 .. Len(Table[page])
BY TablesAreTyped DEF TablesTyped, TypeOK, Current

LEMMA CallIsTyped ==
  ASSUME TypeOK, NEW k \in DOMAIN Table[page], NEW n \in DOMAIN Table[page][k].calls
  PROVE  CallTyped(Table[page][k].calls[n])
BY TablesAreTyped DEF TablesTyped, TypeOK, CellTyped

LEMMA RulesOfCell ==
  ASSUME TypeOK
  PROVE  /\ ShowsWhatItReads(page, cell) /\ ReportsItsOwn(page, cell)
         /\ CoversWhatItShows(page, cell) /\ NamesTheHelper(Current)
BY RulesAssumption DEF TablesObeyRules, TypeOK, Current

\* The tests' results and the marks are not facts of a unit, nor a mode.
LEMMA FactsAreLearned ==
  ASSUME TypeOK
  PROVE  /\ facts \subseteq Learned /\ Settled \cap Learned = {}
         /\ Known = Settled \cup facts \cup {v \in {"ret", "ret2"} : ret[v] = "ok"}
<1>1. device \cap Learned = {}
  BY PageAssumption DEF TypeOK
<1>2. mode \notin Learned /\ "kernmode" \notin Learned
  BY DEF TypeOK, Learned, BlockLocals
<1>3. facts \subseteq Learned
  BY DEF TypeOK, Learned
<1>4. QED BY <1>1, <1>2, <1>3 DEF Settled, Known

LEMMA ReachedApplies ==
  ASSUME TypeOK, NEW c, Reached(c)
  PROVE  Applies(c)
<1>1. "ret" \in Learned /\ "ret2" \in Learned
  BY DEF Learned
<1>2. QED BY <1>1, FactsAreLearned DEF Reached, Applies

\* A cell whose condition is settled is reached if it applies.
LEMMA FixedIsReached ==
  ASSUME TypeOK, NEW c, Fixed(c), Applies(c)
  PROVE  Reached(c)
<1>1. "ret" \in Learned /\ "ret2" \in Learned
  BY DEF Learned
<1>2. QED BY <1>1, FactsAreLearned DEF Reached, Applies, Fixed

LEMMA WithinApplies ==
  ASSUME NEW c, NEW other, Within(c, other), Applies(other)
  PROVE  Applies(c)
BY DEF Within, Applies

\* What a cell was reached for.
Gate ==
  /\ Current.when \cap {"found", "holds"} \subseteq facts
  /\ \A v \in Current.when \cap {"ret", "ret2"} : ret[v] = "ok"

LEMMA ReachedGate ==
  ASSUME TypeOK, Reached(Current)
  PROVE  Gate
<1>1. {"found", "holds", "ret", "ret2"} \subseteq Learned
  BY DEF Learned
<1>2. \A x \in Current.when \cap Learned : x \in facts \/ (x \in {"ret", "ret2"} /\ ret[x] = "ok")
  BY FactsAreLearned DEF Reached
<1>3. "ret" \notin facts /\ "ret2" \notin facts
  BY DEF TypeOK, BlockLocals
<1>4. QED BY <1>1, <1>2, <1>3 DEF Gate

-----------------------------------------------------------------------------
(* The inductive invariant.                                                 *)

\* The results and globals are as the call that ended so has left them.
RetStands(call, o) == call.ret \in RetVars => ret[call.ret] = o.ret
SlotStands(call, o, s) ==
  Fills(call, s) /\ Tag(call, o, s) # "left"
    => slot[s] = IF Tag(call, o, s) = "own" THEN call.fact ELSE Tag(call, o, s)

PlaceInv ==
  /\ pc = "idle" => made = 0 /\ cell = 1
  /\ made <= Len(Current.calls)
  /\ pc = "shown" => made = Len(Current.calls)

\* Once a cell has begun, its condition was met; the part of it that the calls
\* of the cell do not touch still is, unless they begin a line.
BegunInv ==
  /\ pc = "shown" \/ made > 0 => Applies(Current)
  /\ pc = "cell" /\ made > 0 /\ ~Opens(Current) =>
       /\ Current.when \cap {"found", "holds"} \subseteq facts
       /\ \A v \in Current.when \cap {"ret", "ret2"} : ~Sets(Current, v) => ret[v] = "ok"

\* The calls of the cell itself, as far as they are made.
AnswersInv ==
  Tidy(Current) =>
    \A n \in 1 .. made : \E o \in Outcomes(Current.calls[n].get, kernmode) :
      RetStands(Current.calls[n], o) /\ \A s \in Slots : SlotStands(Current.calls[n], o, s)

TestedInv ==
  pc = "shown" /\ made > 0 =>
    /\ Current.tests # {} /\ "found" \in facts => TestsPass
    /\ Current.compares # {} /\ "holds" \in facts => TestsPass

\* The cells from the one that opened the line, short of this one, are done.
Upto == IF pc = "shown" THEN cell + 1 ELSE cell

\* A call at the beginning of the line still stands, as far as no cell since
\* then has made another one for the same result or the same global.
LineOk(from, j, call, o) ==
  /\ KeepsRet(page, j, cell, call.ret) /\ KeepsAllRet(page, j, Upto) => RetStands(call, o)
  /\ \A s \in Slots : KeepsSlot(page, j, cell, s) => SlotStands(call, o, s)
  /\ call.ret \in from.tests =>
       /\ KeepsFound(page, j, Upto) /\ "found" \in facts => o.ret \in from.passes
       /\ from.compares # {} /\ KeepsHolds(page, j, Upto) /\ "holds" \in facts
            => o.ret \in from.passes

LineInv ==
  \A j \in 1 .. cell - 1 :
    Opener(page, j, cell) /\ Fixed(Table[page][j]) /\ Applies(Table[page][j])
      /\ Tidy(Table[page][j])
    => \A n \in DOMAIN Table[page][j].calls :
         \E o \in Outcomes(Table[page][j].calls[n].get, kernmode) :
           LineOk(Table[page][j], j, Table[page][j].calls[n], o)

\* The line that cell j opened has begun.
Begun(j) ==
  /\ Opener(page, j, cell)
  /\ IF j = cell THEN made > 0 ELSE Fixed(Table[page][j]) /\ Applies(Table[page][j])

\* Some call since cell j was made to bring into s what is there.
BroughtSince(j, s) ==
  \E m \in j .. cell : \E n \in DOMAIN Table[page][m].calls :
    Fills(Table[page][m].calls[n], s) /\ slot[s] = Table[page][m].calls[n].fact

\* In a line that has begun, a global has no fact but of the line's calls.
BroughtInv ==
  \A j \in 1 .. cell : Begun(j) =>
    \A s \in Slots \ BlockLocals :
      slot[s] \in {"old", "junk", "other", "kept", "code"} \/ BroughtSince(j, s)

\* Without the helper plugins, no global has a fact only they can read.
HelperInv == ~kernmode => \A s \in Slots : slot[s] \notin HelperFacts

PageInv ==
  /\ TypeOK /\ PlaceInv /\ BegunInv /\ AnswersInv /\ TestedInv
  /\ LineInv /\ BroughtInv /\ HelperInv

-----------------------------------------------------------------------------
(* The steps.                                                               *)

\* Two ways on from a cell: to the next one, with everything it has left in
\* the globals, or to the end of the page.
LEMMA Onward ==
  ASSUME TypeOK, NEW rows \in [{"left", "right"} -> Nat],
         NEW labels \in [{"left", "right"} -> RowNumbers], Advance(rows, labels)
  PROVE  /\ made' = 0 /\ pc' \in {"idle", "cell"}
         /\ UNCHANGED <<page, device, mode, kernmode>>
         /\ \/ /\ cell < Len(Table[page]) /\ cell' = cell + 1 /\ pc' = "cell"
               /\ UNCHANGED <<ret, slot, facts>>
            \/ /\ cell' = 1 /\ pc' = "idle"
               /\ slot' = Forgotten /\ facts' = {}
         /\ TypeOK'
<1> USE DEF Advance
<1>1. 0 \in RowNumbers /\ 1 \in RowNumbers
  BY PageAssumption, ScreenAssumption DEF RowNumbers
<1>2. Top \in [{"left", "right"} -> Nat] /\ Top \in [{"left", "right"} -> RowNumbers]
  BY <1>1 DEF Top
<1>3. cell' \in DOMAIN Table[page] /\ made' \in 0 .. 6
  BY CurrentIsTyped
<1>4. DOMAIN ret' = RetVars /\ DOMAIN slot' = Slots
  BY DEF TypeOK, Untouched, Forgotten
<1>5. QED BY <1>1, <1>2, <1>3, <1>4 DEF TypeOK

LEMMA DrawType == ASSUME TypeOK, PlaceInv, Draw PROVE TypeOK'
<1>1. cell = 1 /\ page' \in DOMAIN Table
  BY DEF Draw, PlaceInv
<1>2. Start(page') \in [{"left", "right"} -> Nat]
  <2>1. Start(page') \in [{"left", "right"} -> 1 .. 33]
    BY <1>1, TablesAreTyped DEF TablesTyped
  <2>2. QED BY <2>1
<1>3. 1 \in DOMAIN Table[page']
  BY <1>1, TablesAreTyped DEF TablesTyped
<1>4. QED BY <1>1, <1>2, <1>3 DEF Draw, TypeOK

LEMMA SkipOnward ==
  ASSUME TypeOK, Skip
  PROVE  Advance(y, last) /\ y \in [{"left", "right"} -> Nat]
         /\ last \in [{"left", "right"} -> RowNumbers]
BY DEF Skip, TypeOK

LEMMA ProceedOnward ==
  ASSUME TypeOK, Proceed
  PROVE  \E rows \in [{"left", "right"} -> Nat] :
           \E labels \in [{"left", "right"} -> RowNumbers] : Advance(rows, labels)
<1>1. /\ Current.side \in {"left", "right"} /\ Current.down \in Nat
      /\ y \in [{"left", "right"} -> Nat] /\ last \in [{"left", "right"} -> RowNumbers]
      /\ cursor \in RowNumbers
  BY CurrentIsTyped DEF CellTyped, TypeOK
<1>2. [y EXCEPT ![Current.side] = @ + Current.down] \in [{"left", "right"} -> Nat]
  BY <1>1
<1>3. [last EXCEPT ![Current.side] = IF Current.line THEN cursor ELSE @]
        \in [{"left", "right"} -> RowNumbers]
  BY <1>1
<1>4. QED BY <1>2, <1>3 DEF Proceed

\* A step to another cell, of a page that is drawn already.
Moves == Skip \/ Proceed

LEMMA MovesOnward ==
  ASSUME TypeOK, Moves
  PROVE  /\ made' = 0 /\ pc' \in {"idle", "cell"}
         /\ UNCHANGED <<page, device, mode, kernmode>>
         /\ \/ /\ cell < Len(Table[page]) /\ cell' = cell + 1 /\ pc' = "cell"
               /\ UNCHANGED <<ret, slot, facts>>
            \/ /\ cell' = 1 /\ pc' = "idle"
               /\ slot' = Forgotten /\ facts' = {}
         /\ TypeOK'
<1>1. CASE Skip BY <1>1, SkipOnward, Onward
<1>2. CASE Proceed BY <1>2, ProceedOnward, Onward
<1>3. QED BY <1>1, <1>2 DEF Moves

\* The call that is made next, whether it is the first of a fresh cell, and
\* what the globals have before it.
NextCall == Current.calls[made + 1]
NewLine == Current.fresh /\ made = 0
Before == IF NewLine THEN ForgottenButKept ELSE slot

\* The call ends so, and changes its own result and globals only.
Ended(o) ==
  /\ NextCall.ret \in RetVars /\ ~NextCall.adds => ret'[NextCall.ret] = o.ret
  /\ ~NewLine => \A v \in RetVars \ {NextCall.ret} : ret'[v] = ret[v]
  /\ \A s \in Slots :
       slot'[s] = IF Fills(NextCall, s) THEN Content(NextCall, Tag(NextCall, o, s), Before[s])
                  ELSE Before[s]

LEMMA AskFacts ==
  ASSUME TypeOK, PlaceInv, BegunInv, Ask
  PROVE  /\ pc = "cell" /\ pc' = "cell" /\ made' = made + 1
         /\ made + 1 \in 1 .. Len(Current.calls)
         /\ DOMAIN Current.calls = 1 .. Len(Current.calls)
         /\ UNCHANGED <<page, device, mode, kernmode, cell>>
         /\ CallTyped(NextCall) /\ Applies(Current)
         /\ NewLine => Opens(Current)
         /\ ~NewLine => facts' = facts
         /\ \E o \in Outcomes(NextCall.get, kernmode) : Ended(o)
         /\ TypeOK'
<1> DEFINE from == IF NewLine THEN Untouched ELSE ret
<1>1. /\ pc = "cell" /\ pc' = "cell" /\ made' = made + 1 /\ made < Len(Current.calls)
      /\ UNCHANGED <<page, device, mode, kernmode, cell>>
      /\ UNCHANGED <<y, cursor, last>>
  BY DEF Ask
<1>2. /\ made + 1 \in 1 .. Len(Current.calls) /\ made + 1 \in 0 .. 6
      /\ DOMAIN Current.calls = 1 .. Len(Current.calls)
  <2> DEFINE length == Len(Current.calls)
  <2>1. length \in 0 .. 6
    BY CurrentIsTyped DEF CellTyped
  <2>2. made \in 0 .. 6
    BY DEF TypeOK
  <2>3. made < length
    BY <1>1
  <2>4. DOMAIN Current.calls = 1 .. length
    BY CurrentIsTyped DEF CellTyped
  <2> HIDE DEF length
  <2>5. made + 1 \in 1 .. length /\ made + 1 \in 0 .. 6
    BY <2>1, <2>2, <2>3
  <2>6. QED BY <2>4, <2>5 DEF length
<1>3. CallTyped(NextCall)
  BY <1>2, CurrentIsTyped DEF CellTyped, NextCall
<1>4. Applies(Current)
  BY ReachedApplies DEF Ask, BegunInv, TypeOK
<1>5. NewLine => Opens(Current)
  BY <1>1 DEF NewLine, Opens
<1>6. (~NewLine => facts' = facts) /\ facts' \subseteq facts
  BY DEF Ask, NewLine, Lasting
<1>7. \E o \in Outcomes(NextCall.get, kernmode) : Answer(NextCall, o, from, Before)
  BY DEF Ask, NewLine, Before, NextCall
<1>8. ASSUME NEW o, Answer(NextCall, o, from, Before)
      PROVE  Ended(o) /\ DOMAIN ret' = RetVars /\ DOMAIN slot' = Slots
  <2>1. NextCall.ret \in RetVars /\ ~NextCall.adds => ret'[NextCall.ret] = o.ret
    BY <1>8 DEF Answer
  <2>2. ~NewLine => \A v \in RetVars \ {NextCall.ret} : ret'[v] = ret[v]
    BY <1>8 DEF Answer
  <2>3. \A s \in Slots :
          slot'[s] = IF Fills(NextCall, s) THEN Content(NextCall, Tag(NextCall, o, s), Before[s])
                     ELSE Before[s]
    <3>1. \A s \in Slots :
            slot'[s] = CASE s = NextCall.str -> Content(NextCall, o.str, Before[s])
                         [] s = NextCall.raw -> Content(NextCall, o.raw, Before[s])
                         [] OTHER -> Before[s]
      BY <1>8 DEF Answer
    <3>2. NextCall.str \in Slots => NextCall.str # NextCall.raw
      BY <1>3 DEF CallTyped, Slots, PanelLocals, BlockLocals
    <3>3. QED BY <3>1, <3>2 DEF Fills, Tag
  <2>4. DOMAIN ret' = RetVars /\ DOMAIN slot' = Slots
    BY <1>8 DEF Answer
  <2>5. QED BY <2>1, <2>2, <2>3, <2>4 DEF Ended
<1>9. TypeOK'
  BY <1>1, <1>2, <1>6, <1>7, <1>8 DEF TypeOK
<1>10. QED BY <1>1, <1>2, <1>3, <1>4, <1>5, <1>6, <1>7, <1>8, <1>9

\* A cell is printed: only a local is written, and the tests are remembered.
LEMMA ShowFacts ==
  ASSUME TypeOK, PlaceInv, BegunInv, Show
  PROVE  /\ pc = "cell" /\ pc' = "shown" /\ made = Len(Current.calls)
         /\ UNCHANGED <<page, device, mode, kernmode, cell, made>>
         /\ Applies(Current)
         /\ made > 0 \/ ~Current.fresh => ret' = ret
         /\ \A s \in Slots \ BlockLocals : slot'[s] = slot[s]
         /\ \A s \in Slots : slot'[s] \in {slot.rawval, slot[s]}
         /\ "found" \in facts' =>
              IF Current.tests = {} THEN "found" \in facts ELSE TestsPass
         /\ "holds" \in facts' =>
              IF Current.compares = {} THEN "holds" \in facts ELSE TestsPass
         /\ TypeOK'
<1>1. /\ pc = "cell" /\ pc' = "shown" /\ made = Len(Current.calls)
      /\ UNCHANGED <<page, device, mode, kernmode, cell, made, y, last>>
      /\ ret' = IF Current.fresh /\ made = 0 THEN Untouched ELSE ret
      /\ slot' = [s \in Slots |-> IF s = Current.marks /\ TestsPass THEN slot.rawval ELSE slot[s]]
  BY DEF Show
<1>2. Applies(Current)
  BY ReachedApplies DEF Show, BegunInv, TypeOK
<1>3. made > 0 \/ ~Current.fresh => ret' = ret
  BY <1>1
<1>4. Current.marks \in {"nothing", "mounted", "broken"} \cup BlockLocals
      /\ Current.side \in {"left", "right"}
  BY CurrentIsTyped DEF CellTyped
<1>5. \A s \in Slots \ BlockLocals : s # Current.marks
  BY <1>4 DEF Slots, BlockLocals, PanelLocals
<1>6. PICK holds \in BOOLEAN :
        (holds => TestsPass /\ Current.compares # {}) /\ facts' = Learnt(holds)
  BY DEF Show
<1>7. "found" # Current.marks /\ "holds" # Current.marks
  BY <1>4 DEF BlockLocals
<1>8. /\ "found" \in facts' => IF Current.tests = {} THEN "found" \in facts ELSE TestsPass
      /\ "holds" \in facts' => IF Current.compares = {} THEN "holds" \in facts ELSE TestsPass
  BY <1>6, <1>7 DEF Learnt
<1>9. facts' \subseteq {"found", "holds", "mounted", "broken"} \cup BlockLocals
  BY <1>4, <1>6 DEF Learnt, TypeOK
<1>10. cursor' \in RowNumbers
  BY DEF Show, SetXY, TypeOK
<1>11. DOMAIN ret' = RetVars /\ DOMAIN slot' = Slots
  BY <1>1 DEF TypeOK, Untouched
<1>12. TypeOK'
  BY <1>1, <1>9, <1>10, <1>11 DEF TypeOK
<1>13. QED BY <1>1, <1>2, <1>3, <1>5, <1>8, <1>12

-----------------------------------------------------------------------------
(* Each part of the invariant is kept.                                      *)

LEMMA TypeStep == ASSUME TypeOK, PlaceInv, BegunInv, Next PROVE TypeOK'
BY DrawType, MovesOnward, AskFacts, ShowFacts DEF Next, Moves

LEMMA PlaceStep == ASSUME TypeOK, PlaceInv, BegunInv, Next PROVE PlaceInv'
<1>1. ASSUME made' = 0 PROVE made' <= Len(Current'.calls)
  <2>1. CellTyped(Table[page'][cell'])
    BY TypeStep, TablesAreTyped DEF TypeOK, TablesTyped
  <2>2. QED BY <1>1, <2>1 DEF CellTyped, Current
<1>2. CASE Draw
  BY <1>1, <1>2 DEF Draw, PlaceInv
<1>3. CASE Moves
  BY <1>1, <1>3, MovesOnward DEF PlaceInv
<1>4. CASE Ask
  BY <1>4, AskFacts DEF PlaceInv, Current
<1>5. CASE Show
  BY <1>5, ShowFacts DEF PlaceInv, Current
<1>6. QED BY <1>2, <1>3, <1>4, <1>5 DEF Next, Moves

LEMMA BegunStep == ASSUME TypeOK, PlaceInv, BegunInv, Next PROVE BegunInv'
<1>1. CASE Draw
  BY <1>1 DEF Draw, PlaceInv, BegunInv
<1>2. CASE Moves
  BY <1>2, MovesOnward DEF BegunInv
<1>3. CASE Ask
  <2>1. /\ pc = "cell" /\ made' = made + 1 /\ Applies(Current) /\ CallTyped(NextCall)
        /\ made + 1 \in DOMAIN Current.calls /\ made \in Nat
        /\ UNCHANGED <<page, device, mode, kernmode, cell>>
    BY <1>3, AskFacts DEF TypeOK
  <2>2. Applies(Current)' /\ Current' = Current
    BY <2>1 DEF Applies, Settled, Current
  <2>3. ASSUME ~Opens(Current)
        PROVE  /\ (Current.when \cap {"found", "holds"} \subseteq facts)'
               /\ \A v \in Current.when \cap {"ret", "ret2"} : ~Sets(Current, v) => ret'[v] = "ok"
    <3>1. ~NewLine /\ facts' = facts
      BY <1>3, <2>3, AskFacts
    <3>2. PICK o \in Outcomes(NextCall.get, kernmode) : Ended(o)
      BY <1>3, AskFacts
    <3>3. /\ Current.when \cap {"found", "holds"} \subseteq facts
          /\ \A v \in Current.when \cap {"ret", "ret2"} : ~Sets(Current, v) => ret[v] = "ok"
      BY <1>3, <2>1, <2>3, ReachedGate DEF BegunInv, Gate, Ask
    <3>4. \A v \in {"ret", "ret2"} : ~Sets(Current, v) => ret'[v] = ret[v]
      <4>1. \A v : ~Sets(Current, v) => v # NextCall.ret
        BY <2>1 DEF Sets, NextCall
      <4>2. {"ret", "ret2"} \subseteq RetVars
        BY DEF RetVars
      <4>3. QED BY <3>1, <3>2, <4>1, <4>2 DEF Ended
    <3>5. QED BY <2>2, <3>1, <3>3, <3>4
  <2>4. Opens(Current)' <=> Opens(Current)
    BY <2>2 DEF Opens
  <2>5. \A v : Sets(Current, v)' <=> Sets(Current, v)
    BY <2>2 DEF Sets
  <2>6. QED BY <2>2, <2>3, <2>4, <2>5 DEF BegunInv
<1>4. CASE Show
  <2>1. pc' = "shown" /\ Applies(Current) /\ UNCHANGED <<page, device, mode, kernmode, cell>>
    BY <1>4, ShowFacts
  <2>2. Applies(Current)'
    BY <2>1 DEF Applies, Settled, Current
  <2>3. QED BY <2>1, <2>2 DEF BegunInv
<1>5. QED BY <1>1, <1>2, <1>3, <1>4 DEF Next, Moves

LEMMA TestedStep == ASSUME TypeOK, PlaceInv, BegunInv, Next PROVE TestedInv'
<1>1. CASE Draw
  BY <1>1 DEF Draw, TestedInv
<1>2. CASE Moves
  BY <1>2, MovesOnward DEF TestedInv
<1>3. CASE Ask
  BY <1>3, AskFacts DEF TestedInv
<1>4. CASE Show
  <2>1. UNCHANGED <<page, cell, made>> /\ (made > 0 => ret' = ret)
    BY <1>4, ShowFacts
  <2>2. Current' = Current
    BY <2>1 DEF Current
  <2>3. made > 0 => (TestsPass' <=> TestsPass)
    BY <2>1, <2>2 DEF TestsPass
  <2>4. /\ "found" \in facts' /\ Current.tests # {} => TestsPass
        /\ "holds" \in facts' /\ Current.compares # {} => TestsPass
    BY <1>4, ShowFacts
  <2>5. QED BY <2>1, <2>2, <2>3, <2>4 DEF TestedInv
<1>5. QED BY <1>1, <1>2, <1>3, <1>4 DEF Next, Moves

LEMMA AnswersStep == ASSUME TypeOK, PlaceInv, BegunInv, AnswersInv, Next PROVE AnswersInv'
<1>1. CASE Draw
  BY <1>1 DEF Draw, PlaceInv, AnswersInv
<1>2. CASE Moves
  BY <1>2, MovesOnward DEF AnswersInv
<1>3. CASE Ask
  <2>1. /\ made' = made + 1 /\ CallTyped(NextCall) /\ made \in Nat
        /\ DOMAIN Current.calls = 1 .. Len(Current.calls)
        /\ made + 1 \in DOMAIN Current.calls
        /\ UNCHANGED <<page, kernmode, cell>>
    BY <1>3, AskFacts DEF TypeOK
  <2>2. Current' = Current
    BY <2>1 DEF Current
  <2>3. PICK last_outcome \in Outcomes(NextCall.get, kernmode) : Ended(last_outcome)
    BY <1>3, AskFacts
  <2> SUFFICES ASSUME Tidy(Current), NEW n \in 1 .. made + 1
               PROVE  \E o \in Outcomes(Current.calls[n].get, kernmode) :
                        /\ RetStands(Current.calls[n], o)'
                        /\ \A s \in Slots : SlotStands(Current.calls[n], o, s)'
    <3>1. Tidy(Current)' <=> Tidy(Current)
      BY <2>2
    <3>2. QED BY <2>1, <2>2, <3>1 DEF AnswersInv, RetStands, SlotStands
  <2>4. CASE n = made + 1
    <3>1. Current.calls[n] = NextCall /\ ~NextCall.adds
      BY <2>1, <2>4 DEF NextCall, Tidy
    <3>2. RetStands(Current.calls[n], last_outcome)'
      BY <2>2, <2>3, <3>1 DEF Ended, RetStands
    <3>3. \A s \in Slots : SlotStands(Current.calls[n], last_outcome, s)'
      BY <2>2, <2>3, <3>1 DEF Ended, SlotStands, Content
    <3>4. QED BY <2>3, <3>1, <3>2, <3>3
  <2>5. CASE n \in 1 .. made
    <3>1. /\ n \in DOMAIN Current.calls /\ made + 1 \in DOMAIN Current.calls \ {n}
          /\ ~NewLine
      BY <2>1, <2>5 DEF NewLine
    <3> DEFINE call == Current.calls[n]
    <3>2. /\ NextCall.ret = call.ret => call.ret = "none"
          /\ \A s \in Slots : Fills(call, s) => ~Fills(NextCall, s)
      BY <3>1 DEF Tidy, NextCall
    <3>3. PICK o \in Outcomes(call.get, kernmode) :
            RetStands(call, o) /\ \A s \in Slots : SlotStands(call, o, s)
      BY <2>5 DEF AnswersInv
    <3>4. RetStands(call, o)'
      <4>1. "none" \notin RetVars
        BY DEF RetVars
      <4>2. call.ret \in RetVars => ret'[call.ret] = ret[call.ret]
        BY <2>3, <3>1, <3>2, <4>1 DEF Ended
      <4>3. QED BY <2>2, <3>3, <4>2 DEF RetStands
    <3>5. ASSUME NEW s \in Slots PROVE SlotStands(call, o, s)'
      <4>1. Fills(call, s) => slot'[s] = slot[s]
        BY <2>3, <3>1, <3>2 DEF Ended, Before
      <4>2. QED BY <2>2, <3>3, <4>1 DEF SlotStands
    <3>6. QED BY <2>2, <3>3, <3>4, <3>5
  <2>6. QED BY <2>1, <2>4, <2>5
<1>4. CASE Show
  <2>1. /\ UNCHANGED <<page, kernmode, cell, made>> /\ (made > 0 => ret' = ret)
        /\ \A s \in Slots \ BlockLocals : slot'[s] = slot[s]
        /\ made \in Nat /\ made = Len(Current.calls)
    BY <1>4, ShowFacts DEF TypeOK
  <2>2. Current' = Current
    BY <2>1 DEF Current
  <2> SUFFICES ASSUME Tidy(Current), NEW n \in 1 .. made
               PROVE  \E o \in Outcomes(Current.calls[n].get, kernmode) :
                        /\ RetStands(Current.calls[n], o)'
                        /\ \A s \in Slots : SlotStands(Current.calls[n], o, s)'
    <3>1. Tidy(Current)' <=> Tidy(Current)
      BY <2>2
    <3>2. QED BY <2>1, <2>2, <3>1 DEF AnswersInv, RetStands, SlotStands
  <2> DEFINE call == Current.calls[n]
  <2>3. PICK o \in Outcomes(call.get, kernmode) :
          RetStands(call, o) /\ \A s \in Slots : SlotStands(call, o, s)
    BY DEF AnswersInv
  <2>4. CallTyped(call)
    BY <2>1, CurrentIsTyped DEF CellTyped
  <2>5. RetStands(call, o)'
    BY <2>1, <2>2, <2>3 DEF RetStands
  <2>6. ASSUME NEW s \in Slots PROVE SlotStands(call, o, s)'
    <3>1. Fills(call, s) => s \notin BlockLocals
      BY <2>4 DEF CallTyped, Fills
    <3>2. Fills(call, s) => slot'[s] = slot[s]
      BY <2>1, <3>1
    <3>3. QED BY <2>2, <2>3, <3>2 DEF SlotStands
  <2>7. QED BY <2>3, <2>5, <2>6
<1>5. QED BY <1>1, <1>2, <1>3, <1>4 DEF Next, Moves

LEMMA HelperStep == ASSUME TypeOK, PlaceInv, BegunInv, HelperInv, Next PROVE HelperInv'
<1> DEFINE Tags == {"old", "junk", "other", "kept", "code"}
<1>1. \A g \in HelperFacts : g \notin Tags
  BY TablesAreTyped DEF GettersTyped, HelperFacts
<1>2. CASE Draw
  BY <1>2 DEF Draw, HelperInv
<1>3. CASE Moves
  <2>1. \A s \in Slots : Forgotten[s] = "old"
    BY DEF Forgotten
  <2>2. QED BY <1>1, <1>3, <2>1, MovesOnward DEF HelperInv
<1>4. CASE Ask
  <2>1. /\ CallTyped(NextCall) /\ UNCHANGED kernmode
        /\ made + 1 \in DOMAIN Current.calls
    BY <1>4, AskFacts
  <2>2. PICK o \in Outcomes(NextCall.get, kernmode) : Ended(o)
    BY <1>4, AskFacts
  <2> SUFFICES ASSUME ~kernmode, NEW s \in Slots PROVE slot'[s] \notin HelperFacts
    BY <2>1 DEF HelperInv
  <2>3. Before[s] \notin HelperFacts
    BY <1>1 DEF HelperInv, Before, ForgottenButKept
  <2>4. o \in Getters[NextCall.get].missing
    BY <2>2 DEF Outcomes
  <2>5. o.str \in {"own", "left"} \cup Tags /\ o.raw \in {"own", "left"} \cup Tags
    BY <2>1, <2>4, TablesAreTyped DEF GettersTyped, CallTyped
  <2>6. NextCall.fact \in HelperFacts => o.str # "own" /\ o.raw # "own"
    BY <2>1, <2>4, RulesOfCell DEF NamesTheHelper, NextCall
  <2>7. Content(NextCall, Tag(NextCall, o, s), Before[s]) \notin HelperFacts
    BY <1>1, <2>3, <2>5, <2>6 DEF Content, Tag
  <2>8. QED BY <2>2, <2>3, <2>7 DEF Ended
<1>5. CASE Show
  <2>1. "rawval" \in Slots
    BY DEF Slots
  <2>2. UNCHANGED kernmode /\ \A s \in Slots : slot'[s] \in {slot.rawval, slot[s]}
    BY <1>5, ShowFacts
  <2>3. QED BY <2>1, <2>2 DEF HelperInv
<1>6. QED BY <1>2, <1>3, <1>4, <1>5 DEF Next, Moves

\* The invariant of the line holds after a step if it holds of every line that
\* applied before it.
LEMMA LineGoal ==
  ASSUME UNCHANGED <<page, device, mode, kernmode>>,
         NEW k \in Nat, k = cell',
         \A j \in 1 .. k - 1 :
           Opener(page, j, k) /\ Fixed(Table[page][j]) /\ Applies(Table[page][j])
             /\ Tidy(Table[page][j])
           => \A n \in DOMAIN Table[page][j].calls :
                \E o \in Outcomes(Table[page][j].calls[n].get, kernmode) :
                  LineOk(Table[page][j], j, Table[page][j].calls[n], o)'
  PROVE  LineInv'
BY DEF LineInv, Applies, Settled

\* What all cells but the last have left alone, fewer cells have, too.
LEMMA KeepLonger ==
  ASSUME NEW p, NEW j, NEW k, NEW upto, j + 1 .. upto - 1 \subseteq j + 1 .. k - 1
  PROVE  /\ KeepsAllRet(p, j, k) => KeepsAllRet(p, j, upto)
         /\ KeepsFound(p, j, k) => KeepsFound(p, j, upto)
         /\ KeepsHolds(p, j, k) => KeepsHolds(p, j, upto)
<1>1. \A m : m \in j + 1 .. upto - 1 => m \in j + 1 .. k - 1
  OBVIOUS
<1>2. QED BY <1>1, Zenon DEF KeepsAllRet, KeepsFound, KeepsHolds

LEMMA LineOnward ==
  ASSUME TypeOK, PlaceInv, AnswersInv, TestedInv, LineInv, Moves, cell' = cell + 1, pc' = "cell"
  PROVE  LineInv'
<1>1. /\ UNCHANGED <<page, device, mode, kernmode>> /\ cell \in Nat
      /\ UNCHANGED <<ret, slot, facts>>
  BY MovesOnward, CurrentIsTyped DEF TypeOK
<1>2. SUFFICES ASSUME NEW j \in 1 .. cell,
                      Opener(page, j, cell + 1), Fixed(Table[page][j]),
                      Applies(Table[page][j]), Tidy(Table[page][j]),
                      NEW n \in DOMAIN Table[page][j].calls
               PROVE  \E o \in Outcomes(Table[page][j].calls[n].get, kernmode) :
                        LineOk(Table[page][j], j, Table[page][j].calls[n], o)'
  <2>1. cell + 1 \in Nat /\ 1 .. (cell + 1) - 1 = 1 .. cell
    BY <1>1
  <2>2. \A j \in 1 .. (cell + 1) - 1 :
          Opener(page, j, cell + 1) /\ Fixed(Table[page][j]) /\ Applies(Table[page][j])
            /\ Tidy(Table[page][j])
          => \A n \in DOMAIN Table[page][j].calls :
               \E o \in Outcomes(Table[page][j].calls[n].get, kernmode) :
                 LineOk(Table[page][j], j, Table[page][j].calls[n], o)'
    BY <1>2, <2>1, Zenon
  <2>3. QED BY <1>1, <2>1, <2>2, LineGoal
<1> DEFINE from == Table[page][j]
           call == from.calls[n]
<1>3. Upto' = cell + 1
  BY <1>1 DEF Upto
<1>4. \A k \in {cell, cell + 1} : j + 1 .. k \subseteq j + 1 .. cell + 1
                                  /\ j + 1 .. k - 1 \subseteq j + 1 .. (cell + 1) - 1
  BY <1>1
<1>5. CASE j = cell
  <2>1. Opens(Current) /\ ~Skip
    BY <1>2, <1>5, FixedIsReached DEF Opener, Skip, Current
  <2>2. pc = "shown" /\ Proceed
    BY <2>1 DEF Moves, Proceed
  <2>3. made = Len(Current.calls) /\ DOMAIN Current.calls = 1 .. made /\ made > 0
    <3>1. made = Len(Current.calls) /\ DOMAIN Current.calls = 1 .. made
      BY <2>2, CurrentIsTyped DEF PlaceInv, CellTyped
    <3>2. made \in Nat /\ n \in 1 .. made
      BY <1>5, <3>1 DEF TypeOK, Current
    <3>3. QED BY <3>1, <3>2
  <2>4. PICK o \in Outcomes(call.get, kernmode) :
          RetStands(call, o) /\ \A s \in Slots : SlotStands(call, o, s)
    BY <1>2, <1>5, <2>3 DEF AnswersInv, Current
  <2>5. /\ Current.tests # {} /\ "found" \in facts => TestsPass
        /\ Current.compares # {} /\ "holds" \in facts => TestsPass
    BY <2>2, <2>3 DEF TestedInv
  <2>6. call.ret \in from.tests /\ TestsPass => o.ret \in from.passes
    BY <1>5, <2>4, CurrentIsTyped DEF TestsPass, RetStands, Current, CellTyped
  <2>7. LineOk(from, j, call, o)'
    BY <1>1, <1>5, <2>4, <2>5, <2>6 DEF LineOk, RetStands, SlotStands, Current
  <2>8. QED BY <2>4, <2>7
<1>6. CASE j \in 1 .. cell - 1
  <2>1. Opener(page, j, cell)
    BY <1>2, <1>4 DEF Opener
  <2>2. PICK o \in Outcomes(call.get, kernmode) : LineOk(from, j, call, o)
    BY <1>2, <1>6, <2>1 DEF LineInv
  <2>3. /\ KeepsRet(page, j, cell + 1, call.ret) => KeepsRet(page, j, cell, call.ret)
        /\ \A s : KeepsSlot(page, j, cell + 1, s) => KeepsSlot(page, j, cell, s)
    BY <1>4 DEF KeepsRet, KeepsSlot
  <2>4. /\ KeepsAllRet(page, j, cell + 1) => KeepsAllRet(page, j, Upto)
        /\ KeepsFound(page, j, cell + 1) => KeepsFound(page, j, Upto)
        /\ KeepsHolds(page, j, cell + 1) => KeepsHolds(page, j, Upto)
    <3> DEFINE k == cell + 1
    <3>1. j + 1 .. Upto - 1 \subseteq j + 1 .. k - 1
      BY <1>4 DEF Upto
    <3> HIDE DEF k
    <3>2. /\ KeepsAllRet(page, j, k) => KeepsAllRet(page, j, Upto)
          /\ KeepsFound(page, j, k) => KeepsFound(page, j, Upto)
          /\ KeepsHolds(page, j, k) => KeepsHolds(page, j, Upto)
      BY <3>1, KeepLonger
    <3>3. QED BY <3>2 DEF k
  <2>5. LineOk(from, j, call, o)'
    BY <1>1, <1>3, <2>2, <2>3, <2>4 DEF LineOk, RetStands, SlotStands
  <2>6. QED BY <2>2, <2>5
<1>7. QED BY <1>1, <1>5, <1>6

LEMMA LineAsked ==
  ASSUME TypeOK, PlaceInv, BegunInv, LineInv, Ask
  PROVE  LineInv'
<1>1. /\ pc = "cell" /\ pc' = "cell" /\ cell \in Nat /\ cell' = cell
      /\ made + 1 \in DOMAIN Current.calls
      /\ UNCHANGED <<page, device, mode, kernmode>>
  BY AskFacts, CurrentIsTyped
<1>2. PICK last_outcome \in Outcomes(NextCall.get, kernmode) : Ended(last_outcome)
  BY AskFacts
<1>3. SUFFICES ASSUME NEW j \in 1 .. cell - 1,
                      Opener(page, j, cell), Fixed(Table[page][j]),
                      Applies(Table[page][j]), Tidy(Table[page][j]),
                      NEW n \in DOMAIN Table[page][j].calls
               PROVE  \E o \in Outcomes(Table[page][j].calls[n].get, kernmode) :
                        LineOk(Table[page][j], j, Table[page][j].calls[n], o)'
  BY <1>1, LineGoal
<1> DEFINE from == Table[page][j]
           call == from.calls[n]
<1>4. cell \in j + 1 .. cell
  BY <1>1
<1>5. ~NewLine /\ facts' = facts
  BY <1>3, <1>4, AskFacts DEF Opener, Current
<1>6. PICK o \in Outcomes(call.get, kernmode) : LineOk(from, j, call, o)
  BY <1>3 DEF LineInv
<1>7. Upto' = cell /\ Upto = cell
  BY <1>1 DEF Upto
<1>8. KeepsRet(page, j, cell, call.ret) /\ RetStands(call, o) => RetStands(call, o)'
  <2>1. KeepsRet(page, j, cell, call.ret) => call.ret # NextCall.ret
    BY <1>1, <1>4 DEF KeepsRet, Sets, Current, NextCall
  <2>2. KeepsRet(page, j, cell, call.ret) /\ call.ret \in RetVars
          => ret'[call.ret] = ret[call.ret]
    BY <1>2, <1>5, <2>1 DEF Ended
  <2>3. QED BY <1>1, <2>2 DEF RetStands
<1>9. ASSUME NEW s \in Slots, KeepsSlot(page, j, cell, s), SlotStands(call, o, s)
      PROVE  SlotStands(call, o, s)'
  <2>1. ~Fills(NextCall, s)
    BY <1>1, <1>4, <1>9 DEF KeepsSlot, Writes, Current, NextCall
  <2>2. slot'[s] = slot[s]
    BY <1>2, <1>5, <2>1 DEF Ended, Before
  <2>3. QED BY <1>1, <1>9, <2>2 DEF SlotStands
<1>10. LineOk(from, j, call, o)'
  BY <1>1, <1>5, <1>6, <1>7, <1>8, <1>9 DEF LineOk
<1>11. QED BY <1>6, <1>10

LEMMA LineShown ==
  ASSUME TypeOK, PlaceInv, BegunInv, LineInv, Show
  PROVE  LineInv'
<1>1. /\ pc = "cell" /\ pc' = "shown" /\ cell \in Nat /\ cell' = cell
      /\ UNCHANGED <<page, device, mode, kernmode>>
  BY ShowFacts, CurrentIsTyped
<1>2. SUFFICES ASSUME NEW j \in 1 .. cell - 1,
                      Opener(page, j, cell), Fixed(Table[page][j]),
                      Applies(Table[page][j]), Tidy(Table[page][j]),
                      NEW n \in DOMAIN Table[page][j].calls
               PROVE  \E o \in Outcomes(Table[page][j].calls[n].get, kernmode) :
                        LineOk(Table[page][j], j, Table[page][j].calls[n], o)'
  BY <1>1, LineGoal
<1> DEFINE from == Table[page][j]
           call == from.calls[n]
           after == cell + 1
<1>3. cell \in j + 1 .. after - 1 /\ j + 1 .. cell - 1 \subseteq j + 1 .. after - 1
  BY <1>1
<1>4. PICK o \in Outcomes(call.get, kernmode) : LineOk(from, j, call, o)
  BY <1>2 DEF LineInv
<1>5. Upto' = after /\ Upto = cell
  BY <1>1 DEF Upto
<1> HIDE DEF after
<1>6. /\ KeepsAllRet(page, j, after) => KeepsAllRet(page, j, cell)
      /\ KeepsFound(page, j, after) => KeepsFound(page, j, cell)
      /\ KeepsHolds(page, j, after) => KeepsHolds(page, j, cell)
  BY <1>3, KeepLonger
<1>7. KeepsAllRet(page, j, after) /\ RetStands(call, o) => RetStands(call, o)'
  <2>1. KeepsAllRet(page, j, after) => ~Current.fresh
    BY <1>3 DEF KeepsAllRet, Current
  <2>2. KeepsAllRet(page, j, after) => ret' = ret
    BY <2>1, ShowFacts
  <2>3. QED BY <1>1, <2>2 DEF RetStands
<1>8. ASSUME NEW s \in Slots, SlotStands(call, o, s)
      PROVE  SlotStands(call, o, s)'
  <2>1. CallTyped(call)
    <3>1. j \in DOMAIN Table[page]
      BY <1>1, CurrentIsTyped
    <3>2. QED BY <3>1, CallIsTyped
  <2>2. Fills(call, s) => s \notin BlockLocals
    BY <2>1 DEF CallTyped, Fills
  <2>3. Fills(call, s) => slot'[s] = slot[s]
    BY <2>2, ShowFacts
  <2>4. QED BY <1>1, <1>8, <2>3 DEF SlotStands
<1>9. /\ KeepsFound(page, j, after) /\ "found" \in facts' => "found" \in facts
      /\ KeepsHolds(page, j, after) /\ "holds" \in facts' => "holds" \in facts
  BY <1>3, ShowFacts DEF KeepsFound, KeepsHolds, Current
<1>10. LineOk(from, j, call, o)'
  BY <1>1, <1>4, <1>5, <1>6, <1>7, <1>8, <1>9 DEF LineOk
<1>11. QED BY <1>4, <1>10

LEMMA LineStep ==
  ASSUME TypeOK, PlaceInv, BegunInv, AnswersInv, TestedInv, LineInv, Next
  PROVE  LineInv'
<1>1. cell' = 1 => LineInv'
  BY DEF LineInv
<1>2. CASE Draw
  BY <1>1, <1>2 DEF Draw, PlaceInv
<1>3. CASE Moves
  BY <1>1, <1>3, MovesOnward, LineOnward
<1>4. QED BY <1>2, <1>3, LineAsked, LineShown DEF Next, Moves

\* The globals that calls fill are no names of facts the pages learn.
LEMMA NoGlobalIsLearnt ==
  ASSUME TypeOK, NEW s \in Slots \ BlockLocals
  PROVE  s \notin facts
BY DEF TypeOK, Slots, PanelLocals, BlockLocals

LEMMA BroughtOnward ==
  ASSUME TypeOK, PlaceInv, BroughtInv, Moves, cell' = cell + 1
  PROVE  BroughtInv'
<1>1. /\ UNCHANGED <<page, device, mode, kernmode>> /\ cell \in Nat \ {0} /\ cell' # 1
      /\ slot' = slot /\ made' = 0
  BY MovesOnward, CurrentIsTyped
<1>2. SUFFICES ASSUME NEW j \in 1 .. cell', Begun(j)', NEW s \in Slots \ BlockLocals,
                      slot[s] \notin {"old", "junk", "other", "kept", "code"}
               PROVE  BroughtSince(j, s)'
  BY <1>1 DEF BroughtInv
<1>3. j # cell' /\ j \in 1 .. cell
  <2>1. j # cell'
    BY <1>1, <1>2 DEF Begun
  <2>2. QED BY <1>1, <2>1
<1>4. /\ Opener(page, j, cell + 1) /\ Fixed(Table[page][j]) /\ Applies(Table[page][j])
  BY <1>1, <1>2, <1>3 DEF Begun, Applies, Settled
<1>5. j .. cell \subseteq j .. cell + 1 /\ j + 1 .. cell \subseteq j + 1 .. cell + 1
  BY <1>1
<1>6. Opener(page, j, cell)
  BY <1>4, <1>5 DEF Opener
<1>7. Begun(j)
  <2>1. CASE j # cell
    BY <1>4, <1>6, <2>1 DEF Begun
  <2>2. CASE j = cell
    <3>1. Opens(Current) /\ ~Skip
      BY <1>4, <2>2, FixedIsReached DEF Opener, Skip, Current
    <3>2. pc = "shown" /\ made = Len(Current.calls) /\ CellTyped(Current)
      BY <3>1, CurrentIsTyped DEF Moves, Proceed, PlaceInv
    <3>3. made > 0
      BY <3>1, <3>2 DEF Opens
    <3>4. QED BY <1>6, <2>2, <3>3 DEF Begun
  <2>3. QED BY <2>1, <2>2
<1>8. BroughtSince(j, s)
  BY <1>2, <1>3, <1>7 DEF BroughtInv
<1>9. QED BY <1>1, <1>5, <1>8 DEF BroughtSince

LEMMA BroughtAsked ==
  ASSUME TypeOK, PlaceInv, BegunInv, BroughtInv, Ask
  PROVE  BroughtInv'
<1> DEFINE Tags == {"old", "junk", "other", "kept", "code"}
<1>1. /\ made' = made + 1 /\ cell \in Nat /\ cell' = cell /\ CallTyped(NextCall)
      /\ made + 1 \in DOMAIN Current.calls /\ made \in Nat
      /\ UNCHANGED <<page, device, mode, kernmode>>
  BY AskFacts, CurrentIsTyped DEF TypeOK
<1>2. PICK o \in Outcomes(NextCall.get, kernmode) : Ended(o)
  BY AskFacts
<1>3. SUFFICES ASSUME NEW j \in 1 .. cell, Begun(j)', NEW s \in Slots \ BlockLocals,
                      slot'[s] \notin Tags
               PROVE  BroughtSince(j, s)'
  BY <1>1 DEF BroughtInv
<1>4. Opener(page, j, cell) /\ cell \in j .. cell /\ (j # cell => cell \in j + 1 .. cell)
  BY <1>1, <1>3 DEF Begun
<1>5. NewLine => j = cell
  BY <1>4, AskFacts DEF Opener, Current
<1>6. ~NewLine => Begun(j)
  <2>1. ~NewLine /\ j = cell => made > 0
    BY <1>1, <1>4 DEF Opener, Opens, NewLine, Current
  <2>2. QED BY <1>1, <1>3, <1>4, <2>1 DEF Begun, Applies, Settled
<1>7. Before[s] \in Tags \/ (Before[s] = slot[s] /\ BroughtSince(j, s))
  <2>1. CASE NewLine
    BY <2>1, NoGlobalIsLearnt DEF Before, ForgottenButKept
  <2>2. CASE ~NewLine
    BY <1>6, <2>2 DEF Before, BroughtInv
  <2>3. QED BY <2>1, <2>2
<1>8. CASE Fills(NextCall, s) /\ slot'[s] = NextCall.fact
  BY <1>1, <1>4, <1>8 DEF BroughtSince, NextCall, Current
<1>9. CASE slot'[s] = Before[s]
  BY <1>1, <1>3, <1>7, <1>9 DEF BroughtSince
<1>10. Fills(NextCall, s) => slot'[s] \in {NextCall.fact, Before[s]} \cup Tags
  <2>1. o \in Getters[NextCall.get].loaded \cup Getters[NextCall.get].missing
    BY <1>2 DEF Outcomes
  <2>2. o.str \in {"own", "left"} \cup Tags /\ o.raw \in {"own", "left"} \cup Tags
    BY <1>1, <2>1, TablesAreTyped DEF GettersTyped, CallTyped
  <2>3. Content(NextCall, Tag(NextCall, o, s), Before[s])
          \in {NextCall.fact, Before[s]} \cup Tags
    BY <2>2 DEF Content, Tag
  <2>4. QED BY <1>2, <2>3 DEF Ended
<1>11. ~Fills(NextCall, s) => slot'[s] = Before[s]
  BY <1>2 DEF Ended
<1>12. QED BY <1>3, <1>8, <1>9, <1>10, <1>11

LEMMA BroughtStep ==
  ASSUME TypeOK, PlaceInv, BegunInv, BroughtInv, Next
  PROVE  BroughtInv'
<1>1. cell' = 1 /\ made' = 0 => BroughtInv'
  BY DEF BroughtInv, Begun
<1>2. CASE Draw
  BY <1>1, <1>2 DEF Draw, PlaceInv
<1>3. CASE Moves
  BY <1>1, <1>3, MovesOnward, BroughtOnward
<1>4. CASE Show
  <2>1. /\ UNCHANGED <<page, device, mode, kernmode, cell, made>>
        /\ \A s \in Slots \ BlockLocals : slot'[s] = slot[s]
    BY <1>4, ShowFacts
  <2>2. \A j : Begun(j)' <=> Begun(j)
    BY <2>1 DEF Begun, Applies, Settled
  <2>3. \A j : \A s \in Slots \ BlockLocals : BroughtSince(j, s)' <=> BroughtSince(j, s)
    BY <2>1 DEF BroughtSince
  <2>4. QED BY <2>1, <2>2, <2>3 DEF BroughtInv
<1>5. QED BY <1>2, <1>3, <1>4, BroughtAsked DEF Next, Moves

LEMMA PageInit == Init => PageInv
<1> SUFFICES ASSUME Init PROVE PageInv
  OBVIOUS
<1> USE DEF Init
<1>1. "overview" \in DOMAIN Table
  BY DEF Table
<1> DEFINE length == Len(Table["overview"])
<1>2. DOMAIN Table["overview"] = 1 .. length /\ length \in 1 .. 200
  BY <1>1, TablesAreTyped DEF TablesTyped
<1> HIDE DEF length
<1>3. 1 \in DOMAIN Table["overview"]
  BY <1>2
<1>4. 0 \in RowNumbers /\ 1 \in RowNumbers
  BY PageAssumption, ScreenAssumption DEF RowNumbers
<1>5. TypeOK
  BY <1>1, <1>3, <1>4 DEF TypeOK, Untouched, Forgotten, Top
<1>6. CellTyped(Current)
  BY <1>5, CurrentIsTyped
<1>7. PlaceInv
  BY <1>6 DEF PlaceInv, CellTyped
<1>8. BegunInv /\ AnswersInv /\ TestedInv
  BY DEF BegunInv, AnswersInv, TestedInv
<1>9. LineInv /\ BroughtInv
  BY DEF LineInv, BroughtInv, Begun
<1>10. HelperInv
  <2>1. "old" \notin HelperFacts
    BY TablesAreTyped DEF GettersTyped, HelperFacts
  <2>2. QED BY <2>1 DEF HelperInv, Forgotten
<1>11. QED BY <1>5, <1>7, <1>8, <1>9, <1>10 DEF PageInv

LEMMA PageStep == PageInv /\ [Next]_vars => PageInv'
<1>1. ASSUME PageInv, Next PROVE PageInv'
  BY <1>1, TypeStep, PlaceStep, BegunStep, AnswersStep, TestedStep, LineStep, BroughtStep,
     HelperStep DEF PageInv
<1>2. ASSUME PageInv, UNCHANGED vars PROVE PageInv'
  <2>1. UNCHANGED vars
    BY <1>2
  <2>2. Current' = Current /\ TestsPass' = TestsPass
    BY <2>1 DEF vars, Current, TestsPass
  <2>3. TypeOK' /\ PlaceInv'
    BY <1>2, <2>1, <2>2 DEF PageInv, vars, TypeOK, PlaceInv
  <2>4. BegunInv' /\ TestedInv'
    BY <1>2, <2>1, <2>2 DEF PageInv, vars, BegunInv, TestedInv, Applies, Settled
  <2>5. AnswersInv' /\ HelperInv'
    BY <1>2, <2>1, <2>2 DEF PageInv, vars, AnswersInv, HelperInv, RetStands, SlotStands
  <2>6. LineInv'
    BY <1>2, <2>1, <2>2 DEF PageInv, vars, LineInv, LineOk, Applies, Settled, Upto,
                            RetStands, SlotStands
  <2>7. BroughtInv'
    BY <1>2, <2>1, <2>2 DEF PageInv, vars, BroughtInv, Begun, BroughtSince, Applies, Settled
  <2>8. QED BY <2>3, <2>4, <2>5, <2>6, <2>7 DEF PageInv
<1>3. QED BY <1>1, <1>2

-----------------------------------------------------------------------------
(* What is printed.                                                         *)

\* In the line that cell j has opened, for the cell that is drawn.
LEMMA LineOfHead ==
  ASSUME PageInv, Applies(Current), NEW j \in 1 .. cell - 1, Heads(page, j, cell),
         Tidy(Table[page][j]), NEW n \in DOMAIN Table[page][j].calls, pc = "cell"
  PROVE  \E o \in Outcomes(Table[page][j].calls[n].get, kernmode) :
           LineOk(Table[page][j], j, Table[page][j].calls[n], o)
BY WithinApplies DEF Heads, PageInv, LineInv, Current

\* A cell that is not the first of its line has not begun another one.
LEMMA GateOfLine ==
  ASSUME PageInv, Show, NEW j \in 1 .. cell - 1, Opener(page, j, cell)
  PROVE  /\ ~Opens(Current)
         /\ Current.when \cap {"found", "holds"} \subseteq facts
         /\ \A v \in Current.when \cap {"ret", "ret2"} : ~Sets(Current, v) => ret[v] = "ok"
<1>1. cell \in j + 1 .. cell
  BY CurrentIsTyped DEF PageInv
<1>2. ~Opens(Current)
  BY <1>1 DEF Opener, Current
<1>3. QED BY <1>2, ReachedGate DEF PageInv, BegunInv, Gate, Show, TypeOK

\* The call has left in s what it is to leave there, if it ended in such a way.
LEMMA SoundStands ==
  ASSUME NEW call, CallTyped(call), NEW o \in Outcomes(call.get, kernmode), NEW s, NEW tags,
         "left" \notin tags,
         NEW codes, Sound(call, s, codes, tags), o.ret \in codes, SlotStands(call, o, s)
  PROVE  slot[s] \notin NoFacts \ tags
<1>1. o \in Ends(call)
  BY DEF Outcomes, Ends
<1>2. Tag(call, o, s) \in tags /\ Fills(call, s)
  BY <1>1 DEF Sound
<1>3. slot[s] = call.fact \/ slot[s] \in tags
  BY <1>2 DEF SlotStands
<1>4. QED BY <1>3 DEF NoFacts, CallTyped

LEMMA AnyCodeIsAny ==
  ASSUME NEW call, CallTyped(call), NEW o \in Outcomes(call.get, kernmode)
  PROVE  o.ret \in AnyCode
BY DEF AnyCode, CallTyped, Outcomes

\* When the tests have passed, a global has what the rules say is brought into it.
LEMMA SourceStands ==
  ASSUME PageInv, Show, TestsPass, NEW s \in Slots, NEW tags, "left" \notin tags,
         Brought(page, cell, s, tags)
  PROVE  slot[s] \notin NoFacts \ tags
<1>1. /\ TypeOK /\ pc = "cell" /\ Applies(Current) /\ made = Len(Current.calls)
      /\ CellTyped(Current) /\ cell \in 1 .. Len(Table[page])
      /\ DOMAIN Table[page] = 1 .. Len(Table[page])
  BY ShowFacts, CurrentIsTyped DEF PageInv
<1>2. CASE OwnSource(Current, s, tags)
  <2>1. PICK n \in DOMAIN Current.calls :
          \/ Sound(Current.calls[n], s, AnyCode, tags)
          \/ /\ Sound(Current.calls[n], s, Current.passes, tags)
             /\ Current.calls[n].ret \in Current.tests
    BY <1>2 DEF OwnSource
  <2> DEFINE call == Current.calls[n]
  <2>2. CallTyped(call) /\ n \in 1 .. made
    BY <1>1 DEF CellTyped
  <2>3. PICK o \in Outcomes(call.get, kernmode) :
          RetStands(call, o) /\ \A t \in Slots : SlotStands(call, o, t)
    BY <1>2, <2>2 DEF PageInv, AnswersInv, OwnSource
  <2>4. CASE Sound(call, s, AnyCode, tags)
    BY <1>1, <2>2, <2>3, <2>4, SoundStands, AnyCodeIsAny
  <2>5. CASE Sound(call, s, Current.passes, tags) /\ call.ret \in Current.tests
    <3>1. o.ret \in Current.passes
      BY <1>1, <2>3, <2>5 DEF RetStands, TestsPass, CellTyped
    <3>2. QED BY <1>1, <2>2, <2>3, <2>5, <3>1, SoundStands
  <2>6. QED BY <2>1, <2>4, <2>5
<1>3. ASSUME NEW j \in 1 .. cell - 1, Heads(page, j, cell), LineSource(page, j, cell, s, tags)
      PROVE  slot[s] \notin NoFacts \ tags
  <2> DEFINE from == Table[page][j]
  <2>1. PICK n \in DOMAIN from.calls :
          \/ Sound(from.calls[n], s, AnyCode, tags)
          \/ /\ KeepsRet(page, j, cell, from.calls[n].ret) /\ KeepsAllRet(page, j, cell)
             /\ \/ /\ Sound(from.calls[n], s, Current.passes, tags)
                   /\ from.calls[n].ret \in Current.tests
                \/ /\ Sound(from.calls[n], s, {"ok"}, tags)
                   /\ from.calls[n].ret \in Current.when \cap {"ret", "ret2"}
          \/ /\ Sound(from.calls[n], s, from.passes, tags) /\ from.calls[n].ret \in from.tests
             /\ \/ "found" \in Current.when /\ KeepsFound(page, j, cell)
                \/ /\ "holds" \in Current.when /\ from.compares # {}
                   /\ KeepsHolds(page, j, cell)
    BY <1>3 DEF LineSource, Current
  <2> DEFINE call == from.calls[n]
  <2>2. Tidy(from) /\ KeepsSlot(page, j, cell, s) /\ Opener(page, j, cell)
    BY <1>3 DEF LineSource, Heads
  <2>3. CallTyped(call) /\ Upto = cell
    <3>1. j \in DOMAIN Table[page]
      BY <1>1
    <3>2. QED BY <1>1, <3>1, CallIsTyped DEF Upto
  <2>4. PICK o \in Outcomes(call.get, kernmode) : LineOk(from, j, call, o)
    BY <1>1, <1>3, <2>2, LineOfHead
  <2>5. SlotStands(call, o, s)
    BY <1>1, <2>2, <2>4 DEF LineOk
  <2>6. CASE Sound(call, s, AnyCode, tags)
    BY <2>3, <2>5, <2>6, SoundStands, AnyCodeIsAny
  <2>7. KeepsRet(page, j, cell, call.ret) /\ KeepsAllRet(page, j, cell) => RetStands(call, o)
    BY <2>3, <2>4 DEF LineOk
  <2>8. CASE /\ KeepsRet(page, j, cell, call.ret) /\ KeepsAllRet(page, j, cell)
             /\ Sound(call, s, Current.passes, tags) /\ call.ret \in Current.tests
    <3>1. o.ret \in Current.passes
      BY <1>1, <2>7, <2>8 DEF RetStands, TestsPass, CellTyped
    <3>2. QED BY <2>3, <2>5, <2>8, <3>1, SoundStands
  <2>9. CASE /\ KeepsRet(page, j, cell, call.ret) /\ KeepsAllRet(page, j, cell)
             /\ Sound(call, s, {"ok"}, tags) /\ call.ret \in Current.when \cap {"ret", "ret2"}
    <3>1. ~Sets(Current, call.ret)
      <4>1. cell \in j + 1 .. cell
        BY <1>1
      <4>2. QED BY <2>9, <4>1 DEF KeepsRet, Current
    <3>2. ret[call.ret] = "ok"
      BY <2>2, <2>9, <3>1, GateOfLine
    <3>3. o.ret = "ok"
      BY <2>7, <2>9, <3>2 DEF RetStands, RetVars
    <3>4. QED BY <2>3, <2>5, <2>9, <3>3, SoundStands
  <2>10. CASE /\ Sound(call, s, from.passes, tags) /\ call.ret \in from.tests
              /\ "found" \in Current.when /\ KeepsFound(page, j, cell)
    <3>1. "found" \in facts
      BY <2>2, <2>10, GateOfLine
    <3>2. o.ret \in from.passes
      BY <2>3, <2>4, <2>10, <3>1 DEF LineOk
    <3>3. QED BY <2>3, <2>5, <2>10, <3>2, SoundStands
  <2>11. CASE /\ Sound(call, s, from.passes, tags) /\ call.ret \in from.tests
              /\ "holds" \in Current.when /\ from.compares # {} /\ KeepsHolds(page, j, cell)
    <3>1. "holds" \in facts
      BY <2>2, <2>11, GateOfLine
    <3>2. o.ret \in from.passes
      BY <2>3, <2>4, <2>11, <3>1 DEF LineOk
    <3>3. QED BY <2>3, <2>5, <2>11, <3>2, SoundStands
  <2>12. QED BY <2>1, <2>6, <2>8, <2>9, <2>10, <2>11
<1>4. QED BY <1>2, <1>3 DEF Brought, Current

\* What a cell shows or compares, when its tests have passed, is its own.
LEMMA ShownSlots ==
  ASSUME PageInv, Show, TestsPass, "stale" \notin Current.flaws,
         NEW s \in Current.nice \cup Current.raw \cup Current.compares
  PROVE  slot[s] \notin NoFacts
<1>1. TypeOK /\ s \in Slots
  BY CurrentIsTyped DEF PageInv, CellTyped
<1>2. Brought(page, cell, s, Facts)
  BY <1>1, RulesOfCell DEF ShowsWhatItReads, Current
<1>3. NoFacts \ Facts = NoFacts /\ "left" \notin Facts
  BY DEF NoFacts, Facts
<1>4. QED BY <1>1, <1>2, <1>3, SourceStands

\* A code that is printed comes from a call of the line, and is no success.
LEMMA ShownCode ==
  ASSUME PageInv, Show, ~TestsPass, "foreign" \notin Current.flaws, Current.error # "none"
  PROVE  ret[Current.error] \notin {"old", "ok"}
<1>1. /\ TypeOK /\ pc = "cell" /\ Applies(Current) /\ made = Len(Current.calls)
      /\ CellTyped(Current) /\ cell \in 1 .. Len(Table[page])
      /\ DOMAIN Table[page] = 1 .. Len(Table[page])
  BY ShowFacts, CurrentIsTyped DEF PageInv
<1>2. /\ Current.error \in RetVars /\ Current.tests = {Current.error} /\ "ok" \in Current.passes
      /\ \/ Tidy(Current) /\ Sets(Current, Current.error)
         \/ \E j \in 1 .. cell - 1 :
              /\ Heads(page, j, cell) /\ Tidy(Table[page][j])
              /\ Sets(Table[page][j], Current.error)
              /\ KeepsRet(page, j, cell, Current.error) /\ KeepsAllRet(page, j, cell)
  BY <1>1, RulesOfCell DEF ReportsItsOwn, Current, CellTyped
<1>3. ret[Current.error] # "ok"
  BY <1>2 DEF TestsPass
<1>4. ASSUME NEW call, CallTyped(call), NEW o \in Outcomes(call.get, kernmode)
      PROVE  o.ret # "old"
  BY <1>4, TablesAreTyped DEF GettersTyped, CallTyped, Outcomes
<1>5. CASE Tidy(Current) /\ Sets(Current, Current.error)
  <2>1. PICK n \in DOMAIN Current.calls : Current.calls[n].ret = Current.error
    BY <1>5 DEF Sets
  <2>2. n \in 1 .. made /\ CallTyped(Current.calls[n])
    BY <1>1 DEF CellTyped
  <2>3. PICK o \in Outcomes(Current.calls[n].get, kernmode) : RetStands(Current.calls[n], o)
    BY <1>5, <2>2 DEF PageInv, AnswersInv
  <2>4. QED BY <1>2, <1>3, <1>4, <2>1, <2>2, <2>3 DEF RetStands
<1>6. ASSUME NEW j \in 1 .. cell - 1, Heads(page, j, cell), Tidy(Table[page][j]),
             Sets(Table[page][j], Current.error),
             KeepsRet(page, j, cell, Current.error), KeepsAllRet(page, j, cell)
      PROVE  ret[Current.error] # "old"
  <2> DEFINE from == Table[page][j]
  <2>1. PICK n \in DOMAIN from.calls : from.calls[n].ret = Current.error
    BY <1>6 DEF Sets
  <2>2. CallTyped(from.calls[n]) /\ Upto = cell
    <3>1. j \in DOMAIN Table[page]
      BY <1>1
    <3>2. QED BY <1>1, <3>1, CallIsTyped DEF Upto
  <2>3. PICK o \in Outcomes(from.calls[n].get, kernmode) : LineOk(from, j, from.calls[n], o)
    BY <1>1, <1>6, LineOfHead
  <2>4. RetStands(from.calls[n], o)
    BY <1>6, <2>1, <2>2, <2>3 DEF LineOk
  <2>5. QED BY <1>2, <1>4, <2>1, <2>2, <2>4 DEF RetStands
<1>7. QED BY <1>2, <1>3, <1>5, <1>6

\* What a cell shows in censored mode is covered where it is crucial.
LEMMA ShownCovered ==
  ASSUME PageInv, Show, TestsPass, Censored, "crucial" \notin Current.flaws, NEW s \in Current.nice
  PROVE  Crucial(slot[s]) \subseteq Current.mask
<1>1. /\ TypeOK /\ Applies(Current) /\ made = Len(Current.calls) /\ s \in Slots
      /\ CellTyped(Current) /\ cell \in 1 .. Len(Table[page])
  BY ShowFacts, CurrentIsTyped DEF PageInv, CellTyped
<1>2. page # "report" /\ "CENSORED" \notin Current.unless /\ "RAW" \notin Current.when
  <2>1. "RAW" \notin Learned
    BY DEF Learned, BlockLocals
  <2>2. "RAW" \notin device
    BY <1>1, PageAssumption DEF TypeOK
  <2>3. QED BY <1>1, <2>1, <2>2 DEF Applies, Settled, Censored
<1>3. PICK j \in 1 .. cell :
        /\ s \notin BlockLocals
        /\ Opener(page, j, cell) /\ (j = cell \/ Heads(page, j, cell))
        /\ \A m \in j .. cell : \A n \in DOMAIN Table[page][m].calls :
             Fills(Table[page][m].calls[n], s)
               => Crucial(Table[page][m].calls[n].fact) \subseteq Current.mask
  BY <1>1, <1>2, RulesOfCell DEF CoversWhatItShows, Current
<1>4. Begun(j)
  <2>1. CASE j = cell
    BY <1>1, <1>3, <2>1 DEF Begun, Opener, Opens, Current
  <2>2. CASE j # cell
    BY <1>1, <1>3, <2>2, WithinApplies DEF Begun, Heads, Current
  <2>3. QED BY <2>1, <2>2
<1>5. slot[s] \in {"old", "junk", "other", "kept", "code"} \/ BroughtSince(j, s)
  BY <1>1, <1>3, <1>4 DEF PageInv, BroughtInv
<1>6. CASE slot[s] \in {"junk", "other", "kept", "code"}
  BY <1>6 DEF Crucial, Secrets, Addresses
<1>7. CASE slot[s] = "old"
  <2>1. Whole \subseteq Current.mask \/ Brought(page, cell, s, Anything)
    BY <1>1, <1>2, RulesOfCell DEF CoversWhatItShows, Current
  <2>2. "old" \in NoFacts \ Anything /\ "left" \notin Anything
    BY DEF NoFacts, Anything, Facts
  <2>3. Whole \subseteq Current.mask
    BY <1>1, <1>7, <2>1, <2>2, SourceStands
  <2>4. Crucial("old") = Whole
    BY DEF Crucial, Addresses
  <2>5. QED BY <1>7, <2>3, <2>4
<1>8. CASE BroughtSince(j, s)
  BY <1>3, <1>8 DEF BroughtSince
<1>9. QED BY <1>5, <1>6, <1>7, <1>8

\* A line that only asks the helper plugins fails if they are missing, and has
\* their code to print.
LEMMA ShownHelper ==
  ASSUME PageInv, Show, ~kernmode, AsksHelperOnly, "helper" \notin Current.flaws
  PROVE  /\ ~TestsPass /\ Current.error # "none"
         /\ Message(ret[Current.error]) = "NO HELPER"
<1>1. TypeOK /\ made = Len(Current.calls) /\ CellTyped(Current)
  BY ShowFacts, CurrentIsTyped DEF PageInv
<1>2. Len(Current.calls) > 0
  <2>1. PICK k : k \in DOMAIN Current.calls
    BY DEF Asked, AsksHelperOnly
  <2>2. k \in 1 .. Len(Current.calls) /\ Len(Current.calls) \in 0 .. 6
    BY <1>1, <2>1 DEF CellTyped
  <2>3. QED BY <2>2
<1>3. /\ Tidy(Current) /\ Current.error \in Current.tests /\ "NO HELPER" \notin Current.passes
      /\ \E n \in DOMAIN Current.calls :
           /\ Current.calls[n].ret = Current.error
           /\ \A o \in Getters[Current.calls[n].get].missing : o.ret = "NO HELPER"
  BY <1>1, <1>2, RulesOfCell DEF NamesTheHelper, AsksHelperOnly, Asked
<1>4. PICK n \in DOMAIN Current.calls :
        /\ Current.calls[n].ret = Current.error
        /\ \A o \in Getters[Current.calls[n].get].missing : o.ret = "NO HELPER"
  BY <1>3
<1>5. n \in 1 .. made
  BY <1>1 DEF CellTyped
<1>6. PICK o \in Outcomes(Current.calls[n].get, kernmode) : RetStands(Current.calls[n], o)
  BY <1>3, <1>5 DEF PageInv, AnswersInv
<1>7. ret[Current.error] = "NO HELPER" /\ Current.error \in RetVars
  BY <1>1, <1>3, <1>4, <1>6 DEF RetStands, Outcomes, CellTyped
<1>8. "none" \notin RetVars
  BY DEF RetVars
<1>9. QED BY <1>3, <1>7, <1>8 DEF TestsPass, Message, Named

-----------------------------------------------------------------------------
(* The theorems.                                                            *)

\* The four promises about what is printed.
Promises == ShownIsOwn /\ ErrorIsOwn /\ MaskedHidden /\ NoHelperSaysSo

\* When a cell is printed they come true; at other times they say nothing.
LEMMA ShowKeepsPromises == ASSUME PageInv, Show PROVE Promises'
<1>1. /\ pc' = "shown" /\ UNCHANGED <<page, cell, mode, kernmode>> /\ CellTyped(Current)
      /\ Current' = Current
  BY ShowFacts, CurrentIsTyped DEF PageInv, Current
<1> DEFINE visible == IF mode = "RAW" THEN Current.raw ELSE Current.nice
<1>2. CASE TestsPass
  <2>1. /\ shown'.text = Contents(visible) /\ shown'.looked = Contents(Current.compares)
        /\ shown'.error = "none"
    BY <1>2 DEF Show
  <2>2. visible \subseteq Slots
    BY <1>1 DEF CellTyped
  <2>3. ShownIsOwn'
    BY <1>1, <1>2, <2>1, ShownSlots DEF ShownIsOwn, Printed, Contents
  <2>4. ErrorIsOwn'
    BY <2>1 DEF ErrorIsOwn
  <2>5. MaskedHidden'
    <3>1. SUFFICES ASSUME Censored, "crucial" \notin Current.flaws, NEW f \in Contents(visible)
                   PROVE  Crucial(f) \subseteq Current.mask
      BY <1>1, <2>1 DEF MaskedHidden, Printed, Censored, Uncovered
    <3>2. visible = Current.nice
      BY <3>1 DEF Censored
    <3>3. QED BY <1>2, <3>1, <3>2, ShownCovered DEF Contents
  <2>6. NoHelperSaysSo'
    <3>1. AsksHelperOnly' = AsksHelperOnly
      BY <1>1 DEF AsksHelperOnly, Asked
    <3>2. ~kernmode => shown'.text \cap HelperFacts = {}
      BY <2>1, <2>2 DEF Contents, PageInv, HelperInv
    <3>3. ~(~kernmode /\ AsksHelperOnly /\ "helper" \notin Current.flaws)
      BY <1>2, ShownHelper
    <3>4. QED BY <1>1, <3>1, <3>2, <3>3 DEF NoHelperSaysSo
  <2>7. QED BY <2>3, <2>4, <2>5, <2>6 DEF Promises
<1>3. CASE ~TestsPass
  <2>1. /\ shown'.text = {} /\ shown'.looked = {}
        /\ shown'.error = IF Current.error = "none" THEN "none" ELSE ret[Current.error]
    BY <1>3 DEF Show, NothingShown
  <2>2. ShownIsOwn'
    BY <2>1 DEF ShownIsOwn
  <2>3. ErrorIsOwn'
    BY <1>1, <1>3, <2>1, ShownCode DEF ErrorIsOwn, Printed
  <2>4. MaskedHidden'
    BY <2>1 DEF MaskedHidden, Uncovered
  <2>5. NoHelperSaysSo'
    <3>1. AsksHelperOnly' = AsksHelperOnly
      BY <1>1 DEF AsksHelperOnly, Asked
    <3>2. QED BY <1>1, <2>1, <3>1, ShownHelper DEF NoHelperSaysSo
  <2>6. QED BY <2>2, <2>3, <2>4, <2>5 DEF Promises
<1>4. QED BY <1>2, <1>3

LEMMA PromisesInit == Init => Promises
BY DEF Init, Promises, ShownIsOwn, ErrorIsOwn, MaskedHidden, NoHelperSaysSo, Printed

LEMMA PromisesStep == PageInv /\ Promises /\ [Next]_vars => Promises'
<1>1. pc' # "shown" => Promises'
  BY DEF Promises, ShownIsOwn, ErrorIsOwn, MaskedHidden, NoHelperSaysSo, Printed
<1>2. ASSUME PageInv, Next PROVE Promises'
  <2>1. CASE Draw
    BY <1>1, <2>1 DEF Draw
  <2>2. CASE Moves
    BY <1>1, <1>2, <2>2, MovesOnward DEF PageInv
  <2>3. CASE Ask
    BY <1>1, <1>2, <2>3, AskFacts DEF PageInv
  <2>4. QED BY <1>2, <2>1, <2>2, <2>3, ShowKeepsPromises DEF Next, Moves
<1>3. ASSUME Promises, UNCHANGED vars PROVE Promises'
  BY <1>3 DEF vars, Promises, ShownIsOwn, ErrorIsOwn, MaskedHidden, NoHelperSaysSo, Printed,
              Current, Censored, Uncovered, AsksHelperOnly, Asked
<1>4. QED BY <1>2, <1>3

LEMMA PageInvariant == Spec => [](PageInv /\ Promises)
BY PageInit, PageStep, PromisesInit, PromisesStep, PTL DEF Spec

\* The rows, the cursor and the results keep their types on every page, for
\* every unit and whichever calls fail.
THEOREM TypeCorrect == Spec => []TypeOK
<1>1. PageInv => TypeOK
  BY DEF PageInv
<1>2. QED BY <1>1, PageInvariant, PTL

\* No line shows, or decides by, what another line or page has left in the
\* globals, unless the line is among the ones known to do so.
THEOREM ShownAlwaysOwn == Spec => []ShownIsOwn
<1>1. Promises => ShownIsOwn
  BY DEF Promises
<1>2. QED BY <1>1, PageInvariant, PTL

\* An error that is printed is how a call of its own line has failed.
THEOREM ErrorAlwaysOwn == Spec => []ErrorIsOwn
<1>1. Promises => ErrorIsOwn
  BY DEF Promises
<1>2. QED BY <1>1, PageInvariant, PTL

\* In censored mode the blocks cover what identifies a unit, its parts or the
\* account, and all of a text that may be another line's left-over, unless the
\* line is among the ones known to leave it open.
THEOREM CrucialAlwaysMasked == Spec => []MaskedHidden
<1>1. Promises => MaskedHidden
  BY DEF Promises
<1>2. QED BY <1>1, PageInvariant, PTL

\* Without the helper plugins nothing is shown that only they can read, and a line
\* that asks for nothing else says "NO HELPER", whether or not it tests a result;
\* the lines known to say something else, or nothing, are marked in the tables.
THEOREM NoHelperAlwaysSaid == Spec => []NoHelperSaysSo
<1>1. Promises => NoHelperSaysSo
  BY DEF Promises
<1>2. QED BY <1>1, PageInvariant, PTL


-----------------------------------------------------------------------------
(* The rows and the claims.  Where the rows are depends on the lines left   *)
(* out before: the inductive invariant says that one of the cases of        *)
(* PageCases stands, and its bounds hold.                                   *)

\* What is known of the facts that tell the cases apart.
Considering == Considered(page) \cap Known

RowsIn(case) ==
  \A s \in Sides : /\ y[s] <= case.upper[s] /\ last[s] <= y[s]
                   /\ s \in case.above => last[s] < y[s]

\* The case when a cell is reached, when it has begun, and when it is printed.
Stands(case) ==
  /\ Considering = case.known /\ RowsIn(case)
  /\ \A v \in RetVars : ret[v] \in case.codes[v]

Began(case) ==
  /\ RowsIn(case) /\ MayReach(Current, Considered(page), case)
  /\ Considering = Asking(Current, made, case.known)
  /\ \A v \in RetVars : ret[v] \in Answered(Current, made, Entering(Current, case.codes))[v]

Finished(case, e) ==
  /\ RowsIn(case) /\ MayReach(Current, Considered(page), case)
  /\ Considering = KnownAfter(Current, Considered(page), case, e)
  /\ Possible(Results(Current, case, e))
  /\ \A v \in RetVars : ret[v] \in Remaining(Current, Results(Current, case, e))[v]

CaseInv ==
  /\ pc = "idle" => facts = {} /\ ret = Untouched /\ last = Top
  /\ pc = "cell" =>
       \E case \in Cases[page][cell] : IF made = 0 THEN Stands(case) ELSE Began(case)
  /\ pc = "shown" =>
       \E case \in Cases[page][cell] : \E e \in Endings(Current) : Finished(case, e)
  /\ pc = "shown" /\ Current.line => cursor <= y[Current.side]

LEMMA CasesDecided ==
  ASSUME TypeOK
  PROVE  /\ \A case \in Beginning(page) : Covered(page, 1, case)
         /\ \A case \in Cases[page][cell] :
              /\ case.known \subseteq Considered(page) /\ case.upper \in [Sides -> Nat]
              /\ KeepsRow(Current, Considered(page), case)
              /\ ClaimsRightly(Current, Considered(page), case)
         /\ cell < Len(Table[page]) =>
              /\ \A case \in Cases[page][cell] :
                   \A n \in Successors(Current, Considered(page), case) : Covered(page, cell + 1, n)
              /\ \A case \in Cases[page][cell + 1] : case.upper \in [Sides -> Nat]
<1>1. /\ page \in DOMAIN Table /\ cell \in DOMAIN Table[page]
      /\ DOMAIN Table[page] = 1 .. Len(Table[page]) /\ Len(Table[page]) \in 1 .. 200
  BY CurrentIsTyped DEF TypeOK
<1>2. CasesTyped(page) /\ CasesBegin(page) /\ CasesGoOn(page)
  BY <1>1, CasesAssumption
<1>3. \A case \in Cases[page][cell] :
        KeepsRow(Current, Considered(page), case) /\ ClaimsRightly(Current, Considered(page), case)
  BY <1>1, CasesAssumption DEF Current
<1>4. ASSUME cell < Len(Table[page])
      PROVE  cell \in 1 .. Len(Table[page]) - 1 /\ cell + 1 \in DOMAIN Table[page]
  BY <1>1, <1>4
<1>5. QED BY <1>1, <1>2, <1>3, <1>4 DEF CasesTyped, CasesBegin, CasesGoOn, Current

\* Neither a result nor "nothing" is among the facts that are considered.
LEMMA ConsideredFacts ==
  ASSUME NEW p
  PROVE  Considered(p) \cap {"ret", "ret2", "value", "nothing"} = {}
BY DEF Considered

LEMMA ConsideringSplits ==
  TypeOK => Considering = Considered(page) \cap (Settled \cup facts)
BY FactsAreLearned, ConsideredFacts DEF Considering

\* The same after a step.
LEMMA NextConsidering ==
  ASSUME TypeOK'
  PROVE  /\ Considering' = Considered(page') \cap (Settled' \cup facts')
         /\ Settled' \cap Learned = {}
<1>1. Settled' \cap Learned = {}
  BY PageAssumption DEF TypeOK, Settled, Learned, BlockLocals
<1>2. Known' = Settled' \cup facts' \cup {v \in {"ret", "ret2"} : ret'[v] = "ok"}
  BY DEF Known, Settled
<1>3. QED BY <1>1, <1>2, ConsideredFacts DEF Considering

\* A case that stands in the next state is included in one of the next cell's.
LEMMA CoveredStands ==
  ASSUME NEW bounds, NEW case, Covers(bounds, case), TypeOK',
         bounds.upper \in [Sides -> Nat], case.upper \in [Sides -> Nat], Stands(case)'
  PROVE  Stands(bounds)'
<1>1. y' \in [Sides -> Nat]
  BY DEF TypeOK, Sides
<1>2. RowsIn(bounds)'
  BY <1>1 DEF Covers, Stands, RowsIn
<1>3. QED BY <1>2 DEF Covers, Stands

\* Whatever case comes after one of this cell is one of the next cell's.
LEMMA CaseOnward ==
  ASSUME TypeOK, TypeOK', cell < Len(Table[page]), cell' = cell + 1, page' = page,
         NEW case \in Cases[page][cell],
         NEW n \in Successors(Current, Considered(page), case),
         n.upper \in [Sides -> Nat], Stands(n)'
  PROVE  \E bounds \in Cases[page'][cell'] : Stands(bounds)'
<1>1. Covered(page, cell + 1, n)
  BY CasesDecided
<1>2. PICK bounds \in Cases[page][cell + 1] : Covers(bounds, n)
  BY <1>1 DEF Covered
<1>3. bounds.upper \in [Sides -> Nat]
  BY CasesDecided
<1>4. QED BY <1>2, <1>3, CoveredStands

LEMMA DrawCase ==
  ASSUME TypeOK, TypeOK', PlaceInv, CaseInv, Draw
  PROVE  CaseInv'
<1>1. /\ pc = "idle" /\ pc' = "cell" /\ cell = 1 /\ made = 0 /\ facts = {} /\ ret = Untouched
      /\ last = Top /\ y' = Start(page') /\ UNCHANGED <<cell, made, ret, facts, last>>
  BY DEF Draw, PlaceInv, CaseInv
<1>2. page' \in DOMAIN Table /\ Start(page') \in [Sides -> 1 .. 33]
  BY TablesAreTyped DEF Draw, TablesTyped, Sides
<1>3. Considering' \subseteq Considered(page') \ Learned
  BY <1>1, NextConsidering
<1>4. PICK case \in Beginning(page') :
        /\ case.known = Considering' /\ case.upper = Start(page')
        /\ case.codes = [v \in RetVars |-> {"old"}]
  <2> DEFINE first == [known |-> Considering', upper |-> Start(page'), above |-> Sides,
                       codes |-> [v \in RetVars |-> {"old"}]]
  <2>1. first \in Beginning(page')
    BY <1>3 DEF Beginning
  <2>2. QED BY <2>1
<1>5. Stands(case)'
  <2>1. RowsIn(case)'
    <3>1. ASSUME NEW s \in Sides PROVE y'[s] \in 1 .. 33 /\ last'[s] = 0 /\ y'[s] = case.upper[s]
      BY <1>1, <1>2, <1>4 DEF Top, Sides
    <3>2. QED BY <3>1 DEF RowsIn
  <2>2. \A v \in RetVars : ret'[v] \in case.codes[v]
    BY <1>1, <1>4 DEF Untouched
  <2>3. QED BY <1>4, <2>1, <2>2 DEF Stands
<1>6. PICK bounds \in Cases[page'][1] : Covers(bounds, case) /\ bounds.upper \in [Sides -> Nat]
  <2>1. CasesBegin(page') /\ CasesTyped(page') /\ 1 \in DOMAIN Table[page']
    BY <1>2, CasesAssumption, TablesAreTyped DEF TablesTyped
  <2>2. QED BY <1>4, <2>1 DEF CasesBegin, CasesTyped, Covered
<1>7. Stands(bounds)'
  <2>1. case.upper \in [Sides -> Nat]
    BY <1>2, <1>4
  <2>2. QED BY <1>5, <1>6, <2>1, CoveredStands
<1>8. QED BY <1>1, <1>6, <1>7 DEF CaseInv

LEMMA KnownResults ==
  ASSUME TypeOK, NEW v \in Testable
  PROVE  v \in RetVars /\ (v \in Known <=> ret[v] = "ok")
<1>1. v \in Learned /\ v \in {"ret", "ret2"}
  BY DEF Testable, Learned
<1>2. v \notin facts
  BY <1>1 DEF TypeOK, BlockLocals
<1>3. QED BY <1>1, <1>2, FactsAreLearned DEF RetVars

\* What a case permits, and demands, is what the cell asks for.
LEMMA MustReachIsReached ==
  ASSUME TypeOK, NEW case, Stands(case), MustReach(Current, Considered(page), case)
  PROVE  Reached(Current)
<1>1. ASSUME NEW x \in Current.when PROVE x \in Known
  <2>1. CASE x \in Testable
    BY <1>1, <2>1, KnownResults DEF MustReach, Stands
  <2>2. CASE x \notin Testable
    BY <1>1, <2>2 DEF MustReach, Permits, Stands, Considering
  <2>3. QED BY <2>1, <2>2
<1>2. ASSUME NEW x \in Current.unless PROVE x \notin Known
  <2>1. CASE x \in Testable
    BY <1>2, <2>1, KnownResults DEF MustReach, Stands
  <2>2. CASE x \notin Testable
    BY <1>2, <2>2 DEF MustReach, Permits, Stands, Considering
  <2>3. QED BY <2>1, <2>2
<1>3. QED BY <1>1, <1>2 DEF Reached

LEMMA ReachedIsPermitted ==
  ASSUME TypeOK, NEW case, Stands(case), Reached(Current)
  PROVE  /\ MayReach(Current, Considered(page), case)
         /\ \A v \in RetVars : ret[v] \in Entering(Current, case.codes)[v]
<1>1. Permits(Current, Considered(page), case)
  BY DEF Reached, Permits, Stands, Considering
<1>2. ASSUME NEW v \in Testable
      PROVE  /\ v \in RetVars /\ ret[v] \in case.codes[v]
             /\ v \in Current.when => ret[v] = "ok"
             /\ v \in Current.unless => ret[v] # "ok"
  BY <1>2, KnownResults DEF Reached, Stands
<1>3. MayReach(Current, Considered(page), case)
  BY <1>1, <1>2 DEF MayReach
<1>4. ASSUME NEW v \in RetVars PROVE ret[v] \in Entering(Current, case.codes)[v]
  <2>1. ret[v] \in case.codes[v]
    BY DEF Stands
  <2>2. QED BY <1>2, <2>1 DEF Entering
<1>5. QED BY <1>3, <1>4

\* A page that ends has nothing left.
LEMMA LastCase ==
  ASSUME NEW rows, NEW labels, Advance(rows, labels), ~(cell < Len(Table[page]))
  PROVE  CaseInv'
BY DEF Advance, CaseInv

LEMMA SkipCase ==
  ASSUME TypeOK, TypeOK', PlaceInv, CaseInv, Skip
  PROVE  CaseInv'
<1>1. pc = "cell" /\ made = 0 /\ ~Reached(Current) /\ Advance(y, last)
  BY DEF Skip
<1>2. CASE ~(cell < Len(Table[page]))
  BY <1>1, <1>2, LastCase
<1>3. CASE cell < Len(Table[page])
  <2>1. /\ cell' = cell + 1 /\ pc' = "cell" /\ made' = 0
        /\ UNCHANGED <<page, device, mode, kernmode, ret, facts, y, last>>
    BY <1>1, <1>3 DEF Advance
  <2>2. PICK case \in Cases[page][cell] : Stands(case)
    BY <1>1 DEF CaseInv
  <2>3. case \in Successors(Current, Considered(page), case)
    BY <1>1, <2>2, MustReachIsReached DEF Successors
  <2>4. Stands(case)'
    BY <2>1, <2>2 DEF Stands, RowsIn, Considering, Known
  <2>5. case.upper \in [Sides -> Nat]
    BY CasesDecided
  <2>6. \E bounds \in Cases[page'][cell'] : Stands(bounds)'
    BY <1>3, <2>1, <2>3, <2>4, <2>5, CaseOnward
  <2>7. QED BY <2>1, <2>6 DEF CaseInv
<1>4. QED BY <1>2, <1>3

\* A cell that is reached has begun, before it makes any call.
LEMMA CellBegins ==
  ASSUME TypeOK, CaseInv, pc = "cell", made > 0 \/ Reached(Current)
  PROVE  \E case \in Cases[page][cell] : Began(case)
<1>1. CASE made > 0
  BY <1>1 DEF CaseInv, TypeOK
<1>2. CASE made = 0
  <2>1. PICK case \in Cases[page][cell] : Stands(case)
    BY <1>2 DEF CaseInv
  <2>2. Considering = Asking(Current, made, case.known)
    BY <1>2, <2>1 DEF Stands, Asking
  <2>3. ASSUME NEW v \in RetVars
        PROVE  ret[v] \in Answered(Current, made, Entering(Current, case.codes))[v]
    <3>1. ret[v] \in Entering(Current, case.codes)[v]
      BY <1>2, <2>1, ReachedIsPermitted
    <3>2. {m \in 1 .. made : Current.calls[m].ret = v} = {}
      BY <1>2
    <3>3. QED BY <1>2, <3>1, <3>2 DEF Answered, AnsweredBy, Mine
  <2>4. MayReach(Current, Considered(page), case)
    BY <1>2, <2>1, ReachedIsPermitted
  <2>5. QED BY <2>1, <2>2, <2>3, <2>4 DEF Began, Stands
<1>3. QED BY <1>1, <1>2 DEF TypeOK

\* The next call changes its own result only, to a code it may end with, or to
\* the sum with the result before.
LEMMA NextAnswer ==
  ASSUME NEW c, NEW n \in 0 .. 6, NEW codes, NEW v \in RetVars, NEW r,
         IF c.fresh /\ n = 0 THEN r = "old" ELSE r \in Answered(c, n, codes)[v],
         NEW code \in Codes(c.calls[n + 1])
  PROVE  (IF v # c.calls[n + 1].ret THEN r
          ELSE IF c.calls[n + 1].adds THEN Plus(r, code) ELSE code)
           \in Answered(c, n + 1, codes)[v]
<1> DEFINE mine(k) == Mine(c, k, v)
<1> DEFINE added(k) == \E m \in mine(k) : c.calls[m].adds
<1> DEFINE sums == Sums(codes[v])
<1> DEFINE given(k) == Given(c, k, v)
<1>1. mine(n + 1) = IF v # c.calls[n + 1].ret THEN mine(n) ELSE mine(n) \cup {n + 1}
  <2>1. 1 .. n + 1 = (1 .. n) \cup {n + 1}
    OBVIOUS
  <2>2. QED BY <2>1 DEF Mine
<1> DEFINE answer(k) == IF mine(k) = {} THEN IF c.fresh /\ k > 0 THEN {"old"} ELSE codes[v]
                        ELSE given(k) \cup IF added(k) THEN sums ELSE {}
<1>2. Answered(c, n, codes)[v] = answer(n) /\ Answered(c, n + 1, codes)[v] = answer(n + 1)
  BY DEF Answered, AnsweredBy
<1>3. CASE v # c.calls[n + 1].ret
  <2>1. mine(n + 1) = mine(n) /\ given(n + 1) = given(n) /\ n + 1 > 0
    BY <1>1, <1>3 DEF Given
  <2>2. CASE c.fresh /\ n = 0
    <3>1. mine(n) = {} /\ r = "old"
      BY <2>2 DEF Mine
    <3>2. QED BY <1>2, <1>3, <2>1, <2>2, <3>1
  <2>3. CASE ~(c.fresh /\ n = 0)
    <3>1. r \in Answered(c, n, codes)[v] /\ (c.fresh => n > 0)
      BY <2>3
    <3>2. answer(n + 1) = answer(n)
      BY <2>1, <3>1
    <3>3. QED BY <1>2, <1>3, <3>1, <3>2
  <2>4. QED BY <2>2, <2>3
<1>4. CASE v = c.calls[n + 1].ret
  <2>1. n + 1 \in mine(n + 1) /\ mine(n) \subseteq mine(n + 1)
    BY <1>1, <1>4
  <2>2. code \in given(n + 1) /\ given(n) \subseteq given(n + 1)
    BY <2>1 DEF Given
  <2>3. /\ c.calls[n + 1].adds => added(n + 1)
        /\ added(n) => added(n + 1)
    BY <2>1
  <2>4. answer(n + 1) = given(n + 1) \cup IF added(n + 1) THEN sums ELSE {}
    BY <2>1
  <2>5. code \in Answered(c, n + 1, codes)[v]
    BY <1>2, <2>2, <2>4
  <2>6. CASE c.calls[n + 1].adds
    <3>1. sums \subseteq Answered(c, n + 1, codes)[v]
      BY <1>2, <2>3, <2>4, <2>6
    <3>2. r \in Answered(c, n + 1, codes)[v]
      <4>1. CASE r = "old" \/ r \in sums
        BY <3>1, <4>1 DEF Sums
      <4>2. CASE r \in Answered(c, n, codes)[v]
        <5>1. CASE mine(n) = {}
          BY <1>2, <3>1, <4>2, <5>1 DEF Sums
        <5>2. CASE mine(n) # {}
          BY <1>2, <2>2, <2>4, <3>1, <4>2, <5>2
        <5>3. QED BY <5>1, <5>2
      <4>3. QED BY <4>1, <4>2
    <3>3. Plus(r, code) \in {r, code, "wrapped"}
      BY DEF Plus
    <3>4. QED BY <1>4, <2>5, <2>6, <3>1, <3>2, <3>3 DEF Sums
  <2>7. QED BY <1>4, <2>5, <2>6
<1>5. QED BY <1>3, <1>4

LEMMA AskCase ==
  ASSUME TypeOK, TypeOK', PlaceInv, BegunInv, CaseInv, Ask
  PROVE  CaseInv'
<1> DEFINE from == IF NewLine THEN Untouched ELSE ret
<1>1. /\ pc = "cell" /\ pc' = "cell" /\ made' = made + 1 /\ made \in 0 .. 6 /\ made' > 0
      /\ UNCHANGED <<page, device, mode, kernmode, cell, y, last>>
      /\ made + 1 \in 1 .. Len(Current.calls)
      /\ Current' = Current
  BY AskFacts DEF Ask, TypeOK, Current
<1>2. PICK case \in Cases[page][cell] : Began(case)
  <2>1. made > 0 \/ Reached(Current)
    BY DEF Ask
  <2>2. QED BY <1>1, <2>1, CellBegins
<1>3. PICK o \in Outcomes(NextCall.get, kernmode) : Answer(NextCall, o, from, Before)
  BY DEF Ask, NewLine, Before, NextCall
<1>4. o.ret \in Codes(Current.calls[made + 1])
  BY <1>3 DEF Outcomes, Codes, Ends, NextCall
<1>5. ASSUME NEW v \in RetVars
      PROVE  ret'[v] \in Answered(Current, made + 1, Entering(Current, case.codes))[v]
  <2>1. IF Current.fresh /\ made = 0 THEN from[v] = "old"
        ELSE from[v] \in Answered(Current, made, Entering(Current, case.codes))[v]
    BY <1>2 DEF NewLine, Untouched, Began
  <2>2. ret'[v] = IF v # NextCall.ret THEN from[v]
                  ELSE IF NextCall.adds THEN Plus(from[v], o.ret) ELSE o.ret
    BY <1>3 DEF Answer
  <2>3. PICK r : r = from[v]
    OBVIOUS
  <2>4. PICK codes : codes = Entering(Current, case.codes)
    OBVIOUS
  <2>5. IF Current.fresh /\ made = 0 THEN r = "old" ELSE r \in Answered(Current, made, codes)[v]
    BY <2>1, <2>3, <2>4
  <2>6. (IF v # Current.calls[made + 1].ret THEN r
         ELSE IF Current.calls[made + 1].adds THEN Plus(r, o.ret) ELSE o.ret)
          \in Answered(Current, made + 1, codes)[v]
    BY <1>1, <1>4, <2>5, NextAnswer
  <2>7. QED BY <2>2, <2>3, <2>4, <2>6 DEF NextCall
<1>6. Considering' = Asking(Current, made + 1, case.known)
  <2>1. Considering = Asking(Current, made, case.known)
    BY <1>2 DEF Began
  <2>2. Considering = Considered(page) \cap (Settled \cup facts)
    BY ConsideringSplits
  <2>3. Considering' = Considered(page) \cap (Settled \cup facts')
    BY <1>1, NextConsidering DEF Settled
  <2>4. facts' = IF NewLine /\ Current.line THEN facts \ {"found", "holds"} ELSE facts
    BY DEF Ask, NewLine, Lasting
  <2>5. "found" \notin Settled /\ "holds" \notin Settled
    BY FactsAreLearned DEF Learned
  <2>6. CASE NewLine /\ Current.line
    BY <1>1, <2>1, <2>2, <2>3, <2>4, <2>5, <2>6 DEF NewLine, Asking
  <2>7. CASE ~(NewLine /\ Current.line)
    <3>1. Considering' = Considering
      BY <2>2, <2>3, <2>4, <2>7
    <3>2. Asking(Current, made + 1, case.known) = Asking(Current, made, case.known)
      BY <1>1, <2>7 DEF NewLine, Asking
    <3>3. QED BY <2>1, <3>1, <3>2
  <2>8. QED BY <2>6, <2>7
<1>7. Began(case)'
  BY <1>1, <1>2, <1>5, <1>6 DEF Began, RowsIn
<1>8. QED BY <1>1, <1>2, <1>7 DEF CaseInv

\* How the cell that is printed has ended: its tests pass or not, and the
\* further test holds or not.
LEMMA ShowEnds ==
  ASSUME TypeOK, TypeOK', PlaceInv, BegunInv, Show, NEW case, Began(case)
  PROVE  \E e \in Endings(Current) : e.pass = TestsPass /\ Finished(case, e)'
<1>1. /\ pc = "cell" /\ pc' = "shown" /\ made = Len(Current.calls)
      /\ UNCHANGED <<page, device, mode, kernmode, cell, made, y, last>> /\ Current' = Current
  BY ShowFacts DEF Show, Current
<1>2. PICK holds \in BOOLEAN :
        (holds => TestsPass /\ Current.compares # {}) /\ facts' = Learnt(holds)
  BY DEF Show
<1> DEFINE e == [pass |-> TestsPass, holds |-> holds]
<1> DEFINE answers == Answered(Current, made, Entering(Current, case.codes))
<1>3. e \in Endings(Current)
  <2>1. TestsPass \in BOOLEAN /\ (Current.tests = {} => TestsPass)
    BY DEF TestsPass
  <2>2. QED BY <1>2, <2>1 DEF Endings
<1>4. ASSUME NEW v \in RetVars
      PROVE  ret[v] \in Results(Current, case, e)[v]
  <2>1. ret[v] \in answers[v]
    BY DEF Began
  <2>2. Results(Current, case, e) = Tested(Current, answers, e)
    BY <1>1 DEF Results
  <2>3. CASE TestsPass
    BY <2>1, <2>2, <2>3 DEF Tested, TestsPass
  <2>4. CASE ~TestsPass
    BY <2>1, <2>2, <2>4 DEF Tested, TestsPass
  <2>5. QED BY <2>3, <2>4
<1>5. Considering' = KnownAfter(Current, Considered(page), case, e)
  <2>1. Considering = Asking(Current, Len(Current.calls), case.known)
    BY <1>1 DEF Began
  <2>2. Considering = Considered(page) \cap (Settled \cup facts)
    BY ConsideringSplits
  <2>3. Considering' = Considered(page) \cap (Settled \cup facts')
    BY <1>1, NextConsidering DEF Settled
  <2>4. "found" \notin Settled /\ "holds" \notin Settled /\ "nothing" \notin Considered(page)
    BY FactsAreLearned, ConsideredFacts DEF Learned
  <2>5. facts' = {f \in facts : (f = "found" => Current.tests = {})
                                /\ (f = "holds" => Current.compares = {})}
                 \cup {f \in {"found", Current.marks} :
                         TestsPass /\ Current.tests # {} /\ f # "nothing"}
                 \cup {f \in {"holds"} : holds}
    BY <1>2 DEF Learnt
  <2>6. "holds" \in Considered(page)
    BY DEF Considered
  <2>7. Considering' = Learning(Current, Considered(page), Considering, e)
    BY <2>2, <2>3, <2>4, <2>5, <2>6 DEF Learning
  <2>8. QED BY <2>1, <2>7 DEF KnownAfter
<1>6. ASSUME NEW v \in RetVars
      PROVE  ret'[v] \in Remaining(Current, Results(Current, case, e))[v]
  BY <1>1, <1>4 DEF Show, Remaining, Untouched
<1>7. Possible(Results(Current, case, e))
  BY <1>4 DEF Possible
<1>8. RowsIn(case)' /\ MayReach(Current, Considered(page), case)
  BY <1>1 DEF Began, RowsIn
<1>9. PICK d \in Endings(Current) : d = e
  BY <1>3
<1>10. Finished(case, d)'
  BY <1>1, <1>5, <1>6, <1>7, <1>8, <1>9 DEF Finished
<1>11. QED BY <1>9, <1>10

\* The label is never below the row of its side.
LEMMA CursorAtRow ==
  ASSUME TypeOK, Show, Current.line
  PROVE  /\ Current.side \in Sides /\ y[Current.side] \in Nat
         /\ cursor' <= y[Current.side]
         /\ y[Current.side] <= 33 => cursor' = y[Current.side]
<1>1. Current.side \in Sides /\ y[Current.side] \in Nat
  BY CurrentIsTyped DEF CellTyped, TypeOK, Sides
<1>2. cursor' = IF y[Current.side] \in RowNumbers THEN y[Current.side] ELSE cursor
  BY DEF Show, SetXY
<1>3. RowNumbers = 0 .. MY - 1 /\ MY \in Nat /\ MY >= 34 /\ cursor \in RowNumbers
  BY ScreenAssumption, PageAssumption DEF RowNumbers, TypeOK
<1>4. QED BY <1>1, <1>2, <1>3

LEMMA ShowCase ==
  ASSUME TypeOK, TypeOK', PlaceInv, BegunInv, CaseInv, Show
  PROVE  CaseInv' /\ RowsKept' /\ ClaimsFollowReads'
<1>1. /\ pc = "cell" /\ pc' = "shown" /\ Current' = Current
      /\ UNCHANGED <<page, cell, y, last>>
  BY ShowFacts DEF Show, Current
<1>2. PICK case \in Cases[page][cell] : Began(case)
  <2>1. made > 0 \/ Reached(Current)
    BY DEF Show
  <2>2. QED BY <1>1, <2>1, CellBegins
<1>3. PICK e \in Endings(Current) : e.pass = TestsPass /\ Finished(case, e)'
  BY <1>2, ShowEnds
<1>4. CaseInv'
  <2>1. Current.line => cursor' <= y[Current.side]
    BY CursorAtRow
  <2>2. QED BY <1>1, <1>2, <1>3, <2>1 DEF CaseInv
<1>5. RowsKept'
  <2>1. SUFFICES ASSUME "row" \notin Current.flaws, Current.line
                 PROVE  cursor' > last[Current.side]
    BY <1>1 DEF RowsKept, Printed
  <2>2. Current.side \in case.above /\ case.upper[Current.side] <= 33
    BY <1>2, <2>1, CasesDecided DEF Began, KeepsRow
  <2>3. /\ Current.side \in Sides /\ y[Current.side] \in Nat
        /\ y[Current.side] <= 33 => cursor' = y[Current.side]
    BY <2>1, CursorAtRow
  <2>4. case.upper[Current.side] \in Nat
    BY <1>2, <2>3, CasesDecided
  <2>5. y[Current.side] <= case.upper[Current.side] /\ last[Current.side] < y[Current.side]
    BY <1>2, <2>2, <2>3 DEF Began, RowsIn
  <2>6. last[Current.side] \in Nat
    BY <2>3, ScreenAssumption DEF TypeOK, Sides, RowNumbers
  <2>7. QED BY <2>2, <2>3, <2>4, <2>5, <2>6
<1>6. ClaimsFollowReads'
  <2>1. SUFFICES ASSUME "claim" \notin Current.flaws, shown'.claim, NEW v \in RetVars
                 PROVE  ret'[v] \in {"old", "ok", "text", "black"}
    BY <1>1 DEF ClaimsFollowReads, Printed
  <2>2. TestsPass /\ Current.claim
    <3>1. ~TestsPass => shown'.claim = FALSE
      BY DEF Show, NothingShown
    <3>2. TestsPass => shown'.claim = Current.claim
      BY DEF Show
    <3>3. TestsPass
      BY <2>1, <3>1 DEF TestsPass
    <3>4. QED BY <2>1, <3>2, <3>3
  <2>3. ClaimsRightly(Current, Considered(page), case) /\ MayReach(Current, Considered(page), case)
    BY <1>2, CasesDecided DEF Began
  <2>4. /\ Possible(Results(Current, case, e))
        /\ ret'[v] \in Remaining(Current, Results(Current, case, e))[v]
    BY <1>1, <1>3 DEF Finished
  <2>5. Remaining(Current, Results(Current, case, e))[v] \subseteq Fine
    BY <1>3, <2>1, <2>2, <2>3, <2>4 DEF ClaimsRightly
  <2>6. QED BY <2>4, <2>5 DEF Fine
<1>7. QED BY <1>4, <1>5, <1>6

\* The rows after a cell are as far down as its case allows, and below the
\* label if the cell moves on.
LEMMA ProceedRows ==
  ASSUME TypeOK, CaseInv, Proceed, cell < Len(Table[page]),
         NEW case \in Cases[page][cell], RowsIn(case), NEW s \in Sides
  PROVE  /\ y'[s] <= Lower(Current, case.upper)[s] /\ last'[s] <= y'[s]
         /\ s \in Below(Current, case.above) => last'[s] < y'[s]
         /\ Lower(Current, case.upper)[s] \in Nat
<1>1. /\ y' = [y EXCEPT ![Current.side] = @ + Current.down]
      /\ last' = [last EXCEPT ![Current.side] = IF Current.line THEN cursor ELSE @]
      /\ Current.line => cursor <= y[Current.side]
  BY DEF Proceed, Advance, CaseInv
<1>2. /\ y \in [Sides -> Nat] /\ last \in [Sides -> RowNumbers] /\ cursor \in RowNumbers
      /\ RowNumbers \subseteq Nat /\ Current.side \in Sides /\ Current.down \in Nat
  BY CurrentIsTyped, ScreenAssumption DEF TypeOK, CellTyped, Sides, RowNumbers
<1>3. /\ case.upper[s] \in Nat /\ y[s] <= case.upper[s] /\ last[s] <= y[s]
      /\ s \in case.above => last[s] < y[s]
  BY CasesDecided DEF RowsIn
<1>4. /\ y'[s] = IF s = Current.side THEN y[s] + Current.down ELSE y[s]
      /\ last'[s] = IF s = Current.side /\ Current.line THEN cursor ELSE last[s]
      /\ Lower(Current, case.upper)[s]
           = IF s = Current.side THEN case.upper[s] + Current.down ELSE case.upper[s]
  BY <1>1, <1>2 DEF Lower
<1>5. s \in Below(Current, case.above) =>
        IF s = Current.side /\ Current.line THEN Current.down > 0
        ELSE s \in case.above \/ (s = Current.side /\ Current.down > 0)
  BY DEF Below
<1>6. CASE s = Current.side /\ Current.line
  BY <1>1, <1>2, <1>3, <1>4, <1>5, <1>6
<1>7. CASE ~(s = Current.side /\ Current.line)
  <2>1. y[s] \in Nat /\ last[s] \in Nat /\ last'[s] = last[s] /\ Current.down \in Nat
    BY <1>2, <1>4, <1>7
  <2>2. CASE s = Current.side
    <3>1. s \in Below(Current, case.above) => s \in case.above \/ Current.down > 0
      BY <1>5, <1>7
    <3>2. QED BY <1>3, <1>4, <2>1, <2>2, <3>1
  <2>3. CASE s # Current.side
    BY <1>3, <1>4, <1>5, <2>1, <2>3
  <2>4. QED BY <2>2, <2>3
<1>8. QED BY <1>6, <1>7

LEMMA ProceedCase ==
  ASSUME TypeOK, TypeOK', CaseInv, Proceed
  PROVE  CaseInv'
<1>1. CASE ~(cell < Len(Table[page]))
  BY <1>1, LastCase DEF Proceed
<1>2. CASE cell < Len(Table[page])
  <2>1. /\ pc = "shown" /\ cell' = cell + 1 /\ pc' = "cell" /\ made' = 0
        /\ UNCHANGED <<page, device, mode, kernmode, ret, facts>>
    BY <1>2 DEF Proceed, Advance
  <2>2. PICK case \in Cases[page][cell] : \E e \in Endings(Current) : Finished(case, e)
    BY <2>1 DEF CaseInv
  <2>3. PICK e \in Endings(Current) : Finished(case, e)
    BY <2>2
  <2>4. PICK n : n = Printing(Current, Considered(page), case, e)
    OBVIOUS
  <2>5. n \in Successors(Current, Considered(page), case)
    BY <2>3, <2>4 DEF Finished, Successors
  <2>6. /\ n.known = KnownAfter(Current, Considered(page), case, e)
        /\ n.upper = Lower(Current, case.upper) /\ n.above = Below(Current, case.above)
        /\ n.codes = Remaining(Current, Results(Current, case, e))
    BY <2>4 DEF Printing
  <2>7. \A s \in Sides : /\ y'[s] <= n.upper[s] /\ last'[s] <= y'[s] /\ n.upper[s] \in Nat
                         /\ s \in n.above => last'[s] < y'[s]
    BY <1>2, <2>3, <2>6, ProceedRows DEF Finished
  <2>8. n.upper \in [Sides -> Nat]
    BY <2>6, <2>7 DEF Lower
  <2>9. Stands(n)'
    <3>1. Considering' = n.known
      BY <2>1, <2>3, <2>6 DEF Finished, Considering, Known
    <3>2. RowsIn(n)'
      BY <2>7 DEF RowsIn
    <3>3. QED BY <2>1, <2>3, <2>6, <3>1, <3>2 DEF Finished, Stands
  <2>10. \E bounds \in Cases[page'][cell'] : Stands(bounds)'
    BY <1>2, <2>1, <2>5, <2>8, <2>9, CaseOnward
  <2>11. QED BY <2>1, <2>10 DEF CaseInv
<1>3. QED BY <1>1, <1>2

LEMMA CaseInit == Init => CaseInv /\ RowsKept /\ ClaimsFollowReads
BY DEF Init, CaseInv, RowsKept, ClaimsFollowReads, Printed

LEMMA CaseStep ==
  PageInv /\ PageInv' /\ CaseInv /\ RowsKept /\ ClaimsFollowReads /\ [Next]_vars
    => CaseInv' /\ RowsKept' /\ ClaimsFollowReads'
<1> SUFFICES ASSUME PageInv, PageInv', CaseInv, RowsKept, ClaimsFollowReads, [Next]_vars
             PROVE  CaseInv' /\ RowsKept' /\ ClaimsFollowReads'
  OBVIOUS
<1>1. TypeOK /\ TypeOK' /\ PlaceInv /\ BegunInv
  BY DEF PageInv
<1>2. pc' # "shown" => RowsKept' /\ ClaimsFollowReads'
  BY DEF RowsKept, ClaimsFollowReads, Printed
<1>3. CASE Draw
  BY <1>1, <1>2, <1>3, DrawCase DEF Draw
<1>4. CASE Skip
  BY <1>1, <1>2, <1>4, SkipCase, MovesOnward DEF Moves
<1>5. CASE Ask
  BY <1>1, <1>2, <1>5, AskCase, AskFacts
<1>6. CASE Show
  BY <1>1, <1>6, ShowCase
<1>7. CASE Proceed
  BY <1>1, <1>2, <1>7, ProceedCase, MovesOnward DEF Moves
<1>8. CASE UNCHANGED vars
  BY <1>8 DEF vars, CaseInv, RowsKept, ClaimsFollowReads, Printed, Current, Stands, Began,
              Finished, RowsIn, Considering, Known
<1>9. QED BY <1>3, <1>4, <1>5, <1>6, <1>7, <1>8 DEF Next

LEMMA CaseInvariant == Spec => [](CaseInv /\ RowsKept /\ ClaimsFollowReads)
<1>1. Spec => []PageInv
  BY PageInit, PageStep, PTL DEF Spec
<1>2. QED BY <1>1, CaseInit, CaseStep, PTL DEF Spec

\* No line is printed over another one of its side, whichever lines the unit
\* and the failures leave out: but for the lines known to be.
THEOREM RowsAlwaysKept == Spec => []RowsKept
BY CaseInvariant, PTL

\* A fixed text that states a fact is printed only if every call of its line
\* has succeeded: but for the texts known not to be.
THEOREM ClaimsAlwaysFollowReads == Spec => []ClaimsFollowReads
BY CaseInvariant, PTL

=============================================================================
