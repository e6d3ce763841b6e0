----------------------------- MODULE PageCases ------------------------------
(***************************************************************************)
(* Where the rows of a page are, and how the results stand, when a cell is *)
(* reached.  Both depend on the lines before it that were left out; so the *)
(* cases are told apart by a few of the facts the conditions ask about,    *)
(* and for each case of each cell Cases has bounds that are never          *)
(* exceeded.  Like the rules of PageRules they have no parameter: TLC      *)
(* computes the cases and decides that every step stays within them.       *)
(***************************************************************************)
EXTENDS PageRules

Sides == {"left", "right"}
Testable == {"ret", "ret2"}

\* The facts that tell the cases of a page apart: how the last tests ended, and
\* what decides between lines that share a row.
Considered(p) ==
  {"found", "holds"} \cup
  CASE p = "battery" -> {"Dolce", "Tool"}
    [] p = "consoleid" -> {"CENSORED"}
    [] p = "activation" -> {"CENSORED", "Dev"}
    [] p = "touchpanel" -> {"VITA"}
    [] p = "registry" -> {"CENSORED", "Dolce", "Tool"}
    [] p = "summary" -> {"VITA", "CEX", "MCEmu", "ur0blocks", "ux0blocks"}
    [] p = "report" -> {"ur0blocks", "ux0blocks"}
    [] OTHER -> {}

-----------------------------------------------------------------------------
(* A case: what is known of the facts T, and bounds: how far the row of    *)
(* each side is down at most, the sides whose row is below their last      *)
(* label for sure, and the codes each result may have.  What the actions   *)
(* Skip, Ask, Show and Proceed of Pages do to the state, the operators     *)
(* below do to a case.                                                     *)

\* The cell is drawn in some state of the case, or in all of them.
Permits(c, T, case) ==
  (c.when \ Testable) \cap T \subseteq case.known /\ c.unless \cap case.known = {}

MayReach(c, T, case) ==
  /\ Permits(c, T, case)
  /\ \A v \in Testable : /\ v \in c.when => "ok" \in case.codes[v]
                         /\ v \in c.unless => case.codes[v] # {"ok"}

MustReach(c, T, case) ==
  /\ Permits(c, T, case) /\ (c.when \cup c.unless) \ Testable \subseteq T
  /\ \A v \in Testable : /\ v \in c.when => case.codes[v] = {"ok"}
                         /\ v \in c.unless => "ok" \notin case.codes[v]

\* The results when the cell is reached.
Entering(c, codes) ==
  [v \in RetVars |-> IF v \in c.when \cap Testable THEN codes[v] \cap {"ok"}
                     ELSE IF v \in c.unless \cap Testable THEN codes[v] \ {"ok"} ELSE codes[v]]

Codes(call) == {o.ret : o \in Ends(call)}

\* The calls among the first n that set the result v, and what it is then.
Mine(c, n, v) == {m \in 1 .. n : c.calls[m].ret = v}
Given(c, n, v) == UNION {Codes(c.calls[m]) : m \in Mine(c, n, v)}
Sums(codes) == AnyCode \cup {"old", "wrapped"} \cup codes

AnsweredBy(c, n, v, codes) ==
  IF Mine(c, n, v) = {} THEN IF c.fresh /\ n > 0 THEN {"old"} ELSE codes
  ELSE Given(c, n, v)
       \cup IF \E m \in Mine(c, n, v) : c.calls[m].adds THEN Sums(codes) ELSE {}

\* The results, and what is known, when n calls of the cell are made.
Answered(c, n, codes) == [v \in RetVars |-> AnsweredBy(c, n, v, codes[v])]

Asking(c, n, known) == IF c.fresh /\ c.line /\ n > 0 THEN known \ {"found", "holds"} ELSE known

\* The tests may pass or not, and the further test only if they do.
Endings(c) ==
  {e \in [pass : BOOLEAN, holds : BOOLEAN] :
     (c.tests = {} => e.pass) /\ (e.holds => e.pass /\ c.compares # {})}

\* What is known, and which results are left, when the cell has ended so.
Learning(c, T, known, e) ==
  {f \in known : (f = "found" => c.tests = {}) /\ (f = "holds" => c.compares = {})}
  \cup {f \in {"found", c.marks} \cap T : e.pass /\ c.tests # {}}
  \cup {f \in {"holds"} : e.holds}

Tested(c, codes, e) ==
  [v \in RetVars |-> IF e.pass THEN IF v \in c.tests THEN codes[v] \cap c.passes ELSE codes[v]
                     ELSE IF c.tests = {v} THEN codes[v] \ c.passes ELSE codes[v]]

Possible(codes) == \A v \in RetVars : codes[v] # {}

\* A cell without a call forgets the results of the line before.
Remaining(c, codes) ==
  IF c.fresh /\ Len(c.calls) = 0 THEN [v \in RetVars |-> {"old"}] ELSE codes

\* The rows after the cell.
Lower(c, upper) == [s \in Sides |-> IF s = c.side THEN upper[s] + c.down ELSE upper[s]]
Below(c, above) ==
  IF c.down > 0 THEN above \cup {c.side} ELSE IF c.line THEN above \ {c.side} ELSE above

\* The cell is printed and ends so; or it is left out.
KnownAfter(c, T, case, e) == Learning(c, T, Asking(c, Len(c.calls), case.known), e)
Results(c, case, e) == Tested(c, Answered(c, Len(c.calls), Entering(c, case.codes)), e)
Printing(c, T, case, e) ==
  [known |-> KnownAfter(c, T, case, e), upper |-> Lower(c, case.upper),
   above |-> Below(c, case.above), codes |-> Remaining(c, Results(c, case, e))]

Successors(c, T, case) ==
  (IF MustReach(c, T, case) THEN {} ELSE {case})
  \cup (IF MayReach(c, T, case)
          THEN {Printing(c, T, case, e) : e \in {d \in Endings(c) : Possible(Results(c, case, d))}}
          ELSE {})

-----------------------------------------------------------------------------
(* The cases of the pages.                                                 *)

Beginning(p) ==
  {[known |-> known, upper |-> Start(p), above |-> Sides, codes |-> [v \in RetVars |-> {"old"}]] :
     known \in SUBSET (Considered(p) \ Learned)}

Highest(S) == CHOOSE n \in S : \A m \in S : m <= n

\* One case for all of those that know the same.
Joined(cases, known) ==
  LET alike == {c \in cases : c.known = known}
  IN [known |-> known,
      upper |-> [s \in Sides |-> Highest({c.upper[s] : c \in alike})],
      above |-> {s \in Sides : \A c \in alike : s \in c.above},
      codes |-> [v \in RetVars |-> UNION {c.codes[v] : c \in alike}]]

CasesAfter(c, T, cases) ==
  LET next == UNION {Successors(c, T, case) : case \in cases}
  IN {Joined(next, known) : known \in {n.known : n \in next}}

CasesOf(p) ==
  LET upto[k \in DOMAIN Table[p]] ==
        IF k = 1 THEN <<Beginning(p)>>
        ELSE LET before == upto[k - 1]
             IN Append(before, CasesAfter(Table[p][k - 1], Considered(p), before[k - 1]))
  IN upto[Len(Table[p])]

Cases == [p \in DOMAIN Table |-> CasesOf(p)]

-----------------------------------------------------------------------------
(* What TLC decides of them.                                               *)

Covers(bounds, case) ==
  /\ bounds.known = case.known
  /\ \A s \in Sides : case.upper[s] <= bounds.upper[s] /\ (s \in bounds.above => s \in case.above)
  /\ \A v \in RetVars : case.codes[v] \subseteq bounds.codes[v]

Covered(p, k, case) == \E bounds \in Cases[p][k] : Covers(bounds, case)

CasesTyped(p) ==
  \A k \in DOMAIN Table[p] : \A case \in Cases[p][k] :
    case.known \subseteq Considered(p) /\ case.upper \in [Sides -> Nat]

CasesBegin(p) == \A case \in Beginning(p) : Covered(p, 1, case)

CasesGoOn(p) ==
  \A k \in 1 .. Len(Table[p]) - 1 : \A case \in Cases[p][k] :
    \A n \in Successors(Table[p][k], Considered(p), case) : Covered(p, k + 1, n)

\* A label has a row of its own.
KeepsRow(c, T, case) ==
  MayReach(c, T, case) /\ c.line /\ "row" \notin c.flaws
    => c.side \in case.above /\ case.upper[c.side] <= 33

\* A claim is made only with results that are no errors.
Fine == {"old", "ok", "text", "black"}

ClaimsRightly(c, T, case) ==
  MayReach(c, T, case) /\ c.claim /\ "claim" \notin c.flaws
    => \A e \in Endings(c) : e.pass /\ Possible(Results(c, case, e))
         => \A v \in RetVars : Remaining(c, Results(c, case, e))[v] \subseteq Fine

ASSUME CasesAssumption ==
  \A p \in DOMAIN Table :
    /\ CasesTyped(p) /\ CasesBegin(p) /\ CasesGoOn(p)
    /\ \A k \in DOMAIN Table[p] : \A case \in Cases[p][k] :
         /\ KeepsRow(Table[p][k], Considered(p), case)
         /\ ClaimsRightly(Table[p][k], Considered(p), case)

=============================================================================
