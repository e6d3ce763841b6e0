----------------------------- MODULE PageRules ------------------------------
(***************************************************************************)
(* The rules the cells of the pages obey, each about one line of one page: *)
(* where a text, a test or an error comes from.  The tables have no        *)
(* parameter, so TLC decides TablesObeyRules once and for all when a run   *)
(* begins; PagesProofs shows that pages made of such cells keep the        *)
(* properties of Pages, whatever the unit is and whichever calls fail.     *)
(***************************************************************************)
EXTENDS Getters, PageTables

\* What a cell asks about may be settled before the page is drawn.
Fixed(c) == (c.when \cup c.unless) \cap Learned = {}
Within(c, other) == c.when \subseteq other.when /\ c.unless \subseteq other.unless

\* A line begins with the first call of a fresh cell; it lasts to the next one.
Opens(c) == c.fresh /\ Len(c.calls) > 0
Opener(p, j, k) == Opens(Table[p][j]) /\ \A m \in j + 1 .. k : ~Opens(Table[p][m])

\* The cell that opens the line of cell k is drawn whenever k is.
Heads(p, j, k) ==
  Opener(p, j, k) /\ Fixed(Table[p][j]) /\ Within(Table[p][j], Table[p][k])

Fills(call, s) == s \in {call.str, call.raw}
Ends(call) == Getters[call.get].loaded \cup Getters[call.get].missing

\* No call of the cell undoes what another one of it has brought.
Tidy(c) ==
  \A n \in DOMAIN c.calls :
    /\ ~c.calls[n].adds
    /\ \A k \in DOMAIN c.calls \ {n} :
         /\ c.calls[k].ret = c.calls[n].ret => c.calls[n].ret = "none"
         /\ \A s \in Slots : ~(Fills(c.calls[n], s) /\ Fills(c.calls[k], s))

-----------------------------------------------------------------------------
(* The types of the tables.                                                *)

CallTyped(call) ==
  /\ call.get \in DOMAIN Getters /\ call.ret \in RetVars \cup {"none"}
  /\ {call.str, call.raw} \subseteq (Slots \cup {"none"}) \ BlockLocals
  /\ call.str = call.raw => call.str = "none"
  /\ call.fact \notin {"old", "junk", "other", "kept", "code"}

CellTyped(c) ==
  /\ Len(c.calls) \in 0 .. 6 /\ DOMAIN c.calls = 1 .. Len(c.calls)
  /\ \A n \in DOMAIN c.calls : CallTyped(c.calls[n])
  /\ c.line \in BOOLEAN /\ c.fresh \in BOOLEAN
  /\ c.side \in {"left", "right"} /\ c.down \in Nat
  /\ c.tests \subseteq RetVars /\ c.error \in RetVars \cup {"none"}
  /\ c.nice \cup c.raw \cup c.compares \subseteq Slots
  /\ c.marks \in {"nothing", "mounted", "broken"} \cup BlockLocals

TablesTyped ==
  \A p \in DOMAIN Table :
    /\ Len(Table[p]) \in 1 .. 200 /\ DOMAIN Table[p] = 1 .. Len(Table[p])
    /\ \A k \in DOMAIN Table[p] : CellTyped(Table[p][k])
    /\ Start(p) \in [{"left", "right"} -> 1 .. 33]

\* How calls end: with a code, never with what only the pages write.
GettersTyped ==
  /\ DOMAIN Getters \cap {"old", "junk", "other", "kept", "code"} = {}
  /\ \A g \in DOMAIN Getters : \A o \in Getters[g].loaded \cup Getters[g].missing :
       /\ o.ret \notin {"old", "wrapped"}
       /\ {o.str, o.raw} \subseteq {"own", "left", "junk", "other", "kept", "code"}

-----------------------------------------------------------------------------
(* Where things come from.                                                 *)

\* What a call may leave in a global: a text or number of its own, or anything at
\* all, but not what was there before.
Facts == {"own", "other"}
Anything == Facts \cup {"junk", "kept", "code"}

\* The call leaves that in s if it ends with such a code.
Tag(call, o, s) == IF s = call.str THEN o.str ELSE o.raw
Sound(call, s, codes, tags) ==
  Fills(call, s) /\ \A o \in Ends(call) : o.ret \in codes => Tag(call, o, s) \in tags
AnyCode == {o.ret : o \in UNION {Getters[g].loaded \cup Getters[g].missing : g \in DOMAIN Getters}}

\* The rest of a line leaves the result, the global, the facts alone.
Sets(c, v) == \E n \in DOMAIN c.calls : c.calls[n].ret = v
Writes(c, s) == \E n \in DOMAIN c.calls : Fills(c.calls[n], s)

KeepsRet(p, j, k, v) == \A m \in j + 1 .. k : ~Sets(Table[p][m], v)
KeepsAllRet(p, j, k) == \A m \in j + 1 .. k - 1 : ~Table[p][m].fresh
KeepsSlot(p, j, k, s) == \A m \in j + 1 .. k : ~Writes(Table[p][m], s)
KeepsFound(p, j, k) == \A m \in j + 1 .. k - 1 : Table[p][m].tests = {}
KeepsHolds(p, j, k) == \A m \in j + 1 .. k - 1 : Table[p][m].compares = {}

\* What cell k shows or looks at is brought by a call of its own that is tested,
\* or cannot fail to; or by a call of the cell that opens the line, which is
\* tested, or waited for, here or there.
OwnSource(c, s, tags) ==
  /\ Tidy(c)
  /\ \E n \in DOMAIN c.calls :
       LET call == c.calls[n]
       IN \/ Sound(call, s, AnyCode, tags)
          \/ Sound(call, s, c.passes, tags) /\ call.ret \in c.tests

LineSource(p, j, k, s, tags) ==
  LET from == Table[p][j]
      c == Table[p][k]
  IN /\ Tidy(from) /\ KeepsSlot(p, j, k, s)
     /\ \E n \in DOMAIN from.calls :
          LET call == from.calls[n]
          IN \/ Sound(call, s, AnyCode, tags)
             \/ /\ KeepsRet(p, j, k, call.ret) /\ KeepsAllRet(p, j, k)
                /\ \/ Sound(call, s, c.passes, tags) /\ call.ret \in c.tests
                   \/ Sound(call, s, {"ok"}, tags) /\ call.ret \in c.when \cap {"ret", "ret2"}
             \/ /\ Sound(call, s, from.passes, tags) /\ call.ret \in from.tests
                /\ \/ "found" \in c.when /\ KeepsFound(p, j, k)
                   \/ "holds" \in c.when /\ from.compares # {} /\ KeepsHolds(p, j, k)

Brought(p, k, s, tags) ==
  \/ OwnSource(Table[p][k], s, tags)
  \/ \E j \in 1 .. k - 1 : Heads(p, j, k) /\ LineSource(p, j, k, s, tags)

ShowsWhatItReads(p, k) ==
  LET c == Table[p][k]
  IN "stale" \notin c.flaws =>
       \A s \in c.nice \cup c.raw \cup c.compares : Brought(p, k, s, Facts)

\* The only result that is tested is the one whose code is printed, and a call
\* of the line has set it.
ReportsItsOwn(p, k) ==
  LET c == Table[p][k]
  IN "foreign" \notin c.flaws /\ c.error # "none" =>
       /\ c.tests = {c.error} /\ "ok" \in c.passes
       /\ \/ Tidy(c) /\ Sets(c, c.error)
          \/ \E j \in 1 .. k - 1 :
               /\ Heads(p, j, k) /\ Tidy(Table[p][j])
               /\ Sets(Table[p][j], c.error)
               /\ KeepsRet(p, j, k, c.error) /\ KeepsAllRet(p, j, k)

\* Whatever a line may bring into a global is covered where it is shown, and if
\* there may be a left-over in it, all of the text is.
CoversWhatItShows(p, k) ==
  LET c == Table[p][k]
  IN /\ "crucial" \notin c.flaws /\ p # "report"
     /\ "CENSORED" \notin c.unless /\ "RAW" \notin c.when
     => \A s \in c.nice :
          /\ s \notin BlockLocals
          /\ Whole \subseteq c.mask \/ Brought(p, k, s, Anything)
          /\ \E j \in 1 .. k :
               /\ Opener(p, j, k) /\ (j = k \/ Heads(p, j, k))
               /\ \A m \in j .. k : \A n \in DOMAIN Table[p][m].calls :
                    LET call == Table[p][m].calls[n]
                    IN Fills(call, s) => Crucial(call.fact) \subseteq c.mask

\* Without the helper plugins the getters of their facts bring nothing, and a
\* line that asks for such facts only has the code that says so, and prints it.
NamesTheHelper(c) ==
  /\ \A n \in DOMAIN c.calls : c.calls[n].fact \in HelperFacts =>
       \A o \in Getters[c.calls[n].get].missing : "own" \notin {o.str, o.raw}
  /\ "helper" \notin c.flaws /\ c.line /\ Len(c.calls) > 0
     /\ {c.calls[n].fact : n \in DOMAIN c.calls} \subseteq HelperFacts
     => /\ Tidy(c) /\ c.error \in c.tests /\ "NO HELPER" \notin c.passes
        /\ \E n \in DOMAIN c.calls :
             /\ c.calls[n].ret = c.error
             /\ \A o \in Getters[c.calls[n].get].missing : o.ret = "NO HELPER"

TablesObeyRules ==
  /\ TablesTyped /\ GettersTyped
  /\ \A p \in DOMAIN Table : \A k \in DOMAIN Table[p] :
       /\ ShowsWhatItReads(p, k) /\ ReportsItsOwn(p, k) /\ CoversWhatItShows(p, k)
       /\ NamesTheHelper(Table[p][k])

ASSUME RulesAssumption == TablesObeyRules

=============================================================================
