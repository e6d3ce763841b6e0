------------------------------- MODULE Viewer -------------------------------
(***************************************************************************)
(* What the controls of PSVident promise (README.md, "Controls"), without  *)
(* the loop that polls the pad: the user turns pages, switches between     *)
(* three display modes, and what is on the screen is the chosen page in    *)
(* the chosen mode.  PSVident.tla implements this specification.           *)
(***************************************************************************)
EXTENDS Naturals

CONSTANT LastPage        \* a natural number; pages are 0 .. LastPage

VARIABLES
  page,                  \* the selected page
  mode,                  \* "normal", "raw" or "censored"
  shown                  \* the page and mode last drawn

viewerVars == <<page, mode, shown>>

Modes == {"normal", "raw", "censored"}

Drawn(p, m) == [page |-> p, mode |-> m]
Blank == [page |-> LastPage + 1, mode |-> "normal"]

Init ==
  /\ page = 0
  /\ mode = "normal"
  /\ shown = Blank

\* Every operation leaves the page it selects on the screen.
Select(p, m) ==
  /\ page' = p
  /\ mode' = m
  /\ shown' = Drawn(p, m)

Toggle(m) == IF mode = m THEN "normal" ELSE m

Refresh      == Select(page, mode)
Censored     == Select(page, Toggle("censored"))
RawValues    == Select(page, Toggle("raw"))
Reset        == Select(0, "normal")
NextPage     == page < LastPage /\ Select(page + 1, mode)
PreviousPage == page > 0 /\ Select(page - 1, mode)

\* The application is left and started again.
Restart ==
  /\ page' = 0
  /\ mode' = "normal"
  /\ shown' = Blank

Next ==
  \/ Refresh \/ Censored \/ RawValues \/ Reset
  \/ NextPage \/ PreviousPage \/ Restart

Spec == Init /\ [][Next]_viewerVars

=============================================================================
