--------------------------- MODULE MCDebugScreen ----------------------------
(* A grid of three columns and three rows, and texts that end before, at    *)
(* and after the last column, that go around the screen, or that have       *)
(* control characters; the longest is truncated.  What PageRules and        *)
(* PageCases assume of the tables of the pages that are printed on this     *)
(* screen has no parameter; it is decided here, once and for all.           *)
EXTENDS DebugScreen, PageCases

MCTexts == { << >>, <<"a", "a">>, <<"a", "a", "a">>,
             <<"a", "a", "a", "a", "a", "a", "a", "a", "a", "a", "a", "a">>,
             <<"a", "\n", "a">>, <<"a", "\t", "\r", "a">> }
=============================================================================
