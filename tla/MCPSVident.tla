----------------------------- MODULE MCPSVident -----------------------------
(* A small instance of PSVident for TLC: three pages, a hold of two clock   *)
(* units, every pair of buttons that have a handler, and the exit combo     *)
(* alone, half pressed, and pressed while DOWN is held for a report.        *)
EXTENDS PSVident

Handled == {"CROSS", "SQUARE", "TRIANGLE", "CIRCLE", "RTRIGGER", "LEFT", "DOWN"}

MCSamples ==
  {{}} \cup {{a, b} : a, b \in Handled}
       \cup {{"START"}, {"DOWN", "SELECT"}, {"START", "SELECT"},
             {"DOWN", "START", "SELECT"}}
=============================================================================
