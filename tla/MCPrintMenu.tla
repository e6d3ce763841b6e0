---------------------------- MODULE MCPrintMenu -----------------------------
(* The kinds of device that differ in the lines of their pages: a retail    *)
(* model, one with 3G in a shop, testkits with and without a screen of      *)
(* their own, a devkit, a PlayStation TV and a devkit of it; and, for the   *)
(* lists and the summary, the instances of MCListPages and MCSummary.       *)
EXTENDS PrintMenu

MCDevices == {
  {"CEX", "VITA", "MemoryCard"}, {"CEX", "VITA", "WWAN", "IDU"},
  {"DEX", "Dev", "VITA", "MemoryCard"}, {"DEX", "Dev", "Dolce", "MCEmu"},
  {"Tool", "Dev", "VITA"}, {"CEX", "Dolce", "MemoryCard", "MCEmu"},
  {"Tool", "Dev", "Dolce", "IDU"}}

MCUnits == {{"CEX", "VITA", "card"}, {"CEX", "VITA", "MCEmu"},
            {"Development", "VITA", "card"}, {"Development", "MCEmu"}}

\* Lists that are empty, short, just full (13 items) and too long; the names
\* of modules begin with Sce, or have nothing of it.
Sce == <<"S", "c", "e">>
Own == <<"k", "u", "b">>
Times(name, n) == [k \in 1 .. n |-> name]

MCItems == [
  playlog |-> {Times(Own, n) : n \in {0, 3, 12, 13, 14}},
  modules |-> {Times(Sce, 2) \o Times(Own, 2) \o Times(Sce, 1),
               Times(Sce, 1) \o Times(Own, 13), Times(Own, 14),
               Times(Sce, 14) \o Times(Own, 13) \o Times(Sce, 1)}]
=============================================================================
