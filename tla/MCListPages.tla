---------------------------- MODULE MCListPages -----------------------------
(* Lists that are empty, short, just full (13 items) and too long, on the   *)
(* screen of the code; the names of modules begin with Sce, with nothing of *)
(* it, or share one letter with it.                                         *)
EXTENDS ListPages

Sce == <<"S", "c", "e">>
Own == <<"k", "u", "b">>
Repeat(name, n) == [k \in 1 .. n |-> name]

MCItems == [
  playlog |-> {Repeat(Own, n) : n \in {0, 3, 12, 13, 14}},
  modules |-> {Repeat(Sce, 2) \o Repeat(Own, 2) \o Repeat(Sce, 1),
               Repeat(Sce, 1) \o Repeat(Own, 13), Repeat(Own, 14),
               Repeat(Sce, 14) \o Repeat(Own, 13) \o Repeat(Sce, 1)}]

MCMixedItems == [
  playlog |-> {<< >>},
  modules |-> {<<Own, Sce, <<"r", "e", "p">>, <<"r", "e", "e">>, <<"S", "a", "v">>>>}]
=============================================================================
