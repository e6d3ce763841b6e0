------------------------------ MODULE MCPages -------------------------------
(* Two kinds of device for the run about what censored mode leaves open.    *)
EXTENDS Pages

MCDevices == {{"CEX", "VITA", "MemoryCard"}, {"Tool", "Dev", "VITA"}}
=============================================================================
