----------------------------- MODULE MCSummary ------------------------------
(* The devices that differ in the checks: a retail model, one that emulates *)
(* the memory card, a devkit with its screen and a PlayStation TV testkit.  *)
EXTENDS Summary

MCDevices == {{"CEX", "VITA", "card"}, {"CEX", "VITA", "MCEmu"},
              {"Development", "VITA", "card"}, {"Development", "MCEmu"}}
=============================================================================
