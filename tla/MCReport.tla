------------------------------ MODULE MCReport ------------------------------
(* Small instances of Report for TLC.  The whole table of savereport is     *)
(* long; what matters to the protocol is a first line, a line that is       *)
(* probed for, one that only some devices print, and a last one.            *)
EXTENDS Report, ReportLayout

MCNames == {"psvident_SERIAL.txt", "psvident.txt"}

MCTable == << ReportTable[1], ReportTable[3], ReportTable[13],
              ReportTable[Len(ReportTable)] >>

\* A retail 3G model with a profile and an anomaly, a prototype devkit, and
\* a refurbished PlayStation TV.
MCDevices == {{"CEX", "VITA", "WWAN", "wifi", "anomaly"},
              {"Tool", "Development", "VITA", "prototype", "token"},
              {"CEX", "Dolce", "MCEmu", "refurbished"}}

\* No getter fails: only the card does.
MCNoProbes == {}
=============================================================================
