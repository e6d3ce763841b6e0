---------------------------- MODULE SummaryTables ----------------------------
(***************************************************************************)
(* The checks of summary(), which savereport() has once more: what each    *)
(* of them asks, tests and compares before it says something.  Where the   *)
(* lines go is in module Summary.                                          *)
(***************************************************************************)
EXTENDS PageCells

\* "Hi .., this is a .. running firmware .. produced in .. for .. in the ..
\* region!", with the helper plugins only.  The texts of target and region are
\* chosen by the number; the year stands after the "_" of the factory string.
GreetingFirmware ==
  LET current == Flaw("stale", Shows({"retstr"}, Blank))
  IN << [OneOf2("getCurrentFirmware1", "getCurrentFirmware2") EXCEPT
           !.line = FALSE, !.nice = {}, !.raw = {}, !.error = "none"],
        When({"found", "ret2", "Dev"}, Shows({"retstr2"}, Blank)),
        When({"found", "Dev"}, Unless({"ret2"}, current)), When({"found"}, Unless({"Dev"}, current)) >>

SummaryGreeting == AllWhen({"kernmode"},
  <<Shows({"retstr"}, Anew(Chars("getSystemUsername"))),
    Shows({"retstr"}, Anew(Chars("getModelName")))>>
  \o GreetingFirmware
  \o <<Flaw("stale", Fetched("getSmiString1", "SMI string 9")),
       Shows({"rawval"}, Anew(Value("getTarget1"))), Shows({"rawval"}, Anew(Value("getRegion1"))),
       LeftOver(Shows({"retstr"}, Anew(Value("getCodename"))))>>)

\* The three that summary() and savereport() begin with.
UnitNotes ==
  Note("getSerial", "rawstr") \o Note("getRefurbished", "rawval")
  \o Note("getFirmwareInternal", "rawval")

\* The line on the token stands even if the token has no target; "0" is
\* installed, "1" is uninstalled or deactivated, which does not depend on ret2.
TokenNotes ==
  Note("getNvsQaf", "rawval")
  \o <<When({"holds"}, Shows({"retstr2"}, Inline(Value2("getQATokenTarget")))),
       When({"ret"}, Comparing({"rawval"}, [Blank EXCEPT !.fresh = TRUE, !.tests = {"ret"}])),
       When({"holds"}, Remark)>>

\* "if( ret == -2468 )"
NeverActivated ==
  [Probe("getActivationCountNvs", "rawval") EXCEPT
     !.passes = {"UNEXPECTED DATA"}, !.claim = TRUE]

\* A launch model, a newer SoC, a service center's code, a demo unit.
OriginNotes ==
  AllUnless({"MCEmu"}, AllWhen({"CEX", "VITA"}, Note("getMinFirmware", "rawval"))
                       \o AllWhen({"VITA"}, Note("getSoCRevision", "rawval")))
  \o Note("getPscodeFactory", "rawval") \o Note("getModeIDU", "rawval")

-----------------------------------------------------------------------------
(* The anomalies.                                                          *)

\* A failed read of os0 is not noticed and compared all the same.
SpoofNotes ==
  AllFlawed("stale", Versus("getCurrentFirmware0", "getCurrentFirmware1", "rawval"))
  \o Versus("getConsoleID0", "getConsoleID1", "rawstr")
  \o Versus("getOpenPsid", "getOpenPsidViaIDStorage", "rawstr")
  \o Versus("getRegion0", "getEnterButton", "rawval")

\* "getTouchpanelInfoViaSyscon(..) < 0": the rear touchpad might be broken, or
\* the helper plugins are missing.
RearBroken ==
  Flaw("claim", Marks("broken", [Remark EXCEPT
    !.fresh = TRUE, !.tests = {"value"}, !.passes = Negative,
    !.calls = <<Call("getTouchpanelInfoViaSyscon", "getTouchpanelInfoViaSyscon",
                     "value", "retstr", "rawval")>>]))

\* The three numbers of a panel and those it left the factory with.  The
\* results are added up and tested once, so that two failures may look like
\* none.
Panel ==
  LET Now(local) == Call("getTouchpanelInfoViaSyscon", "panel", "ret", "retstr", local)
      Then(local) == Call("getTouchpanelInfoViaIDStorage", "factory panel", "ret2", "retstr2", local)
  IN AllFlawed("claim", AllFlawed("stale", <<
       [Blank EXCEPT !.fresh = TRUE, !.tests = {"ret", "ret2"}, !.compares = PanelLocals,
          !.calls = <<Now("vid"), Then("vid_"), Added(Now("fw")), Added(Then("fw_")),
                      Added(Now("cfg")), Added(Then("cfg_"))>>],
       When({"holds"}, Remark)>>))

PanelNotes == AllWhen({"VITA"}, <<RearBroken>> \o AllUnless({"broken"}, Panel \o Panel))

FirmwareNotes ==
  AllFlawed("stale", Versus("getCurrentFirmware1", "getPreviousFirmware", "rawval"))
  \o << Comparing({"rawval", "retstr2"}, [Probe("getTarget1", "rawval") EXCEPT
          !.calls = @ \o <<Call("getVersionTxtStringValueForKey", "build", "none", "retstr2", "none")>>]),
        When({"holds"}, Remark) >>

\* The dates differ; or only the NVS has one, and there is no file.
ActivationNotes == AllWhen({"Dev"},
  << Flaw("stale", Compared("getActivationPeriodNvs", "getActivationPeriodDat", "rawval")),
     When({"ret"}, Unless({"holds"}, File("doesFileExist"))), When({"holds"}, Remark) >>
  \o FileNote("doesFileExist"))

\* The loop over the partitions: which one is an entry, and its size if it is
\* ur0 or ux0.  The second test looks at rawval once more, which by then may be
\* the size of ur0.
BlocksOf(local) == Marks(local,
  [Blank EXCEPT !.tests = {"ret"},
     !.calls = <<Call("getMbrPartitionEntry", "n_sectors", "ret", "retstr", "rawval")>>])

PartitionEntry == AllFlawed("stale", <<
  Comparing({"rawval"}, [Probe("getMbrPartitionEntry", "rawval") EXCEPT !.calls[1].fact = "part_id"]),
  When({"holds"}, BlocksOf("ur0blocks")),
  Comparing({"rawval"}, [Blank EXCEPT !.tests = {"ret"}]),
  When({"holds"}, BlocksOf("ux0blocks"))>>)

\* "ur0blocks > 0 && ur0blocks != ..": the numbers kept by the loop.
BlocksNote(local) == <<
  When({local}, Comparing({local}, [Blank EXCEPT !.fresh = TRUE])),
  When({local, "holds"}, Remark)>>

\* A bound: how many of the sixteen partitions, all alike, are asked about.
PartitionsAsked == 3

PartitionNotes ==
  Repeated(PartitionsAsked, PartitionEntry)
  \o AllFlawed("stale", BlocksNote("ur0blocks") \o BlocksNote("ux0blocks"))

\* IDStorage says that there is a wave, or a theme, and the files do not.
Preinstalled(get, does) ==
  << Comparing({"rawval"}, Probe(get, "rawval")),
     When({"found"}, Comparing({"rawval", "result"}, [File(does) EXCEPT !.fresh = FALSE])),
     When({"found", "holds"}, Remark) >>

\* The replaced "near", the demo files, Windows, MacOS (any of three).
TraceNotes ==
  Preinstalled("getPreinstWave", "doesFileExist") \o Preinstalled("getPreinstTheme", "doesDirExist")
  \o FileNote("doesDirExist") \o AllWhen({"MemoryCard"}, FileNote("doesFileExist"))
  \o Repeated(2, FileNote("doesDirExist"))

Anomalies ==
  SpoofNotes \o PanelNotes \o FirmwareNotes \o ActivationNotes \o FileNote("doesDirExist")
  \o PartitionNotes \o TraceNotes

SummaryCells ==
  SummaryGreeting \o UnitNotes \o TokenNotes \o AllWhen({"Dev"}, <<NeverActivated>>)
  \o OriginNotes \o Anomalies

=============================================================================
