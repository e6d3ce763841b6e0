---------------------------- MODULE ReportTables -----------------------------
(***************************************************************************)
(* The contents of the lines of savereport(): most have one getter, whose  *)
(* text or error they print.  Which lines there are, and the file they go  *)
(* to, is in the modules ReportLayout and Report.                          *)
(***************************************************************************)
EXTENDS SummaryTables

\* A getter that may return success without its text.
Doubtful(get) == Flaw("stale", Entry(get))

ReportSpecial == UnitNotes \o Note("getNvsQaf", "rawval") \o OriginNotes

\* 999, a model that came in one colour, is no error.
ReportModel ==
  <<Entry("getModelName"), [Doubtful("getModelColor") EXCEPT !.passes = @ \cup {"black"}]>>
  \o Entries(<<"getRegion1", "getTarget1", "getMotherboard", "getHardwareInfo">>)
  \o AllWhen({"Tool"}, Entries(<<"getCpboard", "getCpInfo">>))

\* Two getters in one line, called before anything is printed.
ReportFirmware ==
  << [Doubtful("getCurrentFirmware1") EXCEPT !.calls = @ \o <<Second("getFirmwareInternal", "rawval2")>>],
     [Shows({"retstr2"}, Blank) EXCEPT !.tests = {"ret2"}, !.error = "ret2"],
     Doubtful("getPreviousFirmware"), Entry("getFactoryFirmware"), Entry("getMinFirmware"),
     Doubtful("getPspemuFirmware") >>

ReportSerials ==
  Entries(<<"getSerial", "getKibanId">>) \o AllWhen({"Tool"}, Entries(<<"getCpKibanId">>))
  \o AllWhen({"VITA"}, Entries(<<"getOledSerial1", "getUnknown194", "getLcdSerial">>))
  \o AllWhen({"WWAN"}, Entries(<<"getUnknown120">>))
  \o AllWhen({"VITA"}, AllUnless({"Tool"}, Entries(<<"getBatterySerial">>)))
  \o Entries(<<"getMacAddressWifi", "getMacAddressBluetoothViaIDStorage">>)
  \o AllWhen({"Dolce"}, Entries(<<"getMacAddressLanViaIDStorage">>))
  \o AllWhen({"WWAN"}, Entries(<<"getImeiViaIDStorage">>))

\* The number after the revision is that of getSoCRevision, printed if getSoC
\* succeeds, and read before or after the calls.
ReportChips ==
  << [Entry("getSoCRevision") EXCEPT !.calls = @ \o <<Second("getSoC", "rawval2")>>],
     Flaw("stale", [Shows({"rawval"}, Blank) EXCEPT !.tests = {"ret2"}]) >>
  \o Entries(<<"getBaryonVersion", "getPowerManVersionViaIDStorage">>)
  \o AllWhen({"VITA"}, AllUnless({"Tool"},
       Entries(<<"getUsbChargeManVersionViaIDStorage", "getBatteryVersionHwinfo",
                 "getBatteryVersionFwinfo", "getBatteryVersionDfinfo">>)))
  \o Entries(<<"getBootloaderVersion">>)

ReportIds ==
  <<Fetched("getRegistryBinaryNow", "account_id")>>
  \o Entries(<<"getMtpSerial", "getOpenPsidViaIDStorage", "getConsoleID1",
               "getConsoleIdProductcode1", "getConsoleIdSubcode1", "getConsoleIdFactoryCode1",
               "getConsoleIdSerial1">>)

\* A number of themes that cannot be read is printed as 0.
ReportUser ==
  Entries(<<"getSystemUsername", "getEnterButton", "getNvsLanguage">>)
  \o <<Fetched("getRegistryStringNow", "last_latitude"),
       Fetched("getRegistryStringNow", "last_longitude"), Entry("getUserApps"),
       Silent(Entry("getUserThemes")), Unless({"found"}, Flaw("claim", Remark)),
       Entry("getDateLastFirmwareUpdated"), Fetched("getRegistryBooleanNow", "enable_np")>>

ReportModes ==
  AllWhen({"WWAN"}, Entries(<<"getSimLocked">>)) \o Entries(<<"getModeIDU">>)
  \o AllWhen({"DEX"}, Entries(<<"getModeShow">>))
  \o AllWhen({"Tool"}, Entries(<<"getModeDevelopment", "getModePstvForDevkit">>))
  \o Entries(<<"getModeManufacturing", "getEnso", "getEnsoUninstalled", "getAutoAvls",
               "getDiagnostics", "getRefurbished", "getPreinstWave", "getPreinstTheme">>)

ReportTexts ==
  <<Fetched("getVersionTxtString", "index.dat"), Fetched("getPspemuVersionTxt", "version.txt"),
    Fetched("getSmiString1All", "SMI string 1"), Fetched("getSmiString2All", "SMI string 2")>>

ReportKit ==
  AllWhen({"Tool"}, <<Fetched("getRegistryStringNow", "devkitname"), Entry("getCpTimestamp")>>)
  \o AllWhen({"Dev"},
       Entries(<<"getActivationStatus", "getActivationPeriodNvs", "getActivationCountNvs">>)
       \o <<File("doesFileExist")>>)
  \o AllUnless({"Dolce"},
       Repeated(6, Entries(<<"getTouchpanelInfoViaSyscon">>))
       \o Repeated(2, Entries(<<"getMotionSensorInfoViaIDStorage">>)))

ReportFlags ==
  Repeated(9, Entries(<<"getDipSwitches">>))
  \o <<Comparing({"rawval"}, Probe("getNvsQaf", "rawval"))>>
  \o AllWhen({"holds"}, Entries(<<"getQAFlags", "getQATokenName">>))
  \o Entries(<<"getBootFlags", "getHardwareFlags">>)

\* The date of birth is read without a test.
ReportAccount ==
  LET Text(key) == Fetched("getRegistryStringNow", key)
      Born(key) == Flaw("stale", Fetched("getRegistryIntegerNow_", key))
  IN <<Entry("getSystemUsername"), Fetched("getRegistryBinaryNow", "account_id"),
       Text("login_id"), Text("password"), Born("yob"), Born("mob"), Born("dob"),
       Text("country"), Text("lang")>>

\* A bound: how many of the thirty profiles are asked for.
ProfilesAsked == 3

\* "for( i = 1; i < 0x1F; i++)", without the profiles that are empty.
ReportProfiles == Repeated(ProfilesAsked,
  <<Comparing({"retstr"}, Probe("getRegistryWifiSSID", "none"))>>
  \o AllWhen({"holds"}, Entries(<<"getRegistryWifiSSID", "getRegistryWifiPassword">>)))

ReportCells ==
  ReportSpecial \o ReportModel \o ReportFirmware \o ReportSerials \o ReportChips \o ReportIds
  \o ReportUser \o ReportModes \o ReportTexts \o ReportKit \o ReportFlags \o ReportAccount
  \o ReportProfiles \o Anomalies

=============================================================================
