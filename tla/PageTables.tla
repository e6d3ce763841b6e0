----------------------------- MODULE PageTables -----------------------------
(***************************************************************************)
(* The cells of the pages, in the order of main.c.  A part of a page is at *)
(* most 150 lines of the code long.                                        *)
(***************************************************************************)
EXTENDS ReportTables

\* The columns that are covered in censored mode.
Tail7(column) == column .. column + 6
MaskSerial_Shifted == Tail7(13)  \* a mutant: one column too far
MaskSerial == Tail7(12)          \* of the serial number
MaskConsole == 25 .. 38          \* of the console id
MaskMac == 12 .. 16
MaskBoard == Tail7(18)
MaskTail == 24 .. 31             \* of the OpenPSID and the MTP serial
MaskBattery == 9 .. 19
MaskImei == 10 .. 15
Whole == 0 .. 40

\* What tells this unit, one of its parts or cards, or the account of its owner.
\* Names that people have given (of the user, the network, the kit) and the IP
\* address of the moment are not among it.
Secrets == {"account_id", "login_id", "password", "yob", "mob", "dob", "last_latitude",
            "last_longitude", "parental passcode", "lock passcode", "getRegistryWifiPassword",
            "getConsoleIdSerial0", "getConsoleIdSerial1", "getBatterySerialNumber",
            "getOledSerial1", "getLcdSerial", "getUnknown120", "getUnknown194",
            "id.dat", "gamecard serial", "getGamecardInfo0"}
Addresses == {"getMacAddressWifi", "getMacAddressWifiViaIDStorage",
              "getMacAddressLanViaIDStorage", "getMacAddressBluetoothViaIDStorage"}

\* The columns of a text that do; the serial number is bytes 9 to 11 of the
\* console id, as the page says itself.  What another line or page has left in a
\* global may be any of the secrets, whole.
Crucial(fact) ==
  CASE fact \in Secrets \cup {"old"} -> Whole
    [] fact \in Addresses -> 12 .. 16
    [] fact \in {"getConsoleID0", "getConsoleID1"} -> (22 .. 23) \cup (25 .. 38)
    [] fact \in {"getOpenPsid", "getOpenPsidViaIDStorage"} -> 24 .. 31
    [] fact \in {"getKibanId", "getCpKibanId"} -> 18 .. 24
    [] fact = "getSerial" -> 12 .. 18
    [] fact = "getMtpSerial" -> 21 .. 31
    [] fact = "getBatterySerial" -> 9 .. 19
    [] fact = "getImeiViaIDStorage" -> 10 .. 15
    [] OTHER -> {}

\* A bound: how many lines a text has that is cut up on a page.
TextLines == 5

-----------------------------------------------------------------------------

OverviewAlerts ==
  Alert("getSerial", "rawstr") \o Alert("getRefurbished", "rawval")
  \o Alert("getModeIDU", "rawval") \o Alert("getFirmwareInternal", "rawval")
  \o Alert("getNvsQaf", "rawval")

\* The model may come in a colour that is not in the table; the region prints
\* the result of the call before it.
OverviewModel == <<
  Down(0, Chars("getModelName")),
  Unless({"RAW"}, When({"found"}, LeftOver(Inline(Value2("getModelColor"))))),
  Gap(2),
  Flaw("foreign", [Value2("getRegion1") EXCEPT !.error = "ret"]),
  Down(0, Silent(Value2("getTarget1"))),
  Unless({"found"}, [Inline(Words("getTarget2")) EXCEPT !.error = "ret"]),
  Gap(2),
  Down(0, Value("getMotherboard")),
  When({"found", "Tool"}, Inline(Chars("getCpboard"))),
  Gap(3) >>

\* Of the two sources of the version ret2 alone decides which is shown; after
\* it the text is lengthened, but not printed again.
OverviewFirmware == <<
  [OneOf2("getCurrentFirmware1", "getCurrentFirmware2") EXCEPT
     !.nice = {}, !.raw = {}, !.error = "none", !.down = 0],
  When({"found", "RAW", "ret2"}, Shows({"rawval2"}, Blank)),
  When({"found"}, Unless({"ret2"}, Flaw("stale", [Blank EXCEPT !.nice = {"retstr"}, !.raw = {"rawval"}]))),
  When({"found", "ret2", "Dev"}, Unless({"RAW"},
    Shows({"retstr2", "result"}, Inline(Setting("getVersionTxtStringValueForKey", "build"))))),
  When({"found", "ret2"}, Unless({"RAW", "Dev"}, Flaw("stale",
    Shows({"retstr", "result"}, Inline(Setting("getVersionTxtStringValueForKey", "build")))))),
  When({"found"}, Unless({"RAW"}, Unchecked(Shows({}, Inline(Value("getFirmwareInternal")))))),
  Unless({"found"}, [Value("getCurrentFirmware0") EXCEPT !.line = FALSE, !.down = 0]),
  Gap(2),
  Down(3, Value("getMinFirmware")) >>

OverviewSerial ==
  <<Masked(MaskSerial, Chars("getSerial"))>>
  \o AllFlawed("crucial", Pair("getConsoleID0", "getConsoleID1", "rawstr", MaskConsole, 1))
  \o <<Gap(2)>>

OverviewChips == <<
  Masked(MaskMac, Down(0, Chars("getMacAddressWifi"))),
  When({"found"}, Masked(MaskMac,
    [Inline(Chars("getMacAddressLanViaIDStorage")) EXCEPT
       !.calls = <<Call("getMacAddressLanViaIDStorage", "getMacAddressLanViaIDStorage",
                        "ret", "retstr2", "rawstr2")>>,
       !.nice = {"retstr2"}, !.raw = {"rawstr2"}])),
  Gap(3),
  Value("getSoCRevision"), Value("getHardwareInfo") >>

HardwareBoards ==
  <<Value("getMotherboard"), Masked(MaskBoard, Chars("getKibanId")),
    Down(3, Value("getHardwareInfo"))>>
  \o AllWhen({"Tool"}, <<Flaw("helper", Chars("getCpboard")),
                         Masked(MaskBoard, Chars("getCpKibanId")), Down(3, Chars("getCpInfo"))>>)

HardwareChips == <<
  Value("getSoC"), Value("getSoCDram"), Down(3, Value("getSoCRevision")),
  Value("getBaryonVersion"), Down(3, Number("getBootloaderVersion")),
  Down(3, Value("getEmmcSize")) >>

SoftwareModes == <<
  Setting("getRegistryBooleanNow", "flight_mode"),
  Words("getModeIDU"), Words("getModeDownloader"), Words("getModeManufacturing"),
  Flaw("helper", Silent(Value("getNvsSavemode"))),
  Flaw("helper", Down(4, Silent(Value("getNvsUpdateMode")))) >>

SoftwareDevModes ==
  AllWhen({"DEX"}, <<Right(Words("getModeShow"))>>)
  \o AllWhen({"Tool"}, <<
       Right(Words("getModeDevelopment")), Right(Value("getModeReleaseCheckConsoleForDevkit")),
       Right(Value("getModePstvForDevkit")), Right(Value("getModeMemSizeForDevkit"))>>)

\* The name of the token, if the unit is QA flagged; or that of the token the
\* NVS has, which is not active.
TokenName == AllWhen({"holds"}, <<
  Inline(Words("getQATokenName")),
  Unless({"found"}, [Inline(Words("getQATokenNameViaNvs")) EXCEPT
    !.calls = <<Call("getQATokenNameViaNvs", "getQATokenNameViaNvs", "ret2", "retstr2", "none")>>,
    !.tests = {"ret2"}, !.nice = {"retstr2"}, !.raw = {"retstr2"}])>>)

SoftwareQa ==
  <<Down(1, RawChars("getQAFlags")), Comparing({"rawval"}, Probe("getNvsQaf", "rawval")),
    When({"holds"}, Down(0, Heading))>>
  \o TokenName \o <<Gap(2)>>

\* The first word of the switches is read and tested, then each of them is
\* read without a test.
SwitchWord == LeftOver(Unchecked(Anew(Words("getDipSwitches"))))

SoftwareFlags ==
  <<Down(3, Chars("getBootFlags")), Down(3, Chars("getHardwareFlags")),
    Shows({}, Down(0, Words("getDipSwitches")))>>
  \o AllWhen({"found"}, Repeated(5, <<SwitchWord>>)
                        \o <<Gap(1), Down(0, Heading)>> \o Repeated(4, <<SwitchWord>>))
  \o <<Gap(3)>>

ConsoleIdLine ==
  AllFlawed("crucial", Pair("getConsoleID0", "getConsoleID1", "rawstr", MaskConsole, 1))
  \o <<Gap(2)>>

ConsoleIdCodes ==
  Pair("getConsoleIdProductcode0", "getConsoleIdProductcode1", "rawval", {}, 0) \o <<Gap(2)>>
  \o Pair("getConsoleIdSubcode0", "getConsoleIdSubcode1", "rawval", {}, 0) \o <<Gap(2)>>
  \o Pair("getConsoleIdFactoryCode0", "getConsoleIdFactoryCode1", "rawval", {}, 0) \o <<Gap(2)>>

ConsoleIdSerial ==
  AllUnless({"CENSORED"}, Pair("getConsoleIdSerial0", "getConsoleIdSerial1", "rawval", {}, 0))
  \o <<When({"CENSORED"}, Down(0, Heading)), Gap(4)>>

ConsoleIdPsid ==
  <<Down(3, Chars("getPscode"))>>
  \o Pair("getOpenPsid", "getOpenPsidViaIDStorage", "rawstr", MaskTail, 1) \o <<Gap(3)>>

ConsoleIdAccount ==
  <<Flaw("crucial", Masked(MaskTail, Down(3, Chars("getMtpSerial"))))>>
  \o Secret("getRegistryBinaryNow", "account_id") \o <<Gap(1)>>

FirmwareVersions == <<
  Down(0, Silent(Flaw("stale", Value("getCurrentFirmware1")))),
  Unless({"found"}, [Anew(Value("getCurrentFirmware0")) EXCEPT !.error = "ret"]),
  Gap(2),
  Flaw("stale", Value("getPreviousFirmware")), Chars("getFactoryFirmware"),
  Down(3, Value("getMinFirmware")) >>

FirmwareRight == <<
  Right(Value("getFirmwareInternal")),
  Right(Down(4, Silent(Words("getDateLastFirmwareUpdated")))),
  Right(LeftOver(Value("getPspemuFirmware"))) >>

FirmwareFiles ==
  Lines("getVersionTxtString", "index.dat", TextLines, 1) \o <<Gap(2)>>
  \o Lines("getPspemuVersionTxt", "version.txt", TextLines, 1)

BatteryGauge == <<
  Value("getBatteryPercentage"),
  Flaw("stale", OneOf2("getBatteryRemCapacity", "getBatteryCapacity")),
  Flaw("stale", Value("getBatteryLifeTime")),
  Value("getBatteryTempInCelsius"), Value("getBatteryVoltage"),
  Value("getBatteryCycleCount"), Down(4, Value("getBatteryStateOfHealth")) >>

BatteryCalibration == <<
  Down(0, Shows({"rawval"}, OneOf2("getBatteryCalibrationVoltage", "getBatteryCalibrationCurrent"))),
  When({"found"}, Gap(2)),
  When({"found"}, LeftOver(Shows({"rawval2"}, Down(0, Heading)))),
  Gap(4) >>

\* The serial number once more, in parts that are read again without a test.
BatteryPart(get) == Unless({"RAW"}, LeftOver(Unchecked(Anew(Words(get)))))

BatteryFactory == <<
  Probe("getBatterySerial", "rawstr"),
  When({"found"}, [Down(0, Heading) EXCEPT !.raw = {"retstr"}]),
  When({"found"}, BatteryPart("getBatterySerialModel")),
  When({"found"}, BatteryPart("getBatterySerialDate")),
  When({"found"}, Unless({"CENSORED"}, BatteryPart("getBatterySerialNumber"))),
  When({"found"}, Gap(2)) >>

\* "rawval & 0x20 ? "TRUE" : "FALSE"", with nothing if the state is not known.
UsbBit ==
  Comparing({"rawval"}, [Silent(Shows({}, Value("getUdcdState"))) EXCEPT !.claim = TRUE])

PowerUsb == <<
  Right(Value("getBatteryPowerOnline")), Right(Value("getBatteryCharging")),
  UsbBit, UsbBit, Down(3, UsbBit), Down(5, Value("getUdcdState")),
  Down(3, Value("getPowerManVersionViaIDStorage")) >>

PowerFuelGauge == <<
  Down(3, Value("getUsbChargeManVersionViaIDStorage")), Value("getBatteryVersionHwinfo"),
  Value("getBatteryVersionFwinfo"), Value("getBatteryVersionDfinfo") >>

IdentifiersBoards ==
  <<Masked(MaskSerial, Down(3, Chars("getSerial"))), Heading,
    Masked(MaskBoard, Chars("getKibanId")),
    When({"Tool"}, Masked(MaskBoard, Chars("getCpKibanId")))>>
  \o AllFlawed("crucial", IfFound("getOledSerial1", {}) \o IfFound("getUnknown194", {})
                          \o IfFound("getLcdSerial", {}))

IdentifiersParts ==
  <<Probe("getBatterySerial", "rawstr"),
    When({"found"}, Masked(MaskBattery, Shows({"retstr"}, Heading)))>>
  \o AllFlawed("crucial", IfFound("getUnknown120", {}))
  \o AllWhen({"VITA"}, <<
       Down(0, Words("getTouchpanelInfoViaIDStorage")),
       When({"found"}, Inline(Words("getTouchpanelInfoViaIDStorage"))),
       Gap(2)>>)

IdentifiersMacs ==
  <<Gap(1), Heading>>
  \o IfFound("getMacAddressWifiViaIDStorage", MaskMac)
  \o IfFound("getMacAddressBluetoothViaIDStorage", MaskMac)
  \o AllFlawed("row", IfFound("getMacAddressLanViaIDStorage", MaskMac)) \o <<Gap(1)>>

\* The last rows are off the screen if every part has a serial number.
IdentifiersSmi ==
  AllFlawed("row", AllUnless({"RAW"}, <<
    Flaw("stale", Setting("getSmiString1", "SMI string 9")),
    Flaw("stale", Down(3, Setting("getSmiString1", "SMI string 10")))>>)
    \o AllWhen({"RAW"}, <<Down(3, Setting("getSmiString1All", "SMI string 1")),
                          Setting("getSmiString2All", "SMI string 2")>>))

NetworkWifi == <<
  Chars("getSsid"), Down(3, Chars("getLocalIp")),
  Masked(MaskMac, Chars("getMacAddressWifi")), Chars("getMacAddressWifiOui"),
  Down(3, Value("getWifiRegion")),
  Masked(MaskMac, Chars("getMacAddressBluetoothViaIDStorage")),
  Down(3, Value("getBluetoothRevisionViaIDStorage")) >>

NetworkSim == AllWhen({"WWAN"}, <<
  Masked(MaskImei, Chars("getImeiViaIDStorage")), Value("getSimCarrier"),
  Down(3, Value("getSimLocked"))>>)

MemoryCardFacts ==
  AllWhen({"MemoryCard"}, <<
    Value("getMemCardType"), Chars("getMemCardSize"), Value("getMemCardDate"),
    Value("getMemCardReadonly"), Value("getMemCardSectorSize"), Value("getMemCardFsoffset")>>)
  \o <<Unless({"MemoryCard"}, Heading)>>

MemoryCardId ==
  <<Gap(1)>>
  \o AllUnless({"CENSORED"}, <<Heading>> \o Lines("getIddatString", "id.dat", TextLines, 2))

\* Both sources if they agree, else each with its own test; the second one's
\* error is error(ret), too.
TouchRow == <<
  [Both2("getTouchpanelInfoViaSyscon", "getTouchpanelInfoViaIDStorage") EXCEPT
     !.compares = {"retstr", "retstr2"}, !.nice = {}, !.raw = {}, !.error = "none", !.down = 0],
  When({"holds"}, Shows({"retstr"}, Blank)),
  Unless({"holds"}, [Shows({"retstr"}, Blank) EXCEPT !.tests = {"ret"}, !.error = "ret"]),
  Unless({"holds"}, Flaw("foreign",
    [Shows({"retstr2"}, Blank) EXCEPT !.tests = {"ret2"}, !.error = "ret"])),
  Gap(2) >>

TouchRows == Repeated(2, <<Heading>> \o Repeated(3, TouchRow) \o <<Gap(1)>>)

TouchMotion ==
  AllWhen({"VITA"}, <<Heading, Words("getMotionSensorInfoViaIDStorage"),
                      Words("getMotionSensorInfoViaIDStorage")>>)
  \o <<Unless({"VITA"}, Heading)>>

ActivationAccount ==
  <<Down(3, Setting("getRegistryBooleanNow", "enable_np")), Chars("getSystemUsername")>>
  \o Secret("getRegistryBinaryNow", "account_id") \o Secret("getRegistryStringNow", "login_id")
  \o Secret("getRegistryStringNow", "password")
  \o AllUnless({"CENSORED"}, Positive("yob", <<"yob", "mob", "dob">>))
  \o <<When({"CENSORED"}, Heading), Setting("getRegistryStringNow", "country"),
       Setting("getRegistryStringNow", "lang")>>

\* The second source only colours the line.
Coloured(get, get2) == [OneOf2(get, get2) EXCEPT !.nice = {"retstr"}, !.raw = {"rawval"}]

\* "Present" if both files are there; the second is looked for if the first is.
ActivationFiles == <<
  [File("doesFileExist") EXCEPT !.line = TRUE], When({"holds"}, File("doesFileExist")),
  Down(2, Remark) >>

ActivationDev == AllWhen({"Dev"}, <<
  Gap(2), Flaw("stale", Value("getActivationStatus")),
  Coloured("getActivationPeriodNvs", "getActivationPeriodDat"),
  Coloured("getActivationCountNvs", "getActivationCountDat")>> \o ActivationFiles)

WifiProfiles ==
  Repeated(13, <<
    Down(0, Words("getRegistryWifiSSID")),
    [Anew(Words("getRegistryWifiPassword")) EXCEPT !.error = "ret", !.mask = Whole, !.down = 2]>>)
  \o <<Heading>>

GamecardTitle == AllWhen({"mounted"}, <<
  Words("getParamValue"), Shows({"retstr", "retstr2"}, Both2("getParamValue", "getParamValue")),
  Words("getParamValue"), Both2("getDeviceInfo", "getDeviceInfo"),
  Silent(Both2("getDeviceInfo", "getDeviceInfo")),
  Down(4, Silent(Flaw("stale", Value("getPupVersion"))))>>)

\* The second getter of the CSD is not tested.
GamecardRegisters == AllWhen({"mounted"}, <<
  Flaw("crucial", Words("getGamecardInfo0")),
  Down(3, LeftOver(Shows({"retstr", "retstr2"}, OneOf2("getGamecardInfo1", "getGamecardInfo"))))>>)

GamecardNumbers == AllWhen({"mounted"}, <<
  Value("getGamecardInfo"), Value("getGamecardInfo"),
  Masked(Whole, [Value("getGamecardInfo") EXCEPT !.calls[1].fact = "gamecard serial"]),
  Value("getGamecardInfo"),
  Right(Words("getGamecardInfo14")), Right(Value("getGamecardInfo")),
  Right(Value("getGamecardInfo")), Right(Value("getGamecardInfo"))>>)

GamecardMounted == Marks("mounted",
  [Blank EXCEPT !.fresh = TRUE, !.tests = {"value"},
                !.calls = <<Call("getGamecardMounted", "getGamecardMounted", "value", "retstr", "none")>>])

\* A row of the table: the entry is asked whether it is there, which ends the
\* loop, and then for its six members, without a test.
PartitionRow(flaws) ==
  <<Flaw("stale", Comparing({"rawval"}, Probe("getMbrPartitionEntry", "rawval"))),
    When({"holds"}, [Down(0, Heading) EXCEPT !.flaws = flaws])>>
  \o AllWhen({"holds"},
       Repeated(6, <<LeftOver(Unchecked(Anew(Value("getMbrPartitionEntry"))))>>) \o <<Gap(2)>>)

\* The fifteenth row asks for the row 34.
Partitions ==
  PartitionRow({}) \o AllWhen({"holds"}, Repeated(13, PartitionRow({})))
  \o AllWhen({"holds"}, Repeated(2, PartitionRow({"row"})))

\* A number of themes that cannot be read is shown as 0.
LiveareaContents == <<
  Number("getUserApps"),
  Down(0, Silent(Number("getUserThemes"))),
  Unless({"found"}, Flaw("claim", [Claim EXCEPT !.line = FALSE, !.down = 0])), Gap(3),
  Setting("getRegistryBooleanNow", "wallpaper"), Setting("getRegistryStringNow", "current_theme"),
  Value("getWaveColor"), Value("getPreinstWave"), Down(3, Value("getPreinstTheme")) >>

LiveareaSettings ==
  <<Value("getEnterButton"), Flaw("helper", Silent(Value("getNvsLanguage")))>>
  \o Positive("brightness", << >>)
  \o <<When({"found"}, Unless({"RAW"}, Flaw("stale", Inline(Setting("getRegistryIntegerNow_", "brightness"))))),
       When({"found", "RAW"}, Inline(Setting("getRegistryIntegerNow", "brightness"))),
       Setting("getRegistryIntegerNow", "main_volume"), Setting("getRegistryBooleanNow", "avls"),
       Down(3, Value("getAutoAvls"))>>

RegistryDev ==
  <<When({"Tool"}, Setting("getRegistryStringNow", "devkitname")),
    When({"Dev"}, Setting("getRegistryIntegerNow", "dump_level")),
    When({"Dev"}, Down(3, Setting("getRegistryBooleanNow", "fake_3g_if")))>>

RegistryPrivate ==
  <<Setting("getRegistryIntegerNow", "language"),
    Setting("getRegistryBooleanNow", "use_debug_settings"),
    Setting("getRegistryBooleanNow", "usb_charge_enable")>>
  \o Secret("getRegistryStringNow", "last_latitude")
  \o Secret("getRegistryStringNow", "last_longitude")
  \o <<Setting("getRegistryIntegerNow", "counter")>>
  \o Secret("getRegistryStringNow", "parental passcode")
  \o Secret("getRegistryStringNow", "lock passcode")

\* The last rows of a development or demo unit are off the screen.
RegistryRest ==
  AllUnless({"Tool"}, <<Setting("getRegistryIntegerNow", "psp_first_boot"),
                        Setting("getRegistryIntegerNow", "ps1_first_boot")>>)
  \o <<Setting("getRegistryIntegerNow", "suspend_interval"),
       When({"Dolce"}, Setting("getRegistryIntegerNow", "controller_off_interval")),
       Flaw("row", Setting("getRegistryIntegerNow", "dimming_interval")),
       When({"IDU"}, Gap(1)),
       When({"IDU"}, Flaw("row", Setting("getRegistryIntegerNow", "idu_video_latency"))),
       When({"IDU"}, Flaw("row", Setting("getRegistryStringNow", "contents_dl_url")))>>

Clock(get) == Flaw("stale", Unchecked(Down(3, Value(get))))
Clocks == <<
  Clock("getClockArm"), Clock("getClockBus"), Clock("getClockGpu"), Clock("getClockGpuXbar")>>

DebugControl == <<Heading>> \o Repeated(26, <<Switch>>)
ShellFlags == <<Right(Heading)>> \o Repeated(6, <<Right(Switch)>>)
SystemControl == <<Right(Gap(3)), Right(Heading)>> \o Repeated(14, <<Right(Switch)>>)

\* "NO_FLAGS" is also what a failed read of the NVS looks like.
QaTemplate ==
  <<Words("getQAFlags"),
    Flaw("helper", Down(0, Comparing({"rawval"}, Silent(Shows({}, Value("getNvsQaf"))))))>>
  \o TokenName
  \o <<Unless({"holds"}, Flaw("claim", [Claim EXCEPT !.line = FALSE])),
       When({"holds"}, Gap(2)), Value("getNvsQaf")>>

\* The lines of the flags that are set; the twelfth asks for the row 35.
QaLines == Repeated(11, FlagLine) \o AllFlawed("row", FlagLine)

MiscellaneousEnso == <<
  Value("getRefurbished"), Value("getDiagnostics"), When({"Tool"}, Value("getCpTimestamp")),
  Gap(1), Down(0, Value("getEnso")),
  When({"found"}, Unless({"RAW"},
    Comparing({"rawval", "rawval2"}, Shows({}, Inline(Value2("getEnsoUninstalled")))))),
  When({"holds"}, [Claim EXCEPT !.line = FALSE, !.down = 0]), Gap(3) >>

MiscellaneousBoot == <<
  LeftOver(Down(3, Value("getCodename"))), Down(3, Number("getBootTypeIndicator1")),
  Number("getWakeupReqFactor"), Down(3, Number("getWakeupFactor")), Value("getNvsExtraUart") >>

-----------------------------------------------------------------------------
(* The pages and where they begin.                                         *)

Table == [
  overview |-> OverviewAlerts \o OverviewModel \o OverviewFirmware \o OverviewSerial
               \o OverviewChips,
  hardware |-> HardwareBoards \o HardwareChips,
  software |-> SoftwareModes \o SoftwareDevModes \o SoftwareQa \o SoftwareFlags,
  consoleid |-> ConsoleIdLine \o ConsoleIdCodes \o ConsoleIdSerial \o ConsoleIdPsid
                \o ConsoleIdAccount,
  firmware |-> FirmwareVersions \o FirmwareRight \o FirmwareFiles,
  battery |-> BatteryGauge
              \o AllUnless({"Dolce", "Tool"}, BatteryCalibration \o BatteryFactory),
  power |-> PowerUsb \o AllUnless({"Dolce", "Tool"}, PowerFuelGauge),
  identifiers |-> IdentifiersBoards \o IdentifiersParts \o IdentifiersMacs \o IdentifiersSmi,
  threegee |-> NetworkWifi \o NetworkSim,
  memorycard |-> MemoryCardFacts \o MemoryCardId,
  touchpanel |-> AllWhen({"VITA"}, TouchRows) \o TouchMotion,
  activation |-> ActivationAccount \o ActivationDev,
  wifiprofiles |-> WifiProfiles,
  gamecard |-> <<GamecardMounted>> \o GamecardTitle \o GamecardRegisters \o GamecardNumbers
               \o <<Unless({"mounted"}, Heading)>>,
  partitions |-> Partitions,
  livearea |-> LiveareaContents \o LiveareaSettings,
  registry |-> RegistryDev \o RegistryPrivate \o RegistryRest,
  clocks |-> Clocks,
  dipswitches |-> DebugControl \o ShellFlags \o SystemControl,
  qaflags |-> QaTemplate \o QaLines,
  miscellaneous |-> MiscellaneousEnso \o MiscellaneousBoot,
  summary |-> SummaryCells,
  report |-> ReportCells]

\* The first row of the left side, and of the right one if the page has it.
Start(p) == [left |-> 6, right |-> CASE p = "overview" -> 1
                                     [] p = "gamecard" -> 25
                                     [] OTHER -> 6]
=============================================================================
