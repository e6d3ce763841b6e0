------------------------------ MODULE Getters -------------------------------
(***************************************************************************)
(* The getters of psvident.c as their callers see them: every way a call   *)
(* may end.  An outcome says what the call returns and what it leaves in   *)
(* its two outputs (the text and the raw form, a number or a string):      *)
(*   "own"    the fact that was asked for,                                 *)
(*   "left"   nothing was written: whatever was there before,              *)
(*   "junk"   memory nobody wrote, since a failed read is not noticed,     *)
(*   "kept"   what the getter itself has said the last time,               *)
(*   "other"  a text, but not the fact: "unknown", "error" or a zero,      *)
(*   "code"   the error code, taken for the fact.                          *)
(* The call returns "ok" for anything that is not negative, and otherwise  *)
(* "system", the code of the call that failed, or one of its own codes.    *)
(* A getter with a parameter has an entry for each value that matters.     *)
(***************************************************************************)
EXTENDS Naturals

LOCAL INSTANCE TLC

Outcome(code, str, raw) == [ret |-> code, str |-> str, raw |-> raw]

Both == Outcome("ok", "own", "own")
TextOnly == Outcome("ok", "own", "left")
Unwritten == Outcome("ok", "left", "left")
Junk == Outcome("ok", "junk", "junk")
Unknown == Outcome("ok", "other", "own")      \* the value, and "unknown" as text
Wrong == Outcome("ok", "other", "other")

Fails(code) == Outcome(code, "left", "left")
Failed == Fails("system")
Cleared == Outcome("system", "other", "other") \* empties its outputs first
Written == Outcome("system", "code", "code")  \* formats the code, then returns it

\* A mutant: the missing helper is an error like any other.
NoHelper_Unnamed == Fails("custom")

\* The application's own codes; message() has a name for the first three.
NoHelper == Fails("NO HELPER")                \* -1111
NoData == Fails("NO DATA")                    \* -1234
Unexpected == Fails("UNEXPECTED DATA")        \* -2468
Custom == Fails("custom")                     \* -1, -42, -43 ..

\* A getter, with the helper plugins loaded and without them.
Getter(loaded, missing) == [loaded |-> loaded, missing |-> missing]

\* Needs nothing but the system.
Asks(outcomes) == Getter(outcomes, outcomes)
Plain == Asks({Both, Failed})
Leaf == Asks({Both, Failed, NoData})          \* a leaf of IDStorage may be empty

\* "if( kernmode ) .. else return -1111"
Helper(outcomes) == Getter(outcomes, {NoHelper})
Helped == Helper({Both, Failed})

\* A function that returns a text of its own instead of a result.
Text(outcomes) == Asks({Outcome("text", str, "left") : str \in outcomes})
TextOrError == Text({"own", "other"})

-----------------------------------------------------------------------------
(* Switches, texts of the registry and of files.                           *)

\* The error code is returned in place of the switch.
SwitchGetters == [
  GetDipsw |-> Helper({TextOnly, Failed}), GetQAFlag |-> Helper({TextOnly, Failed})]

RegistryGetters == [
  getRegistryStringNow |-> TextOrError, getRegistryBinaryNow |-> TextOrError,
  getRegistryIntegerNow |-> TextOrError, getRegistryBooleanNow |-> TextOrError,
  getRegistryIntegerNow_ |-> Asks({TextOnly, Outcome("system", "code", "left")})]

\* A part that is not there leaves the static string of the part before; "All"
\* is the whole text, part -1.
SmiGetters == [
  getSmiString1 |-> Text({"own", "other", "kept"}), getSmiString1All |-> TextOrError,
  getSmiString2 |-> Text({"own", "other", "kept"}), getSmiString2All |-> TextOrError]

VersionTextGetters == [
  getVersionTxtString |-> TextOrError, getVersionTxtStringValueForKey |-> TextOrError]
IddatGetters == [getIddatString |-> TextOrError]
PspemuTextGetters == [getPspemuVersionTxt |-> TextOrError]

-----------------------------------------------------------------------------
(* Firmware, serial and model.                                             *)

\* 1 and getPreviousFirmware ignore the result of the read of os0.
FirmwareGetters == [
  getCurrentFirmware0 |-> Plain, getCurrentFirmware1 |-> Asks({Both, Failed, Junk}),
  getCurrentFirmware2 |-> Asks({Both, Custom})]
SerialGetters == [
  getSerial |-> Plain, getRefurbished |-> Plain,
  getPreviousFirmware |-> Asks({Both, Failed, Junk})]

\* "black": 999, the model came in one colour only.  A model that the table
\* does not have is not noticed.
ModelGetters == [getModelCode |-> Plain, getModelName |-> Plain]
ColorGetters == [
  getModelColor |-> Asks({Both, Outcome("black", "own", "own"), Unwritten, Failed})]

RegionGetters == [
  getRegionForDev |-> Asks({TextOnly, Failed, Unexpected}),
  getRegion0 |-> Asks({Both, Unknown, Failed, Outcome("UNEXPECTED DATA", "left", "own"),
                       Outcome("system", "left", "own")}),
  getRegion1 |-> Asks({Both, Unknown, Failed, Outcome("UNEXPECTED DATA", "left", "own"),
                       Outcome("system", "left", "own")})]

\* 2 asks the shell which kind of unit it is and has no number to give.
TargetGetters == [
  getTarget0 |-> Asks({Both, Unknown, Failed}), getTarget1 |-> Asks({Both, Unknown, Failed}),
  getTarget2 |-> Asks({Outcome("ok", "own", "other"), Wrong})]

BoardGetters == [
  getMotherboard |-> Plain, getCpboard |-> Getter({Both, Failed}, {Custom})]
FirstFirmwareGetters == [
  getMinFirmware |-> Plain,
  getFactoryFirmware |-> Asks({Both, Outcome("ok", "own", "other"), Failed, Custom})]

-----------------------------------------------------------------------------
(* Identifiers.  0 is the current one, 1 the copy in IDStorage.            *)

ConsoleIdGetters == [
  getConsoleID0 |-> Plain, getConsoleID1 |-> Plain,
  getConsoleIdCompanycode0 |-> Plain, getConsoleIdCompanycode1 |-> Plain]
ConsoleIdProductGetters == [
  getConsoleIdProductcode0 |-> Plain, getConsoleIdProductcode1 |-> Plain,
  getConsoleIdSubcode0 |-> Plain, getConsoleIdSubcode1 |-> Plain]
ConsoleIdSerialGetters == [
  getConsoleIdChassis0 |-> Plain, getConsoleIdChassis1 |-> Plain,
  getConsoleIdFactoryCode0 |-> Plain, getConsoleIdFactoryCode1 |-> Plain,
  getConsoleIdSerial0 |-> Plain, getConsoleIdSerial1 |-> Plain]

MacGetters == [
  getMacAddressWifi |-> Plain, getMacAddressWifiOui |-> Plain,
  getMacAddressWifiViaIDStorage |-> Leaf,
  getMacAddressLan |-> Asks({Custom}), getMacAddressLanViaIDStorage |-> Leaf,
  getMacAddressBluetooth |-> Plain, getMacAddressBluetoothViaIDStorage |-> Leaf]

\* A failed read of the NVS comes back as zeros and "ok" (module Helper).
Nvs == Helper({Both, Wrong, Failed})

ChipGetters == [
  getSoCRevision |-> Helped, getSoC |-> Helped, getSoCDram |-> Helped,
  getHardwareInfo |-> Plain, getHardwareInfoViaIDStorage |-> Plain]
KibanGetters == [
  getKibanId |-> Nvs, getCpKibanId |-> Leaf, getCpInfo |-> Helped,
  getCpTimestamp |-> Helped]
PsidGetters == [
  getOpenPsid |-> Plain, getOpenPsidViaIDStorage |-> Plain, getPscode |-> Plain,
  getPscodeFactory |-> Plain]

-----------------------------------------------------------------------------
(* What the kernel side knows.                                             *)

\* A sector without the magic of an MBR is not noticed; the last part of an
\* entry is its number, 0 when there are no more.
MbrGetters == [
  getEmmcSize |-> Helper({Both, Failed, Wrong}),
  getMbrPartitionEntry |-> Helper({Both, Failed, Unwritten}),
  getEnso |-> Helped, getEnsoUninstalled |-> Helped]

KblGetters == [
  getMtpSerial |-> Asks({Both, Cleared}), getBaryonVersion |-> Helped,
  getBaryonTimestamp |-> Helped, getBootloaderVersion |-> Helped,
  getDipSwitches |-> Helped]

FlagGetters == [
  getBootFlags |-> Helped, getHardwareFlags |-> Helped, getQAFlags |-> Helped,
  getQATokenName |-> Asks({TextOnly, Failed}),
  getQATokenNameViaNvs |-> Helper({TextOnly, Unexpected}),
  getQATokenTarget |-> Helper({Both, Wrong, Failed, Cleared,
                              Outcome("UNEXPECTED DATA", "other", "other")})]

WakeupGetters == [
  getBootTypeIndicator1 |-> Helped, getWakeupFactor |-> Helped,
  getWakeupReqFactor |-> Helped, getEnterButton |-> Plain, getSystemUsername |-> Plain]

PanelGetters == [
  getTouchpanelInfoViaSyscon |-> Helped, getTouchpanelInfoViaIDStorage |-> Plain,
  getMotionSensorInfoViaIDStorage |-> Plain]

\* A failure of the activation check is shown as one more status; the
\* length of act.dat is not looked at.
ActivationGetters == [
  getActivationStatus |-> Helper({Both, Outcome("ok", "other", "code")}),
  getActivationPeriodNvs |-> Helper({Both, Failed, NoData}),
  getActivationPeriodDat |-> Asks({Both, Failed, Junk}),
  getActivationCountNvs |-> Helper({Both, Failed, NoData}),
  getActivationCountDat |-> Asks({Both, Failed, Junk})]

-----------------------------------------------------------------------------
(* Memory card and battery.                                                *)

MemCardGetters == [
  getMemCardType |-> Plain, getMemCardSize |-> Plain, getMemCardDate |-> Plain,
  getMemCardFsoffset |-> Plain, getMemCardSectorSize |-> Plain,
  getMemCardReadonly |-> Plain]

BatteryVersionGetters == [
  getBatteryVersionHwinfo |-> Helped, getBatteryVersionFwinfo |-> Helped,
  getBatteryVersionDfinfo |-> Helped]

BatterySerialGetters == [
  getBatterySerial |-> Leaf, getBatterySerialDate |-> Leaf,
  getBatterySerialModel |-> Leaf, getBatterySerialNumber |-> Leaf]

\* All of these write their outputs and return the value, so a negative
\* value is the only error; a code times 60 need not be negative.
GaugeGetters == [
  getBatteryCalibrationVoltage |-> Plain, getBatteryCalibrationCurrent |-> Plain,
  getBatteryCharging |-> Asks({Both, Written}), getBatteryPowerOnline |-> Asks({Both, Written}),
  getBatteryCycleCount |-> Asks({Both, Written}),
  getBatteryTempInCelsius |-> Asks({Both, Written}),
  getBatteryStateOfHealth |-> Asks({Both, Written}),
  getBatteryPercentage |-> Asks({Both, Written}), getBatteryVoltage |-> Asks({Both, Written}),
  getBatteryCapacity |-> Asks({Both, Written}), getBatteryRemCapacity |-> Asks({Both, Written}),
  getBatteryLifeTime |-> Asks({Both, Written, Outcome("ok", "code", "code")})]

-----------------------------------------------------------------------------
(* Modes, network, settings.                                               *)

ModeGetters == [
  getModeIDU |-> Plain, getModeShow |-> Plain, getModeDownloader |-> Plain,
  getModeDevelopment |-> Plain, getModeDevelopmentViaDip |-> Helped,
  getModeManufacturing |-> Helped, getModePstvForDevkit |-> Helped,
  getModeMemSizeForDevkit |-> Helped, getModeReleaseCheckConsoleForDevkit |-> Helped]

InternalGetters == [getFirmwareInternal |-> Asks({Both, Failed, Unexpected, NoData})]

\* A file that cannot be opened, for whatever reason, is not there.
FileTests == [doesFileExist |-> Text({"own"}), doesDirExist |-> Text({"own"})]

\* Without a connection the text is "not connected".
NetworkGetters == [
  getRegistryWifiSSID |-> Asks({TextOnly, Failed}),
  getRegistryWifiPassword |-> Asks({TextOnly, Failed}), getWifiRegion |-> Plain,
  getLocalIp |-> Asks({Both, Wrong, Written}), getSsid |-> Asks({Both, Wrong, Written})]

SimGetters == [
  getSimLocked |-> Leaf, getSimCarrier |-> Plain, getImeiViaIDStorage |-> Leaf,
  getTestIccidViaIDStorage |-> Leaf]

ThemeGetters == [
  getAutoAvls |-> Plain, getWaveColor |-> Plain, getPreinstWave |-> Plain,
  getPreinstTheme |-> Plain, getDiagnostics |-> Plain]
PartGetters == [
  getOledSerial1 |-> Leaf, getUnknown120 |-> Leaf, getUnknown194 |-> Leaf,
  getLcdSerial |-> Leaf]

\* A hardware revision that the table does not have is not noticed.
CodenameGetters == [
  getCodename |-> Asks({Both, Outcome("ok", "left", "own"), Failed}),
  getUserApps |-> Plain, getUserThemes |-> Plain]

-----------------------------------------------------------------------------
(* Devices, game card, clocks, NVS.                                        *)

\* getPupVersion empties its text before it opens the file.
FileGetters == [
  getDeviceInfo |-> Asks({Both, Outcome("system", "other", "left")}),
  getPupVersion |-> Asks({Both, Outcome("system", "other", "left"),
                          Outcome("NO DATA", "other", "left"), Outcome("ok", "other", "left")}),
  getParamValue |-> Asks({Both, Outcome("ok", "other", "left"), Failed, NoData}),
  getGamecardMounted |-> Asks({TextOnly, Outcome("system", "other", "left")})]

GamecardGetters == [
  getGamecardInfo0 |-> Helper({TextOnly, Failed}), getGamecardInfo1 |-> Helper({TextOnly, Failed}),
  getGamecardInfo14 |-> Helper({TextOnly, Failed}), getGamecardInfo |-> Helper({Both, Failed})]

\* The cable that cannot be asked is not noticed.
UdcdGetters == [
  getPspemuFirmware |-> Asks({Both, Failed, Unwritten}), getUdcdState |-> Plain,
  getUdcdDevInfo |-> Asks({TextOnly, Unwritten})]

RevisionGetters == [
  getBluetoothRevisionViaIDStorage |-> Plain, getSysconRevisionViaIDStorage |-> Plain,
  getPowerManVersionViaIDStorage |-> Plain, getUsbChargeManVersionViaIDStorage |-> Plain]

\* "return 0" whatever the system said of its clocks.
Asserted == Asks({Both, Outcome("ok", "code", "code")})
ClockGetters == [
  getClockArm |-> Asserted, getClockGpu |-> Asserted, getClockGpuXbar |-> Asserted,
  getClockBus |-> Asserted, getClockTimebase |-> Asks({TextOnly, Custom}),
  getDateLastFirmwareUpdated |-> Asks({TextOnly, Custom})]

NvsGetters == [
  getNvsQaf |-> Nvs, getNvsExtraUart |-> Nvs, getNvsSavemode |-> Nvs,
  getNvsUpdateMode |-> Nvs, getNvsLanguage |-> Nvs]

Getters ==
  SwitchGetters @@ RegistryGetters @@ SmiGetters @@ VersionTextGetters @@ IddatGetters
  @@ PspemuTextGetters @@ FirmwareGetters @@ SerialGetters @@ ModelGetters @@ ColorGetters
  @@ RegionGetters @@ TargetGetters @@ BoardGetters @@ FirstFirmwareGetters
  @@ ConsoleIdGetters @@ ConsoleIdProductGetters @@ ConsoleIdSerialGetters @@ MacGetters
  @@ ChipGetters @@ KibanGetters @@ PsidGetters @@ MbrGetters @@ KblGetters @@ FlagGetters
  @@ WakeupGetters @@ PanelGetters @@ ActivationGetters @@ MemCardGetters
  @@ BatteryVersionGetters @@ BatterySerialGetters @@ GaugeGetters @@ ModeGetters
  @@ InternalGetters @@ NetworkGetters @@ SimGetters @@ ThemeGetters @@ PartGetters
  @@ CodenameGetters @@ FileGetters @@ GamecardGetters @@ UdcdGetters
  @@ FileTests @@ RevisionGetters @@ ClockGetters @@ NvsGetters

\* A call ends in one of these ways; "helper" is kernmode.
Outcomes(get, helper) ==
  IF helper THEN Getters[get].loaded ELSE Getters[get].missing

\* message() outside of raw mode: a text for few codes, "ERROR" for the rest.
Named == {"NO HELPER", "NO DATA", "UNEXPECTED DATA"}
Message(code) == IF code \in Named THEN code ELSE "ERROR"

\* The facts nobody but the helper plugins can read; the game card's serial is
\* one of its numbers.
HelperFacts ==
  {g \in DOMAIN Getters : Getters[g].missing # Getters[g].loaded} \cup {"gamecard serial"}

=============================================================================
