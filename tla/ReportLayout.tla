---------------------------- MODULE ReportLayout ----------------------------
(***************************************************************************)
(* The lines of savereport(), in the order it prints them, and when each   *)
(* is printed.  An entry is a run of consecutive logPrintf calls under one *)
(* condition.  The facts of the conditions are:                            *)
(*   - what the kernel says of the device, which cannot fail: "CEX", "DEX" *)
(*     or "Tool", "VITA" or "Dolce", "WWAN", "MCEmu";                      *)
(*   - what a getter finds out (ReportProbed).                             *)
(* "DEX or Tool" is the fact "Development".                                *)
(***************************************************************************)
EXTENDS Sequences

Line(text) == [text |-> text, needs |-> {}, bars |-> {}]
When(needs, text) == [text |-> text, needs |-> needs, bars |-> {}]
Unless(bars, needs, text) == [text |-> text, needs |-> needs, bars |-> bars]

HasBattery(text) == Unless({"Tool"}, {"VITA"}, text)

SpecialLines == <<
  Line("PSVident VERSION"), Line("--------------"),
  When({"prototype"}, "(!) Prototype"),
  When({"refurbished"}, "(!) Refurbished"),
  When({"internal"}, "(!) Internal Firmware"),
  When({"token"}, "(!) QA-Flagged"),
  Unless({"MCEmu"}, {"CEX", "VITA", "minfw100"}, "(!) Launch Model"),
  Unless({"MCEmu"}, {"VITA", "irisVA"}, "(!) New SoC"),
  When({"serviceFactory"}, "(!) Serviced"),
  When({"idu"}, "(!) Demonstration Unit"),
  Line("") >>

OverviewLines == <<
  Line("Model .. Hardware Info"),
  When({"Tool"}, "CP-Board, CP-Board Info"),
  Line("Current Firmware .. ePSP Firmware"),
  Line("Device Serial, Mainboard Serial"),
  When({"Tool"}, "CP-Board Serial"),
  When({"VITA"}, "OLED Serial #1 .. LCD Serial"),
  When({"WWAN"}, "3G Module Info"),
  HasBattery("Battery Serial"),
  Line("Mac Address (Wifi), Mac Address (BT)"),
  When({"Dolce"}, "Mac Address (LAN)"),
  When({"WWAN"}, "IMEI"),
  Line("SoC Revision .. PowerMan Version"),
  HasBattery("USB ChargeMan Ver. .. FuelGauge Param"),
  Line("Bootloader Rev .. ConsoleID"),
  Line("Username .. NP Activated"),
  When({"WWAN"}, "SIM Locked"),
  Line("Demo Mode"),
  When({"DEX"}, "Show Mode"),
  When({"Tool"}, "Development Mode, PSTV Mode"),
  Line("Manufacturing Mode .. System Management Info"),
  When({"Tool"}, "Kit Nickname, CP Timestamp"),
  When({"Development"}, "Activation Status .. Activation Files"),
  Unless({"Dolce"}, {}, "Front Touch Panel .. Motion Sensor"),
  Line("DipSwitches"),
  When({"token"}, "QA Flags, Template"),
  Line("Boot Flags .. PSN Details"),
  When({"wifi"}, "Wifi Profile"),
  Line("\n") >>

AnomalyLines == <<
  Line("Detected Anomlies & Problems:"),
  When({"anomaly"}, "- ..."),
  Line("----") >>

ClosingLines == << Line("vsh.. capabilities"), Line("sceSblQafMgr..") >>

ReportTable == SpecialLines \o OverviewLines \o AnomalyLines \o ClosingLines

ReportProbed == {"prototype", "refurbished", "internal", "token", "minfw100",
                 "irisVA", "serviceFactory", "idu", "wifi", "anomaly"}

=============================================================================
