------------------------------- MODULE Helper -------------------------------
(***************************************************************************)
(* The kernel plugin (plugin/kernel.c) as the getters of the application   *)
(* use it, one system call at a time: reading the NVS under the signals    *)
(* that acquire and free it, reading sectors of the eMMC, and asking other *)
(* kernel modules.  Its buffers are static: they outlive the call, and the *)
(* application, until the console is started again.                        *)
(*                                                                         *)
(* The user plugin passes every call on as it is, and a getter calls only  *)
(* if the helper is loaded (kernmode), so both are left out here.          *)
(***************************************************************************)
EXTENDS Integers

CONSTANTS
  Offsets,    \* the offsets of the NVS that getters read
  MaxFaults   \* bound: how many calls into the system fail

ASSUME HelperAssumption == "QAF" \in Offsets /\ MaxFaults \in Nat

VARIABLES
  truth,      \* the device: token (byte 0x480), enso (a real MBR at 0x200)
  pc,         \* where in the system call; "user" outside of one
  call,       \* the call that runs or ran last
  offset,     \* the offset of the NVS it asks for
  entered,    \* 1: ENTER_SYSCALL was not undone by EXIT_SYSCALL
  acquired,   \* how often the NVS is acquired and not freed
  fds,        \* the kernel's open descriptors of the eMMC
  resolved,   \* "yes": the addresses of the three functions are known
  knvs,       \* the static buffer of nvs_Get: "zero" or an offset
  lokalmaster,\* the static buffer of mbr_Get: "zero" or "mbr"
  master,     \* the static buffer of CheckEnso: "zero", "real" or "part"
  ret,        \* the result of the call: 0 or negative
  answer,     \* what was copied to the application
  mbrRead,    \* observer: "yes" once mbr_Get has read the sector
  faults      \* how many calls have failed

staticVars == <<resolved, knvs, lokalmaster, master>>
heldVars == <<entered, acquired, fds>>
vars == <<truth, pc, call, offset, heldVars, staticVars, ret, answer, mbrRead,
          faults>>

SectorCalls == {"mbr_Get", "CheckEnso"}

\* Calls that ask one other module and return its error without EXIT_SYSCALL.
AskingCalls == {"BtGetRegisteredInfo", "GetTouchpanelDeviceInfo",
                "GetTouchpanelDeviceInfo2", "sdifgetcontextmmc"}

\* detect_plugins leaves by "goto err"; the others look at no result.
TidyCalls == {"detect_plugins", "kblparam_GetBuffer"}

Calls == SectorCalls \cup AskingCalls \cup TidyCalls \cup {"nvs_Get"}

Fault == faults < MaxFaults /\ faults' = faults + 1
NoFault == UNCHANGED faults

InitStatic ==
  /\ resolved = "no"
  /\ knvs = "zero" /\ lokalmaster = "zero" /\ master = "zero"

Init ==
  /\ truth \in [token : {"enabled", "disabled"}, enso : {"TRUE", "FALSE"}]
  /\ pc = "user"
  /\ call = "none"
  /\ offset \in Offsets
  /\ entered = 0 /\ acquired = 0 /\ fds = 0
  /\ InitStatic
  /\ ret = 0
  /\ answer = "none"
  /\ mbrRead = "no"
  /\ faults = 0

-----------------------------------------------------------------------------
(* The call and its return.                                                *)

\* Mutants: the buffer of the NVS is not cleared; that of the MBR is.
Call_NoMemset ==
  /\ pc = "user"
  /\ call' \in Calls
  /\ offset' \in Offsets
  /\ entered' = 1
  /\ answer' = "none"
  /\ pc' = CASE call' = "nvs_Get" -> "lookup"
             [] call' \in SectorCalls -> "open"
             [] call' \in AskingCalls \cup TidyCalls -> "ask"
  /\ UNCHANGED <<truth, acquired, fds, staticVars, ret, mbrRead, faults>>

Call_ClearsMbr ==
  /\ pc = "user"
  /\ call' = "mbr_Get"
  /\ entered' = 1
  /\ answer' = "none"
  /\ lokalmaster' = "zero"
  /\ pc' = "open"
  /\ UNCHANGED <<truth, offset, acquired, fds, resolved, knvs, master, ret, mbrRead,
                 faults>>

Call ==
  /\ pc = "user"
  /\ call' \in Calls
  /\ offset' \in Offsets
  /\ entered' = 1
  /\ answer' = "none"
  /\ knvs' = IF call' = "nvs_Get" THEN "zero" ELSE knvs   \* memset(knvs, 0, ..)
  /\ pc' = CASE call' = "nvs_Get" -> "lookup"
             [] call' \in SectorCalls -> "open"
             [] call' \in AskingCalls \cup TidyCalls -> "ask"
  /\ UNCHANGED <<truth, acquired, fds, resolved, lokalmaster, master, ret, mbrRead,
                 faults>>

\* EXIT_SYSCALL; return code.
Exit(code) ==
  /\ entered' = 0
  /\ ret' = code
  /\ pc' = "user"

-----------------------------------------------------------------------------
(* k_psvident_nvs_Get.  "unsigned int ret" is never negative, so none of   *)
(* its four error branches is ever taken.                                  *)

\* The pointers are globals (common.h), written only by a look-up that succeeds.
\* A mutant: each is set to NULL before it is looked up again.
Lookup_Forgets ==
  /\ pc = "lookup"
  /\ \/ resolved' = "yes" /\ NoFault
     \/ resolved' = "no" /\ Fault
  /\ pc' = IF resolved' = "yes" THEN "acquire" ELSE "panic"
  /\ UNCHANGED <<truth, call, offset, heldVars, knvs, lokalmaster, master, ret,
                 answer, mbrRead>>

Lookup ==
  /\ pc = "lookup"
  /\ \/ resolved' = "yes" /\ NoFault
     \/ resolved' = resolved /\ Fault
  /\ pc' = IF resolved' = "yes" THEN "acquire" ELSE "panic"
  /\ UNCHANGED <<truth, call, offset, heldVars, knvs, lokalmaster, master, ret,
                 answer, mbrRead>>

Acquire ==
  /\ pc = "acquire"
  /\ acquired' = acquired + 1
  /\ pc' = "nvs"
  /\ UNCHANGED <<truth, call, offset, entered, fds, staticVars, ret, answer, mbrRead,
                 faults>>

\* A mutant: a failed read returns before the NVS is freed.
ReadNvs_ReturnsEarly ==
  /\ pc = "nvs"
  /\ \/ knvs' = offset /\ pc' = "free" /\ NoFault /\ UNCHANGED <<entered, ret>>
     \/ knvs' = knvs /\ Exit(-1) /\ Fault
  /\ UNCHANGED <<truth, call, offset, acquired, fds, resolved, lokalmaster, master,
                 answer, mbrRead>>

ReadNvs ==
  /\ pc = "nvs"
  /\ \/ knvs' = offset /\ NoFault
     \/ knvs' = knvs /\ Fault
  /\ pc' = "free"
  /\ UNCHANGED <<truth, call, offset, heldVars, resolved, lokalmaster, master, ret,
                 answer, mbrRead>>

FreeNvs ==
  /\ pc = "free"
  /\ acquired' = acquired - 1
  /\ answer' = knvs
  /\ Exit(0)
  /\ UNCHANGED <<truth, call, offset, fds, staticVars, mbrRead, faults>>

-----------------------------------------------------------------------------
(* k_psvident_mbr_Get reads sector 0; k_psvident_mbr_CheckEnso seeks to    *)
(* 0x200 first (CheckPreviousEnso does the same at 0x6000).                *)

Open ==
  /\ pc = "open"
  /\ \/ /\ fds' = fds + 1
        /\ pc' = IF call = "mbr_Get" THEN "read" ELSE "seek"
        /\ NoFault
        /\ UNCHANGED <<entered, ret, answer>>
     \/ /\ Fault
        /\ UNCHANGED fds
        /\ IF call = "mbr_Get"
             THEN Exit(0) /\ answer' = lokalmaster
             ELSE Exit(-1) /\ UNCHANGED answer
  /\ UNCHANGED <<truth, call, offset, acquired, staticVars, mbrRead>>

\* A mutant: a failed seek returns without EXIT_SYSCALL.
Seek_NoExit ==
  /\ pc = "seek"
  /\ \/ pc' = "read" /\ NoFault /\ UNCHANGED <<entered, ret, fds>>
     \/ Fault /\ fds' = fds - 1 /\ ret' = -2 /\ pc' = "user" /\ UNCHANGED entered
  /\ UNCHANGED <<truth, call, offset, acquired, staticVars, answer, mbrRead>>

Seek ==
  /\ pc = "seek"
  /\ \/ pc' = "read" /\ NoFault /\ UNCHANGED <<entered, ret, fds>>
     \/ Fault /\ fds' = fds - 1 /\ Exit(-2)
  /\ UNCHANGED <<truth, call, offset, acquired, staticVars, answer, mbrRead>>

\* The result of this read is not looked at: a failed one leaves the buffer.
ReadMbr ==
  /\ pc = "read" /\ call = "mbr_Get"
  /\ \/ lokalmaster' = "mbr" /\ mbrRead' = "yes" /\ NoFault
     \/ UNCHANGED <<lokalmaster, mbrRead>> /\ Fault
  /\ fds' = fds - 1
  /\ answer' = lokalmaster'
  /\ Exit(0)
  /\ UNCHANGED <<truth, call, offset, acquired, resolved, knvs, master>>

\* Mutants: the result of the read is not looked at; it is returned.
ReadEnso_Unchecked ==
  /\ pc = "read" /\ call = "CheckEnso"
  /\ fds' = fds - 1
  /\ \/ master' = "real" /\ answer' = truth.enso /\ NoFault
     \/ master' \in {master, "part"} /\ answer' \in {"TRUE", "FALSE"} /\ Fault
  /\ Exit(0)
  /\ UNCHANGED <<truth, call, offset, acquired, resolved, knvs, lokalmaster, mbrRead>>

ReadEnso_ReturnsSize ==
  /\ pc = "read" /\ call = "CheckEnso"
  /\ fds' = fds - 1
  /\ master' = "real"
  /\ answer' = truth.enso
  /\ Exit(512)
  /\ UNCHANGED <<truth, call, offset, acquired, resolved, knvs, lokalmaster, mbrRead,
                 faults>>

\* A short read leaves a part of the sector in the buffer.
ReadEnso ==
  /\ pc = "read" /\ call = "CheckEnso"
  /\ fds' = fds - 1
  /\ \/ /\ master' = "real"
        /\ answer' = truth.enso
        /\ Exit(0)
        /\ NoFault
     \/ /\ master' \in {master, "part"}
        /\ Exit(-3)
        /\ Fault
        /\ UNCHANGED answer
  /\ UNCHANGED <<truth, call, offset, acquired, resolved, knvs, lokalmaster, mbrRead>>

-----------------------------------------------------------------------------
(* k_psvident_syscon_GetTouchpanelDeviceInfo2 and the others of its kind.  *)

Ask ==
  /\ pc = "ask"
  /\ \/ answer' = "info" /\ Exit(0) /\ NoFault
     \/ call = "detect_plugins" /\ Exit(-1) /\ Fault /\ UNCHANGED answer
     \/ /\ call \in AskingCalls
        /\ Fault
        /\ ret' = -1
        /\ pc' = "user"
        /\ UNCHANGED <<entered, answer>>
  /\ UNCHANGED <<truth, call, offset, acquired, fds, staticVars, mbrRead>>

-----------------------------------------------------------------------------
(* Calling an unresolved function stops the console; it starts anew.       *)

Reboot ==
  /\ pc = "panic"
  /\ pc' = "user"
  /\ call' = "none"
  /\ entered' = 0 /\ acquired' = 0 /\ fds' = 0
  /\ resolved' = "no"
  /\ knvs' = "zero" /\ lokalmaster' = "zero" /\ master' = "zero"
  /\ mbrRead' = "no"
  /\ answer' = "none"
  /\ UNCHANGED <<truth, offset, ret, faults>>

Inside == \/ Lookup \/ Acquire \/ ReadNvs \/ FreeNvs
          \/ Open \/ Seek \/ ReadMbr \/ ReadEnso \/ Ask

Next == Call \/ Inside \/ Reboot

Spec == Init /\ [][Next]_vars

-----------------------------------------------------------------------------
(* What the getters of the application make of an answer.                  *)

Answered(c) == pc = "user" /\ call = c /\ ret >= 0

\* getNvsQaf: the byte at 0x480; a zero, whatever it comes from, is "Enabled".
ShowsActiveToken ==
  /\ Answered("nvs_Get") /\ offset = "QAF"
  /\ \/ answer = "zero"
     \/ answer = "QAF" /\ truth.token = "enabled"

-----------------------------------------------------------------------------
(* Properties.                                                             *)

\* Every variable has its type.
TypeOK ==
  /\ truth \in [token : {"enabled", "disabled"}, enso : {"TRUE", "FALSE"}]
  /\ pc \in {"user", "lookup", "acquire", "nvs", "free", "open", "seek", "read",
             "ask", "panic"}
  /\ call \in Calls \cup {"none"}
  /\ offset \in Offsets
  /\ entered \in {0, 1}
  /\ acquired \in Int /\ fds \in Int
  /\ resolved \in {"yes", "no"}
  /\ knvs \in Offsets \cup {"zero"}
  /\ lokalmaster \in {"zero", "mbr"}
  /\ master \in {"zero", "real", "part"}
  /\ ret \in {0, -1, -2, -3}
  /\ answer \in Offsets \cup {"none", "zero", "mbr", "TRUE", "FALSE", "info"}
  /\ mbrRead \in {"yes", "no"}
  /\ faults \in 0 .. MaxFaults

\* Whichever call into the system failed, the application never gets control
\* back while the NVS is acquired or a descriptor is open.
NothingHeld == pc = "user" => acquired = 0 /\ fds = 0

\* The state saved by ENTER_SYSCALL is restored on every return, except for
\* the errors of the four calls that return at once.
SyscallStateRestored ==
  pc = "user" /\ entered = 1 => call \in AskingCalls /\ ret < 0

\* The static buffer of the NVS never brings one getter what another getter
\* read from a different offset: an answer is of the offset asked, or zeros.
NvsAnswerOfOffset == Answered("nvs_Get") => answer \in {offset, "zero"}

\* "Enso installed" is answered from a sector that was read whole; a failure
\* of any step before is an error and never TRUE or FALSE.
EnsoAnswerIsReal ==
  Answered("CheckEnso") => answer = truth.enso /\ master = "real"

\* Once the MBR has been read, every later call gets it, even if the eMMC can
\* then not be opened: an old copy is never lost to a failure.
MbrKept == Answered("mbr_Get") /\ mbrRead = "yes" => answer = "mbr"

\* Until it is switched off, a console that has answered one call of nvs_Get is never
\* stopped by a later one, whichever look-ups fail: the addresses outlive the call.
NeverStopsOnceAnswered == [](Answered("nvs_Get") => [](pc # "panic"))

\* The comment of qaflags() on "ret >= 0 && rawval == 0x00" is "theres an
\* active token".  It does not hold of the code: a failed read is all zeros.
ActiveTokenIsReal == ShowsActiveToken => truth.token = "enabled"

=============================================================================
