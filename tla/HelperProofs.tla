---------------------------- MODULE HelperProofs ----------------------------
(***************************************************************************)
(* Proofs about the kernel plugin, for every set of offsets and any number *)
(* of calls and of failures.                                               *)
(***************************************************************************)
EXTENDS Helper, TLAPS

\* The type invariant holds at all times.
THEOREM TypeCorrect == Spec => []TypeOK
<1>1. Init => TypeOK
  BY HelperAssumption DEF Init, InitStatic, TypeOK
<1>2. TypeOK /\ [Next]_vars => TypeOK'
  <2> SUFFICES ASSUME TypeOK, [Next]_vars PROVE TypeOK'
    OBVIOUS
  <2> USE HelperAssumption
          DEF TypeOK, Fault, NoFault, Exit, staticVars, heldVars, Calls, SectorCalls,
              AskingCalls, TidyCalls
  <2>1. CASE Call
    <3>1. pc' \in {"lookup", "open", "ask"}
      BY <2>1 DEF Call
    <3>2. QED BY <2>1, <3>1 DEF Call
  <2>2. CASE Lookup
    BY <2>2 DEF Lookup
  <2>3. CASE Acquire
    BY <2>3 DEF Acquire
  <2>4. CASE ReadNvs
    BY <2>4 DEF ReadNvs
  <2>5. CASE FreeNvs
    BY <2>5 DEF FreeNvs
  <2>6. CASE Open
    BY <2>6 DEF Open
  <2>7. CASE Seek
    BY <2>7 DEF Seek
  <2>8. CASE ReadMbr
    BY <2>8 DEF ReadMbr
  <2>9. CASE ReadEnso
    BY <2>9 DEF ReadEnso
  <2>10. CASE Ask
    BY <2>10 DEF Ask
  <2>11. CASE Reboot
    BY <2>11 DEF Reboot
  <2>12. CASE UNCHANGED vars
    BY <2>12 DEF vars
  <2>13. QED
    BY <2>1, <2>2, <2>3, <2>4, <2>5, <2>6, <2>7, <2>8, <2>9, <2>10, <2>11, <2>12
    DEF Next, Inside
<1>3. QED BY <1>1, <1>2, PTL DEF Spec

-----------------------------------------------------------------------------
(* What is held at each place in a call.                                   *)

HeldInv ==
  /\ acquired = IF pc \in {"nvs", "free"} THEN 1 ELSE 0
  /\ fds = IF pc \in {"seek", "read"} THEN 1 ELSE 0

LEMMA HeldInvariant == Spec => []HeldInv
<1>1. Init => HeldInv
  BY DEF Init, HeldInv
<1>2. HeldInv /\ [Next]_vars => HeldInv'
  <2> SUFFICES ASSUME HeldInv, [Next]_vars PROVE HeldInv'
    OBVIOUS
  <2> USE DEF HeldInv, Exit, staticVars, heldVars
  <2>1. CASE Call
    <3>1. pc' \in {"lookup", "open", "ask"}
      BY <2>1 DEF Call, Calls
    <3>2. QED BY <2>1, <3>1 DEF Call
  <2>2. CASE Lookup
    BY <2>2 DEF Lookup
  <2>3. CASE Acquire
    BY <2>3 DEF Acquire
  <2>4. CASE ReadNvs
    BY <2>4 DEF ReadNvs
  <2>5. CASE FreeNvs
    BY <2>5 DEF FreeNvs
  <2>6. CASE Open
    BY <2>6 DEF Open
  <2>7. CASE Seek
    BY <2>7 DEF Seek
  <2>8. CASE ReadMbr
    BY <2>8 DEF ReadMbr
  <2>9. CASE ReadEnso
    BY <2>9 DEF ReadEnso
  <2>10. CASE Ask
    BY <2>10 DEF Ask
  <2>11. CASE Reboot
    BY <2>11 DEF Reboot
  <2>12. CASE UNCHANGED vars
    BY <2>12 DEF vars
  <2>13. QED
    BY <2>1, <2>2, <2>3, <2>4, <2>5, <2>6, <2>7, <2>8, <2>9, <2>10, <2>11, <2>12
    DEF Next, Inside
<1>3. QED BY <1>1, <1>2, PTL DEF Spec

\* Whichever call failed, the application has control only while the NVS is
\* free and no descriptor is open.
THEOREM NothingEverHeld == Spec => []NothingHeld
<1>1. HeldInv => NothingHeld
  BY DEF HeldInv, NothingHeld
<1>2. QED BY <1>1, HeldInvariant, PTL

-----------------------------------------------------------------------------
(* Which call runs at each place, and what its buffers then hold.          *)

PlaceInv ==
  /\ pc \in {"lookup", "acquire", "nvs", "free"} => call = "nvs_Get"
  /\ pc \in {"open", "read"} => call \in SectorCalls
  /\ pc = "seek" => call = "CheckEnso"
  /\ pc = "ask" => call \in AskingCalls \cup TidyCalls

BufferInv ==
  /\ pc \in {"lookup", "acquire", "nvs"} => knvs = "zero"
  /\ pc = "free" => knvs \in {offset, "zero"}
  /\ mbrRead = "yes" => lokalmaster = "mbr"

CallInv ==
  PlaceInv /\ BufferInv /\ SyscallStateRestored /\ NvsAnswerOfOffset
    /\ EnsoAnswerIsReal /\ MbrKept

LEMMA CallInvariant == Spec => []CallInv
<1>1. Init => CallInv
  BY DEF Init, InitStatic, CallInv, PlaceInv, BufferInv, SyscallStateRestored,
         NvsAnswerOfOffset, EnsoAnswerIsReal, MbrKept, Answered
<1>2. TypeOK /\ CallInv /\ [Next]_vars => CallInv'
  <2> SUFFICES ASSUME TypeOK, CallInv, [Next]_vars PROVE CallInv'
    OBVIOUS
  <2> USE DEF CallInv, PlaceInv, BufferInv, SyscallStateRestored, NvsAnswerOfOffset,
              EnsoAnswerIsReal, MbrKept, Answered, Exit, staticVars, heldVars,
              SectorCalls, AskingCalls, TidyCalls
  <2>1. CASE Call
    <3>1. /\ pc' \in {"lookup", "open", "ask"}
          /\ pc' = "lookup" => call' = "nvs_Get" /\ knvs' = "zero"
          /\ pc' = "open" => call' \in SectorCalls
          /\ pc' = "ask" => call' \in AskingCalls \cup TidyCalls
      BY <2>1 DEF Call, Calls
    <3>2. UNCHANGED <<lokalmaster, mbrRead>>
      BY <2>1 DEF Call
    <3>3. QED BY <3>1, <3>2
  <2>2. CASE Lookup
    BY <2>2 DEF Lookup
  <2>3. CASE Acquire
    BY <2>3 DEF Acquire
  <2>4. CASE ReadNvs
    BY <2>4 DEF ReadNvs
  <2>5. CASE FreeNvs
    BY <2>5 DEF FreeNvs
  <2>6. CASE Open
    BY <2>6 DEF Open
  <2>7. CASE Seek
    BY <2>7 DEF Seek
  <2>8. CASE ReadMbr
    BY <2>8 DEF ReadMbr
  <2>9. CASE ReadEnso
    BY <2>9 DEF ReadEnso
  <2>10. CASE Ask
    BY <2>10 DEF Ask
  <2>11. CASE Reboot
    BY <2>11 DEF Reboot
  <2>12. CASE UNCHANGED vars
    BY <2>12 DEF vars
  <2>13. QED
    BY <2>1, <2>2, <2>3, <2>4, <2>5, <2>6, <2>7, <2>8, <2>9, <2>10, <2>11, <2>12
    DEF Next, Inside
<1>3. QED BY <1>1, <1>2, TypeCorrect, PTL DEF Spec

\* ENTER_SYSCALL is undone on every return but the errors of the four calls that
\* return at once: the NVS, the MBR, the kernel's module list among the others.
THEOREM SyscallStateAlwaysRestored == Spec => []SyscallStateRestored
BY CallInvariant, PTL DEF CallInv

\* The static buffer of the NVS never brings a getter another offset's bytes.
THEOREM NvsAlwaysOfOffset == Spec => []NvsAnswerOfOffset
BY CallInvariant, PTL DEF CallInv

\* Enso is reported from a sector that was read whole, and from nothing else.
THEOREM EnsoAlwaysReal == Spec => []EnsoAnswerIsReal
BY CallInvariant, PTL DEF CallInv

\* An MBR that was read once is never lost to a later failure.
THEOREM MbrAlwaysKept == Spec => []MbrKept
BY CallInvariant, PTL DEF CallInv

-----------------------------------------------------------------------------
(* The look-up of the functions.                                           *)

\* The functions are known wherever they are called, and wherever they have
\* just been.
Resolved == pc # "panic" /\ resolved = "yes"

LookedUp ==
  /\ pc \in {"acquire", "nvs", "free"} => resolved = "yes"
  /\ Answered("nvs_Get") => resolved = "yes"

LEMMA LookedUpInvariant == Spec => []LookedUp
<1>1. Init => LookedUp
  BY DEF Init, LookedUp, Answered
<1>2. TypeOK /\ PlaceInv /\ LookedUp /\ [Next]_vars => LookedUp'
  <2> SUFFICES ASSUME TypeOK, PlaceInv, LookedUp, [Next]_vars PROVE LookedUp'
    OBVIOUS
  <2> USE DEF PlaceInv, LookedUp, Answered, Exit, staticVars, heldVars,
              SectorCalls, AskingCalls, TidyCalls
  <2>1. CASE Call
    <3>1. pc' \in {"lookup", "open", "ask"}
      BY <2>1 DEF Call, Calls
    <3>2. QED BY <3>1
  <2>2. CASE Lookup
    BY <2>2 DEF Lookup
  <2>3. CASE Acquire
    BY <2>3 DEF Acquire
  <2>4. CASE ReadNvs
    BY <2>4 DEF ReadNvs
  <2>5. CASE FreeNvs
    BY <2>5 DEF FreeNvs
  <2>6. CASE Open
    BY <2>6 DEF Open
  <2>7. CASE Seek
    BY <2>7 DEF Seek
  <2>8. CASE ReadMbr
    BY <2>8 DEF ReadMbr
  <2>9. CASE ReadEnso
    BY <2>9 DEF ReadEnso
  <2>10. CASE Ask
    BY <2>10 DEF Ask
  <2>11. CASE Reboot
    BY <2>11 DEF Reboot
  <2>12. CASE UNCHANGED vars
    BY <2>12 DEF vars
  <2>13. QED
    BY <2>1, <2>2, <2>3, <2>4, <2>5, <2>6, <2>7, <2>8, <2>9, <2>10, <2>11, <2>12
    DEF Next, Inside
<1>3. CallInv => PlaceInv
  BY DEF CallInv
<1>4. QED BY <1>1, <1>2, <1>3, TypeCorrect, CallInvariant, PTL DEF Spec

\* Once the addresses are known, no step forgets them or stops the console.
LEMMA ResolvedStays == Resolved /\ [Next]_vars => Resolved'
<1> SUFFICES ASSUME Resolved, [Next]_vars PROVE Resolved'
  OBVIOUS
<1> USE DEF Resolved, Exit, staticVars, heldVars
<1>1. CASE Call
  <2>1. pc' \in {"lookup", "open", "ask"}
    BY <1>1 DEF Call, Calls
  <2>2. QED BY <1>1, <2>1 DEF Call
<1>2. CASE Inside
  BY <1>2 DEF Inside, Lookup, Acquire, ReadNvs, FreeNvs, Open, Seek, ReadMbr,
              ReadEnso, Ask
<1>3. CASE Reboot
  BY <1>3 DEF Reboot
<1>4. CASE UNCHANGED vars
  BY <1>4 DEF vars
<1>5. QED BY <1>1, <1>2, <1>3, <1>4 DEF Next

\* A console that has answered one call of nvs_Get is never stopped by a look-up
\* of a later one, however many of them fail.
THEOREM OnceAnsweredNeverStops == Spec => NeverStopsOnceAnswered
<1>1. LookedUp /\ Answered("nvs_Get") => Resolved
  BY DEF LookedUp, Resolved, Answered
<1>2. Resolved => pc # "panic"
  BY DEF Resolved
<1>3. QED
  BY <1>1, <1>2, LookedUpInvariant, ResolvedStays, PTL DEF Spec, NeverStopsOnceAnswered

=============================================================================
