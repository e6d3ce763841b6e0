------------------------------- MODULE Report -------------------------------
(***************************************************************************)
(* Saving the report: the part of main() that names the file and tells the *)
(* user, savereport(), and logPrintf(), which opens, writes and closes the *)
(* file for every single line.  The lines are the constant Table           *)
(* (ReportLayout.tla has savereport's); this module is the protocol by     *)
(* which they reach the memory card.                                       *)
(*                                                                         *)
(* Only the first line's result is looked at.  Every other failure to open *)
(* or to write is ignored, a getter may fail, the card may be full or out, *)
(* and the console may be switched off between any two calls.              *)
(***************************************************************************)
EXTENDS Integers, Sequences

CONSTANTS
  Names,      \* the names of the file: with the serial, and without it
  Table,      \* the lines of savereport in order, each with its condition
  Devices,    \* the kinds of device: the facts the conditions ask for
  Probed,     \* the facts that a getter, which may fail, has to find out
  MaxSaves,   \* bound: how many reports are saved
  MaxFaults   \* bound: how many calls fail

\* A line is printed when the device has all it needs and nothing it bars.
TableLines == [text : STRING, needs : SUBSET STRING, bars : SUBSET STRING]

ASSUME ReportAssumption ==
  /\ Table \in Seq(TableLines)
  /\ Table # << >> /\ Table[1].needs = {} /\ Table[1].bars = {}
  /\ Devices \subseteq SUBSET STRING
  /\ Probed \subseteq STRING
  /\ MaxSaves \in Nat
  /\ MaxFaults \in Nat

VARIABLES
  pc,         \* the call that comes next
  device,     \* the facts about this device
  name,       \* the file of the current save (the static "string" of main)
  line,       \* the line being printed
  fds,        \* how many descriptors the process holds
  present,    \* the files on the card
  files,      \* what is in them, entry by entry
  fresh,      \* "yes": this save began with no file of its name
  lost,       \* the lines of this save that some call failed to bring
  told,       \* how often "Report saved to" was sent
  saves,      \* how many saves were begun
  faults      \* how many calls have failed

vars == <<pc, device, name, line, fds, present, files, fresh, lost, told, saves,
          faults>>

\* An entry is one line of one report; "cut" when it was not written whole.
Entry(how) == [save |-> saves, line |-> line, how |-> how]

Fault == faults < MaxFaults /\ faults' = faults + 1
NoFault == UNCHANGED faults

Init ==
  /\ pc = "idle"
  /\ device \in Devices
  /\ name \in Names
  /\ line = 1
  /\ fds = 0
  /\ present = {}
  /\ files = [n \in Names |-> << >>]
  /\ fresh = "no"
  /\ lost = {}
  /\ told = 0
  /\ saves = 0
  /\ faults = 0

-----------------------------------------------------------------------------
(* main(): the file is named after the serial when getSerial succeeds.     *)

Save ==
  /\ pc = "idle"
  /\ saves < MaxSaves
  /\ name' \in Names
  /\ saves' = saves + 1
  /\ pc' = "remove"
  /\ UNCHANGED <<device, line, fds, present, files, fresh, lost, told, faults>>

-----------------------------------------------------------------------------
(* savereport().                                                           *)

\* A mutant: sceIoRemove is not called.
Remove_Forgotten ==
  /\ pc = "remove"
  /\ fresh' = "yes"
  /\ line' = 1
  /\ lost' = {}
  /\ pc' = "open"
  /\ UNCHANGED <<device, name, fds, present, files, told, saves, faults>>

\* sceIoRemove, its result ignored: a file that cannot be removed stays.
Remove ==
  /\ pc = "remove"
  /\ \/ /\ present' = present \ {name}
        /\ files' = [files EXCEPT ![name] = << >>]
        /\ fresh' = "yes"
        /\ NoFault
     \/ /\ name \in present
        /\ fresh' = "no"
        /\ Fault
        /\ UNCHANGED <<present, files>>
  /\ line' = 1
  /\ lost' = {}
  /\ pc' = "open"
  /\ UNCHANGED <<device, name, fds, told, saves>>

Applies(i) == Table[i].needs \subseteq device /\ Table[i].bars \cap device = {}

ToCome == {i \in (line + 1) .. Len(Table) : Applies(i)}

\* Mutants: the line is printed again; the conditions and the end are missed.
NextLine_Again ==
  \/ pc' = "open" /\ line' = line
  \/ ToCome = {} /\ pc' = "notify" /\ UNCHANGED line

NextLine_Unbounded == pc' = "open" /\ line' = line + 1

\* The next line whose condition holds, or "return 0".
NextLine ==
  \/ \E i \in ToCome : /\ \A j \in ToCome : i <= j
                       /\ line' = i
                       /\ pc' = "open"
  \/ /\ ToCome = {}
     /\ pc' = "notify"
     /\ UNCHANGED line

\* Mutants: any failure ends the report; the first failure is ignored, too.
SkipLine_GivesUp ==
  /\ lost' = lost \cup {line}
  /\ pc' = IF line = 1 THEN "idle" ELSE "notify"
  /\ UNCHANGED line

SkipLine_Always ==
  /\ lost' = lost \cup {line}
  /\ NextLine

\* "if( ret < 0 ) return ret;" follows the first line and no other.
SkipLine ==
  /\ lost' = lost \cup {line}
  /\ IF line = 1
       THEN pc' = "idle" /\ UNCHANGED line
       ELSE NextLine

\* The getter a conditional line asks fails: "ret >= 0 &&" leaves it out.
GetterFails ==
  /\ pc = "open"
  /\ Table[line].needs \cap Probed # {}
  /\ Fault
  /\ SkipLine
  /\ UNCHANGED <<device, name, fds, present, files, fresh, told, saves>>

\* A mutant: without SCE_O_CREAT, waiting for the file to be there.
Open_WaitsForFile ==
  /\ pc = "open"
  /\ name \in present
  /\ fds' = fds + 1
  /\ pc' = "write"
  /\ UNCHANGED <<device, name, line, present, files, fresh, lost, told, saves, faults>>

\* sceIoOpen of logPrintf: SCE_O_CREAT makes an absent file.
Open ==
  /\ pc = "open"
  /\ \/ /\ fds' = fds + 1
        /\ present' = present \cup {name}
        /\ pc' = "write"
        /\ NoFault
        /\ UNCHANGED <<line, lost>>
     \/ /\ Fault
        /\ SkipLine
        /\ UNCHANGED <<fds, present>>
  /\ UNCHANGED <<device, name, files, fresh, told, saves>>

\* SCE_O_APPEND, the text and the newline: all of it, a part of it or nothing.
Write ==
  /\ pc = "write"
  /\ \/ /\ files' = [files EXCEPT ![name] = Append(@, Entry("whole"))]
        /\ NoFault
        /\ UNCHANGED lost
     \/ /\ \/ files' = [files EXCEPT ![name] = Append(@, Entry("cut"))]
           \/ UNCHANGED files
        /\ lost' = lost \cup {line}
        /\ Fault
  /\ pc' = "close"
  /\ UNCHANGED <<device, name, line, fds, present, fresh, told, saves>>

\* A mutant: the descriptor is not closed.
Close_Leaks ==
  /\ pc = "close"
  /\ NextLine
  /\ UNCHANGED <<device, name, fds, present, files, fresh, lost, told, saves, faults>>

\* sceIoClose, whatever was written.
Close ==
  /\ pc = "close"
  /\ fds' = fds - 1
  /\ NextLine
  /\ UNCHANGED <<device, name, present, files, fresh, lost, told, saves, faults>>

\* "Report saved to %s": savereport returned 0.
Notify ==
  /\ pc = "notify"
  /\ told' = told + 1
  /\ pc' = "idle"
  /\ UNCHANGED <<device, name, line, fds, present, files, fresh, lost, saves, faults>>

-----------------------------------------------------------------------------
(* The process ends at any point, and its descriptors with it.             *)

PowerOff ==
  /\ pc # "off"
  /\ Fault
  /\ pc' = "off"
  /\ fds' = 0
  /\ UNCHANGED <<device, name, line, present, files, fresh, lost, told, saves>>

\* The application is started again; what is on the card is still there.
Boot ==
  /\ pc = "off"
  /\ pc' = "idle"
  /\ name' \in Names
  /\ line' = 1
  /\ fresh' = "no"
  /\ lost' = {}
  /\ UNCHANGED <<device, fds, present, files, told, saves, faults>>

Step == Remove \/ GetterFails \/ Open \/ Write \/ Close \/ Notify

Next == Save \/ Step \/ PowerOff \/ Boot

\* savereport runs on the thread of main and waits for nothing.
Spec == Init /\ [][Next]_vars /\ WF_vars(Step)

-----------------------------------------------------------------------------
(* Properties.                                                             *)

Lines == 1 .. Len(Table)
Entries == [save : 1 .. MaxSaves, line : Lines, how : {"whole", "cut"}]

\* Every variable has its type.
TypeOK ==
  /\ pc \in {"idle", "remove", "open", "write", "close", "notify", "off"}
  /\ device \in Devices
  /\ name \in Names
  /\ line \in Lines
  /\ fds \in Nat
  /\ present \in SUBSET Names
  /\ files \in [Names -> Seq(Entries)]
  /\ fresh \in {"yes", "no"}
  /\ lost \in SUBSET Lines
  /\ told \in Nat
  /\ saves \in 0 .. MaxSaves
  /\ faults \in 0 .. MaxFaults

Before(e, f) == \/ e.save < f.save
                \/ e.save = f.save /\ e.line < f.line

Ordered(file) == \A i, j \in DOMAIN file : i < j => Before(file[i], file[j])

\* Whatever failed and however often the console was switched off, no file
\* has a line twice or out of order, and an older report that could not be
\* removed comes before the newer one.
LinesInOrder == \A n \in Names : Ordered(files[n])

Running == pc \in {"open", "write", "close", "notify"}

\* When the old file could be removed (or there was none), the file holds
\* lines of this report only: nothing of a report that was cut short by the
\* console being switched off survives into the next.
LatestOnly ==
  Running /\ fresh = "yes" =>
    \A i \in DOMAIN files[name] : files[name][i].save = saves

WholeLines ==
  {i \in Lines : \E k \in DOMAIN files[name] :
                    files[name][k] = [save |-> saves, line |-> i, how |-> "whole"]}

\* When the report ends, the lines that are missing or cut are those for which
\* a call failed, and no other: one failure does not cost a second line.
OnlyFailedLinesMissing ==
  pc = "notify" => WholeLines = {i \in Lines : Applies(i)} \ lost

\* The process never holds more than the one descriptor of the line being
\* written, and none while the user is told or the loop runs on.
DescriptorsClosed == fds = IF pc \in {"write", "close"} THEN 1 ELSE 0

\* The user is told of a report only if there is a file of that name: a save
\* whose first line cannot open it says nothing.
NotifiedFileExists == pc = "notify" => name \in present

\* A save always comes to its end, unless the console is switched off.
SaveEnds == (pc = "remove") ~> (pc \in {"idle", "off"})

\* The notification of main() says "Report saved to %s": every line that
\* applies to the device is then in the file.  It does not hold of the code,
\* which looks at the result of the first line alone.
SavedReportIsComplete == pc = "notify" => WholeLines = {i \in Lines : Applies(i)}

=============================================================================
