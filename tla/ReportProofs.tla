---------------------------- MODULE ReportProofs ----------------------------
(***************************************************************************)
(* Proofs about the report, for every table of lines, every set of devices *)
(* and any number of saves and of failures.                                *)
(***************************************************************************)
EXTENDS Report, SequenceTheorems, TLAPS

\* The table is not empty, and its first line is printed on every device.
LEMMA TableFacts ==
  /\ Len(Table) \in Nat \ {0}
  /\ Lines \subseteq Nat
  /\ 1 \in Lines
  /\ Table[1].needs = {} /\ Table[1].bars = {}
<1>1. Table \in Seq(TableLines) /\ Table # << >>
  BY ReportAssumption
<1>2. Len(Table) \in Nat \ {0}
  BY <1>1, EmptySeq
<1>3. QED BY <1>2, ReportAssumption DEF Lines

LEMMA FirstLineApplies == Applies(1)
BY TableFacts DEF Applies

LEMMA EntryTyped ==
  ASSUME saves \in 1 .. MaxSaves, line \in Lines, NEW how \in {"whole", "cut"}
  PROVE  /\ Entry(how) \in Entries
         /\ Entry(how).save = saves /\ Entry(how).line = line
BY DEF Entry, Entries

\* What NextLine and SkipLine do: the line moves on to the next that applies,
\* or there is none left, or the first line has failed.
LEMMA NextLineMoves ==
  ASSUME line \in Lines, NextLine
  PROVE  \/ /\ pc' = "open"
            /\ line' \in Lines /\ line' > line
            /\ Applies(line')
            /\ \A j \in Lines : j > line /\ j < line' => ~Applies(j)
         \/ /\ pc' = "notify"
            /\ line' = line
            /\ \A j \in Lines : j > line => ~Applies(j)
<1>1. \A j : j \in ToCome <=> j \in Lines /\ j > line /\ Applies(j)
  BY TableFacts DEF ToCome, Lines
<1>2. CASE \E i \in ToCome : /\ \A j \in ToCome : i <= j
                             /\ line' = i
                             /\ pc' = "open"
  <2>1. PICK i \in ToCome : (\A j \in ToCome : i <= j) /\ line' = i /\ pc' = "open"
    BY <1>2
  <2>2. i \in Lines /\ i > line /\ Applies(i)
    BY <1>1
  <2>3. \A j \in Lines : j > line /\ j < i => ~Applies(j)
    BY <1>1, <2>1, <2>2, TableFacts
  <2>4. QED BY <2>1, <2>2, <2>3
<1>3. CASE ToCome = {} /\ pc' = "notify" /\ line' = line
  BY <1>1, <1>3
<1>4. QED BY <1>2, <1>3 DEF NextLine

LEMMA SkipLineMoves ==
  ASSUME SkipLine
  PROVE  /\ lost' = lost \cup {line}
         /\ \/ line = 1 /\ pc' = "idle" /\ line' = line
            \/ line # 1 /\ NextLine
BY DEF SkipLine

-----------------------------------------------------------------------------
(* Types and descriptors, together: closing a descriptor keeps their number *)
(* natural only because there is one to close.                              *)

Saving == pc \in {"remove", "open", "write", "close", "notify"}

TypeInv ==
  /\ TypeOK
  /\ DescriptorsClosed
  /\ Saving => saves \in 1 .. MaxSaves

\* What Write does besides the file.
LEMMA WriteFacts ==
  ASSUME Write
  PROVE  /\ pc = "write" /\ pc' = "close"
         /\ \/ faults' = faults /\ lost' = lost
            \/ faults < MaxFaults /\ faults' = faults + 1 /\ lost' = lost \cup {line}
         /\ UNCHANGED <<device, name, line, fds, present, fresh, told, saves>>
<1>1. CASE /\ files' = [files EXCEPT ![name] = Append(@, Entry("whole"))]
           /\ NoFault
           /\ UNCHANGED lost
  BY <1>1, Zenon DEF Write, NoFault
<1>2. CASE lost' = lost \cup {line} /\ Fault
  BY <1>2, Zenon DEF Write, Fault
<1>3. QED BY <1>1, <1>2, Zenon DEF Write

LEMMA FilesTyped ==
  ASSUME TypeOK, saves \in 1 .. MaxSaves, Write
  PROVE  files' \in [Names -> Seq(Entries)]
<1>1. files[name] \in Seq(Entries)
  BY DEF TypeOK
<1>2. Entry("whole") \in Entries /\ Entry("cut") \in Entries
  BY EntryTyped DEF TypeOK
<1>3. /\ Append(files[name], Entry("whole")) \in Seq(Entries)
      /\ Append(files[name], Entry("cut")) \in Seq(Entries)
  BY <1>1, <1>2, AppendProperties
<1>4. QED BY <1>3 DEF Write, TypeOK

LEMMA TypeInvariant == Spec => []TypeInv
<1>1. Init => TypeInv
  <2>1. << >> \in Seq(Entries)
    BY EmptySeq
  <2>2. QED
    BY <2>1, TableFacts, ReportAssumption
    DEF Init, TypeInv, TypeOK, DescriptorsClosed, Saving
<1>2. TypeInv /\ [Next]_vars => TypeInv'
  <2> SUFFICES ASSUME TypeInv, [Next]_vars PROVE TypeInv'
    OBVIOUS
  <2> USE TableFacts, ReportAssumption
  <2> USE DEF TypeInv, TypeOK, DescriptorsClosed, Saving, NoFault, Fault
  <2>1. CASE Save
    BY <2>1 DEF Save
  <2>2. CASE Remove
    <3>1. << >> \in Seq(Entries)
      BY EmptySeq
    <3>2. files' \in [Names -> Seq(Entries)] /\ present' \in SUBSET Names
      BY <2>2, <3>1 DEF Remove
    <3>3. QED BY <2>2, <3>2 DEF Remove
  <2>3. CASE GetterFails
    <3>1. /\ pc = "open" /\ pc' \in {"idle", "open", "notify"}
          /\ line' \in Lines /\ lost' \in SUBSET Lines
      BY <2>3, SkipLineMoves, NextLineMoves DEF GetterFails
    <3>2. QED BY <2>3, <3>1 DEF GetterFails
  <2>4. CASE Open
    <3>1. CASE fds' = fds + 1 /\ pc' = "write" /\ UNCHANGED <<line, lost>>
      BY <2>4, <3>1 DEF Open
    <3>2. CASE SkipLine /\ UNCHANGED <<fds, present>>
      <4>1. pc' \in {"idle", "open", "notify"} /\ line' \in Lines /\ lost' \in SUBSET Lines
        BY <3>2, SkipLineMoves, NextLineMoves
      <4>2. QED BY <2>4, <3>2, <4>1 DEF Open
    <3>3. QED BY <2>4, <3>1, <3>2 DEF Open
  <2>5. CASE Write
    <3>1. files' \in [Names -> Seq(Entries)]
      BY <2>5, FilesTyped DEF Write
    <3>2. /\ pc = "write" /\ pc' = "close"
          /\ \/ faults' = faults /\ lost' = lost
             \/ faults < MaxFaults /\ faults' = faults + 1 /\ lost' = lost \cup {line}
          /\ UNCHANGED <<device, name, line, fds, present, fresh, told, saves>>
      BY <2>5, WriteFacts
    <3>3. faults' \in 0 .. MaxFaults /\ lost' \in SUBSET Lines
      <4>1. CASE faults' = faults /\ lost' = lost
        BY <4>1
      <4>2. CASE /\ faults < MaxFaults /\ faults' = faults + 1
                 /\ lost' = lost \cup {line}
        <5>1. faults' \in 0 .. MaxFaults
          BY <4>2
        <5>2. lost' \in SUBSET Lines
          BY <4>2
        <5>3. QED BY <5>1, <5>2
      <4>3. QED BY <3>2, <4>1, <4>2
    <3>4. /\ pc' \in {"idle", "remove", "open", "write", "close", "notify", "off"}
          /\ fds' = 1 /\ fds' \in Nat /\ saves' \in 1 .. MaxSaves
          /\ UNCHANGED <<device, name, line, present, fresh, told, saves>>
      BY <3>2
    <3>5. TypeOK'
      <4>1. device' \in Devices /\ name' \in Names
        BY <3>4
      <4>2. line' \in Lines /\ present' \in SUBSET Names
        BY <3>4
      <4>3. fresh' \in {"yes", "no"} /\ told' \in Nat /\ saves' \in 0 .. MaxSaves
        BY <3>4
      <4>4. QED BY <3>1, <3>3, <3>4, <4>1, <4>2, <4>3
    <3>6. QED BY <3>2, <3>4, <3>5
  <2>6. CASE Close
    <3>1. pc' \in {"open", "notify"} /\ line' \in Lines
      BY <2>6, NextLineMoves DEF Close
    <3>2. QED BY <2>6, <3>1 DEF Close
  <2>7. CASE Notify
    BY <2>7 DEF Notify
  <2>8. CASE PowerOff
    BY <2>8 DEF PowerOff
  <2>9. CASE Boot
    BY <2>9 DEF Boot
  <2>10. CASE UNCHANGED vars
    BY <2>10 DEF vars
  <2>11. QED
    BY <2>1, <2>2, <2>3, <2>4, <2>5, <2>6, <2>7, <2>8, <2>9, <2>10 DEF Next, Step
<1>3. QED BY <1>1, <1>2, PTL DEF Spec

\* Every variable of Report keeps its type: in particular the line printed is
\* one of the table, and the counters of main and of the card stay bounded.
THEOREM TypeCorrect == Spec => []TypeOK
<1>1. TypeInv => TypeOK BY DEF TypeInv
<1>2. QED BY <1>1, TypeInvariant, PTL

\* logPrintf, called once per line, never leaves its descriptor open.
THEOREM DescriptorsAlwaysClosed == Spec => []DescriptorsClosed
<1>1. TypeInv => DescriptorsClosed BY DEF TypeInv
<1>2. QED BY <1>1, TypeInvariant, PTL

-----------------------------------------------------------------------------
(* The order of the lines.  Every entry of a file is from a save not later  *)
(* than the current one, and in the current file from before the line that *)
(* comes next: so what is appended comes after all of it.                  *)

Earlier(n) == \A i \in DOMAIN files[n] : files[n][i].save < saves

NotLater(n) == \A i \in DOMAIN files[n] : files[n][i].save <= saves

UpTo(last) ==
  \A i \in DOMAIN files[name] :
    files[name][i].save = saves => files[name][i].line <= last

OrderInv ==
  /\ LinesInOrder
  /\ \A n \in Names : NotLater(n)
  /\ pc = "remove" => Earlier(name)
  /\ pc \in {"open", "write"} => UpTo(line - 1)
  /\ pc \in {"close", "notify"} => UpTo(line)

\* Appending an entry keeps the entries that were there, at their places.
LEMMA AppendFacts ==
  ASSUME NEW s \in Seq(Entries), NEW e \in Entries
  PROVE  /\ Append(s, e) \in Seq(Entries)
         /\ DOMAIN s = 1 .. Len(s) /\ Len(s) \in Nat
         /\ DOMAIN Append(s, e) = 1 .. Len(s) + 1
         /\ \A i \in DOMAIN s : Append(s, e)[i] = s[i] /\ s[i] \in Entries
         /\ Append(s, e)[Len(s) + 1] = e
<1>1. /\ Append(s, e) \in Seq(Entries)
      /\ Len(Append(s, e)) = Len(s) + 1
      /\ \A i \in 1 .. Len(s) : Append(s, e)[i] = s[i]
      /\ Append(s, e)[Len(s) + 1] = e
  BY AppendProperties
<1>2. /\ DOMAIN s = 1 .. Len(s) /\ Len(s) \in Nat
      /\ DOMAIN Append(s, e) = 1 .. Len(Append(s, e))
  BY <1>1, LenProperties
<1>3. \A i \in 1 .. Len(s) : s[i] \in Entries
  BY ElementOfSeq
<1>4. QED BY <1>1, <1>2, <1>3

\* Appending what comes after everything in an ordered file keeps its order.
LEMMA AppendOrdered ==
  ASSUME NEW s \in Seq(Entries), NEW e \in Entries,
         Ordered(s), \A i \in DOMAIN s : Before(s[i], e)
  PROVE  Ordered(Append(s, e))
<1>1. SUFFICES ASSUME NEW i \in DOMAIN Append(s, e), NEW j \in DOMAIN Append(s, e),
                      i < j
               PROVE  Before(Append(s, e)[i], Append(s, e)[j])
  BY DEF Ordered
<1>2. i \in DOMAIN s /\ Append(s, e)[i] = s[i]
  BY <1>1, AppendFacts
<1>3. CASE j \in DOMAIN s
  <2>1. Append(s, e)[j] = s[j]
    BY <1>3, AppendFacts
  <2>2. Before(s[i], s[j])
    BY <1>1, <1>2, <1>3 DEF Ordered
  <2>3. QED BY <1>2, <2>1, <2>2
<1>4. CASE j \notin DOMAIN s
  <2>1. j = Len(s) + 1
    BY <1>1, <1>4, AppendFacts
  <2>2. Append(s, e)[j] = e
    BY <2>1, AppendFacts
  <2>3. QED BY <1>2, <2>2
<1>5. QED BY <1>3, <1>4

LEMMA EntryFields ==
  ASSUME TypeOK, NEW n \in Names
  PROVE  /\ files[n] \in Seq(Entries)
         /\ \A i \in DOMAIN files[n] : /\ files[n][i] \in Entries
                                      /\ files[n][i].save \in Nat
                                      /\ files[n][i].line \in Nat
<1>1. files[n] \in Seq(Entries)
  BY DEF TypeOK
<1>2. \A i \in DOMAIN files[n] : files[n][i] \in Entries
  BY <1>1, LenProperties, ElementOfSeq
<1>3. \A e \in Entries : e.save \in Nat /\ e.line \in Nat
  <2>1. \A e \in Entries : e.save \in 1 .. MaxSaves /\ e.line \in Lines
    BY DEF Entries
  <2>2. 1 .. MaxSaves \subseteq Nat
    BY ReportAssumption
  <2>3. QED BY <2>1, <2>2, TableFacts
<1>4. QED BY <1>1, <1>2, <1>3

\* As long as no entry is added, going on to a later line keeps the bound.
LEMMA LineMovesOn ==
  ASSUME TypeInv, UNCHANGED <<files, name, saves>>,
         NEW bound \in Int, UpTo(bound), NextLine, bound <= line
  PROVE  /\ pc' = "open" => UpTo(line - 1)'
         /\ pc' = "notify" => UpTo(line)'
         /\ pc' \in {"open", "notify"}
<1>1. line \in Lines /\ name \in Names
  BY DEF TypeInv, TypeOK
<1>2. \A i \in DOMAIN files[name] : files[name][i].line \in Nat
  BY <1>1, EntryFields DEF TypeInv
<1>3. CASE pc' = "open" /\ line' \in Lines /\ line' > line
  BY <1>1, <1>2, <1>3, TableFacts DEF UpTo
<1>4. CASE pc' = "notify" /\ line' = line
  BY <1>1, <1>2, <1>4, TableFacts DEF UpTo
<1>5. QED BY <1>1, <1>3, <1>4, NextLineMoves

LEMMA OrderInvariant == Spec => []OrderInv
<1>1. Init => OrderInv
  <2>1. DOMAIN << >> = {}
    BY EmptySeq, LenProperties
  <2>2. QED BY DEF Init, OrderInv, LinesInOrder, Ordered, NotLater
<1>2. TypeInv /\ TypeInv' /\ OrderInv /\ [Next]_vars => OrderInv'
  <2> SUFFICES ASSUME TypeInv, TypeInv', OrderInv, [Next]_vars PROVE OrderInv'
    OBVIOUS
  <2>a. /\ name \in Names /\ line \in Lines /\ line \in Nat /\ saves \in Nat
        /\ files \in [Names -> Seq(Entries)]
    BY TableFacts, ReportAssumption DEF TypeInv, TypeOK
  <2>b. \A n \in Names : \A i \in DOMAIN files[n] :
           files[n][i].save \in Nat /\ files[n][i].line \in Nat
    BY EntryFields DEF TypeInv
  <2>1. CASE Save
    <3>1. /\ pc' = "remove" /\ saves' = saves + 1 /\ name' \in Names
          /\ UNCHANGED files
      BY <2>1 DEF Save
    <3>2. LinesInOrder'
      BY <3>1 DEF OrderInv, LinesInOrder
    <3>3. \A n \in Names : NotLater(n)' /\ Earlier(n)'
      BY <3>1, <2>a, <2>b DEF OrderInv, NotLater, Earlier
    <3>4. QED BY <3>1, <3>2, <3>3 DEF OrderInv
  <2>2. CASE Remove
    <3>1. /\ pc = "remove" /\ pc' = "open" /\ line' = 1
          /\ UNCHANGED <<saves, name>>
          /\ files' = files \/ files' = [files EXCEPT ![name] = << >>]
      BY <2>2 DEF Remove
    <3>2. \A n \in Names : files'[n] = files[n] \/ files'[n] = << >>
      BY <3>1, <2>a
    <3>3. LinesInOrder'
      BY <3>2 DEF OrderInv, LinesInOrder, Ordered
    <3>4. \A n \in Names : NotLater(n)'
      BY <3>1, <3>2 DEF OrderInv, NotLater
    <3>5. UpTo(line - 1)'
      BY <3>1, <3>2, <2>a, <2>b DEF OrderInv, UpTo, Earlier
    <3>6. QED BY <3>1, <3>3, <3>4, <3>5 DEF OrderInv
  <2>3. CASE GetterFails \/ (Open /\ SkipLine)
    <3>1. /\ pc = "open" /\ SkipLine /\ UNCHANGED <<files, name, saves>>
      BY <2>3 DEF GetterFails, Open
    <3>2. UpTo(line - 1)
      BY <3>1 DEF OrderInv
    <3>3. CASE pc' = "idle"
      BY <3>1, <3>3 DEF OrderInv, LinesInOrder, NotLater
    <3>4. CASE NextLine
      <4>1. /\ pc' = "open" => UpTo(line - 1)'
            /\ pc' = "notify" => UpTo(line)'
            /\ pc' \in {"open", "notify"}
        BY <3>1, <3>2, <3>4, <2>a, LineMovesOn
      <4>2. QED BY <4>1, <3>1 DEF OrderInv, LinesInOrder, NotLater
    <3>5. QED BY <3>1, <3>3, <3>4, SkipLineMoves
  <2>4. CASE Open /\ pc' = "write" /\ UNCHANGED line
    BY <2>4 DEF Open, OrderInv, LinesInOrder, NotLater, UpTo
  <2>5. CASE Write
    <3>1. /\ pc = "write" /\ pc' = "close" /\ UNCHANGED <<saves, line, name>>
      BY <2>5, WriteFacts
    <3>2. saves \in 1 .. MaxSaves
      BY <3>1 DEF TypeInv, Saving
    <3>3. UpTo(line - 1)
      BY <3>1 DEF OrderInv
    <3>4. CASE UNCHANGED files
      BY <3>1, <3>3, <3>4, <2>a, <2>b DEF OrderInv, LinesInOrder, NotLater, UpTo
    <3>5. ASSUME NEW how \in {"whole", "cut"},
                 files' = [files EXCEPT ![name] = Append(@, Entry(how))]
          PROVE  OrderInv'
      <4>1. /\ Entry(how) \in Entries
            /\ Entry(how).save = saves /\ Entry(how).line = line
        BY <3>2, <2>a, EntryTyped
      <4>2. files[name] \in Seq(Entries)
        BY <2>a
      <4>3. \A i \in DOMAIN files[name] : Before(files[name][i], Entry(how))
        BY <4>1, <3>3, <2>a, <2>b DEF Before, UpTo, OrderInv, NotLater
      <4>4. /\ files'[name] = Append(files[name], Entry(how))
            /\ \A n \in Names : n # name => files'[n] = files[n]
        BY <3>5, <2>a
      <4>5. Ordered(files'[name])
        BY <4>1, <4>2, <4>3, <4>4, <2>a, AppendOrdered DEF OrderInv, LinesInOrder
      <4>6. LinesInOrder'
        BY <4>4, <4>5 DEF OrderInv, LinesInOrder
      <4>7. \A i \in DOMAIN files'[name] :
               \/ i \in DOMAIN files[name] /\ files'[name][i] = files[name][i]
               \/ files'[name][i] = Entry(how)
        BY <4>1, <4>2, <4>4, AppendFacts
      <4>8. \A n \in Names : NotLater(n)'
        <5>1. \A n \in Names : \A i \in DOMAIN files[n] : files[n][i].save <= saves
          BY DEF OrderInv, NotLater
        <5>2. ASSUME NEW i \in DOMAIN files'[name]
              PROVE  files'[name][i].save <= saves
          <6>1. CASE i \in DOMAIN files[name] /\ files'[name][i] = files[name][i]
            BY <5>1, <6>1, <2>a
          <6>2. CASE files'[name][i] = Entry(how)
            BY <4>1, <6>2, <2>a
          <6>3. QED BY <4>7, <6>1, <6>2
        <5>3. \A n \in Names : \A i \in DOMAIN files'[n] : files'[n][i].save <= saves
          BY <4>4, <5>1, <5>2, Zenon
        <5>4. QED BY <3>1, <5>3 DEF NotLater
      <4>9. UpTo(line)'
        BY <4>1, <4>7, <3>1, <3>3, <2>a, <2>b DEF UpTo
      <4>10. QED BY <3>1, <4>6, <4>8, <4>9 DEF OrderInv
    <3>6. QED BY <2>5, <3>4, <3>5, Zenon DEF Write
  <2>6. CASE Close
    <3>1. /\ pc = "close" /\ NextLine /\ UNCHANGED <<files, name, saves>>
      BY <2>6 DEF Close
    <3>2. UpTo(line)
      BY <3>1 DEF OrderInv
    <3>3. /\ pc' = "open" => UpTo(line - 1)'
          /\ pc' = "notify" => UpTo(line)'
          /\ pc' \in {"open", "notify"}
      BY <3>1, <3>2, <2>a, LineMovesOn
    <3>4. QED BY <3>1, <3>3 DEF OrderInv, LinesInOrder, NotLater
  <2>7. CASE Notify \/ PowerOff \/ Boot
    <3>1. pc' \in {"idle", "off"} /\ UNCHANGED <<files, saves>>
      BY <2>7 DEF Notify, PowerOff, Boot
    <3>2. QED BY <3>1 DEF OrderInv, LinesInOrder, NotLater
  <2>8. CASE UNCHANGED vars
    BY <2>8 DEF vars, OrderInv, LinesInOrder, NotLater, UpTo, Earlier
  <2>9. Open => (Open /\ SkipLine) \/ (Open /\ pc' = "write" /\ UNCHANGED line)
    BY DEF Open
  <2>10. QED
    BY <2>1, <2>2, <2>3, <2>4, <2>5, <2>6, <2>7, <2>8, <2>9 DEF Next, Step
<1>3. QED BY <1>1, <1>2, TypeInvariant, PTL DEF Spec

\* Whatever fails, and however often the console is switched off during a
\* save, no file has a line twice or out of order.
THEOREM LinesAlwaysInOrder == Spec => []LinesInOrder
<1>1. OrderInv => LinesInOrder BY DEF OrderInv
<1>2. QED BY <1>1, OrderInvariant, PTL

-----------------------------------------------------------------------------
(* What survives of an older report, and the file the user is told of.      *)

\* When the old file was removed, or there was none, the file that is written
\* has lines of this report only.
THEOREM LatestAlwaysOnly == Spec => []LatestOnly
<1>1. Init => LatestOnly
  BY DEF Init, LatestOnly, Running
<1>2. TypeInv /\ LatestOnly /\ [Next]_vars => LatestOnly'
  <2> SUFFICES ASSUME TypeInv, LatestOnly, [Next]_vars PROVE LatestOnly'
    OBVIOUS
  <2>a. name \in Names /\ line \in Lines /\ files \in [Names -> Seq(Entries)]
    BY DEF TypeInv, TypeOK
  <2>1. CASE Remove
    <3>1. name' = name /\ (files'[name] = << >> \/ fresh' = "no")
      BY <2>1, <2>a DEF Remove
    <3>2. QED BY <3>1 DEF LatestOnly
  <2>2. CASE Write
    <3>1. /\ pc = "write" /\ UNCHANGED <<saves, line, name, fresh>>
      BY <2>2, WriteFacts
    <3>2. saves \in 1 .. MaxSaves
      BY <3>1 DEF TypeInv, Saving
    <3>3. CASE UNCHANGED files
      BY <3>1, <3>3 DEF LatestOnly, Running
    <3>4. ASSUME NEW how \in {"whole", "cut"},
                 files' = [files EXCEPT ![name] = Append(@, Entry(how))]
          PROVE  LatestOnly'
      <4>1. Entry(how) \in Entries /\ Entry(how).save = saves
        BY <3>2, <2>a, EntryTyped
      <4>2. files[name] \in Seq(Entries)
        BY <2>a
      <4>3. files'[name] = Append(files[name], Entry(how))
        BY <3>4, <2>a
      <4>4. \A i \in DOMAIN files'[name] :
               \/ i \in DOMAIN files[name] /\ files'[name][i] = files[name][i]
               \/ files'[name][i] = Entry(how)
        BY <4>1, <4>2, <4>3, AppendFacts
      <4>5. QED BY <4>1, <4>4, <3>1 DEF LatestOnly, Running
    <3>5. QED BY <2>2, <3>3, <3>4, Zenon DEF Write
  <2>3. CASE GetterFails \/ Open \/ Close
    <3>1. /\ pc \in {"open", "close"}
          /\ UNCHANGED <<files, saves, name, fresh>>
      BY <2>3 DEF GetterFails, Open, Close
    <3>2. QED BY <3>1 DEF LatestOnly, Running
  <2>4. CASE Save \/ Notify \/ PowerOff \/ Boot
    <3>1. pc' \in {"remove", "idle", "off"}
      BY <2>4 DEF Save, Notify, PowerOff, Boot
    <3>2. QED BY <3>1 DEF LatestOnly, Running
  <2>5. CASE UNCHANGED vars
    BY <2>5 DEF vars, LatestOnly, Running
  <2>6. QED BY <2>1, <2>2, <2>3, <2>4, <2>5 DEF Next, Step
<1>3. QED BY <1>1, <1>2, TypeInvariant, PTL DEF Spec

\* A line after the first is only reached when the first has made the file.
FileInv ==
  /\ pc \in {"write", "close", "notify"} => name \in present
  /\ pc = "open" /\ line # 1 => name \in present

\* "Report saved to" is never said of a file that is not there.
THEOREM NotifiedFileAlwaysExists == Spec => []NotifiedFileExists
<1>1. Init => FileInv
  BY DEF Init, FileInv
<1>2. TypeInv /\ FileInv /\ [Next]_vars => FileInv'
  <2> SUFFICES ASSUME TypeInv, FileInv, [Next]_vars PROVE FileInv'
    OBVIOUS
  <2>a. line \in Lines
    BY DEF TypeInv, TypeOK
  <2>1. CASE Remove
    BY <2>1 DEF Remove, FileInv
  <2>2. CASE GetterFails
    <3>1. pc = "open" /\ SkipLine /\ UNCHANGED <<name, present>>
      BY <2>2 DEF GetterFails
    <3>2. line # 1
      BY <2>2, TableFacts DEF GetterFails
    <3>3. name' \in present'
      BY <3>1, <3>2 DEF FileInv
    <3>4. QED BY <3>3 DEF FileInv
  <2>3. CASE Open
    <3>1. pc = "open" /\ UNCHANGED name
      BY <2>3 DEF Open
    <3>2. CASE present' = present \cup {name}
      BY <3>1, <3>2 DEF FileInv
    <3>3. CASE SkipLine /\ UNCHANGED present
      BY <3>1, <3>3, SkipLineMoves DEF FileInv
    <3>4. QED BY <2>3, <3>2, <3>3 DEF Open
  <2>4. CASE Write
    BY <2>4, WriteFacts DEF FileInv
  <2>5. CASE Close
    BY <2>5 DEF Close, FileInv
  <2>6. CASE Save \/ Notify \/ PowerOff \/ Boot
    <3>1. pc' \in {"remove", "idle", "off"}
      BY <2>6 DEF Save, Notify, PowerOff, Boot
    <3>2. QED BY <3>1 DEF FileInv
  <2>7. CASE UNCHANGED vars
    BY <2>7 DEF vars, FileInv
  <2>8. QED BY <2>1, <2>2, <2>3, <2>4, <2>5, <2>6, <2>7 DEF Next, Step
<1>3. FileInv => NotifiedFileExists
  BY DEF FileInv, NotifiedFileExists
<1>4. QED BY <1>1, <1>2, <1>3, TypeInvariant, PTL DEF Spec

-----------------------------------------------------------------------------
(* Which lines are missing.  Up to the line that is being printed, the file *)
(* has exactly the lines that apply, except the ones for which a call       *)
(* failed; the lines in between do not apply.                               *)

Brought(last) ==
  /\ \A i \in Lines : i \in WholeLines <=> Applies(i) /\ i <= last /\ i \notin lost
  /\ \A i \in lost : i <= last

CompleteInv ==
  /\ pc \in {"open", "write"} => Applies(line) /\ Brought(line - 1)
  /\ pc = "close" => Brought(line)
  /\ pc = "notify" => Brought(Len(Table))

\* At the start of a save the file has nothing of it.
LEMMA NothingYet ==
  ASSUME TypeInv, OrderInv, Remove
  PROVE  CompleteInv'
<1>1. /\ pc = "remove" /\ pc' = "open" /\ line' = 1 /\ lost' = {}
      /\ UNCHANGED <<name, saves, device>>
      /\ files' = files \/ files' = [files EXCEPT ![name] = << >>]
  BY DEF Remove
<1>2. name \in Names /\ files \in [Names -> Seq(Entries)] /\ saves \in Nat
  BY ReportAssumption DEF TypeInv, TypeOK
<1>3. \A k \in DOMAIN files[name] : files[name][k].save < saves
  BY <1>1 DEF OrderInv, Earlier
<1>4. files'[name] = files[name] \/ files'[name] = << >>
  BY <1>1, <1>2
<1>5. \A k \in DOMAIN files'[name] : files'[name][k].save # saves
  BY <1>2, <1>3, <1>4, EntryFields DEF TypeInv
<1>6. WholeLines' = {}
  BY <1>1, <1>5 DEF WholeLines
<1>7. Applies(1)'
  BY <1>1, FirstLineApplies DEF Applies
<1>8. Brought(line - 1)'
  <2>1. \A i \in Lines : i \in Nat /\ i >= 1
    BY TableFacts DEF Lines
  <2>2. ASSUME NEW i \in Lines
        PROVE  ~(i <= line' - 1) /\ i \notin WholeLines'
    BY <1>1, <1>6, <2>1
  <2>3. \A i \in lost' : i <= line' - 1
    BY <1>1
  <2>4. QED BY <2>2, <2>3, Zenon DEF Brought
<1>9. QED BY <1>1, <1>7, <1>8 DEF CompleteInv

\* A line that is written whole is added to the lines that are there; one
\* that is cut, or not written, is not.
LEMMA WriteBrings ==
  ASSUME TypeInv, Applies(line), Brought(line - 1), Write
  PROVE  Brought(line)'
<1>1. /\ pc = "write" /\ UNCHANGED <<name, saves, line, device>>
  BY WriteFacts
<1>2. /\ name \in Names /\ line \in Lines /\ line \in Nat /\ saves \in 1 .. MaxSaves
      /\ files \in [Names -> Seq(Entries)]
  BY <1>1, TableFacts DEF TypeInv, TypeOK, Saving
<1>3. \A i \in Lines : Applies(i)' <=> Applies(i)
  BY <1>1 DEF Applies
<1>4. \A i \in lost : i <= line /\ i # line
  BY <1>2, TableFacts DEF Brought, TypeInv, TypeOK
<1>5. ASSUME NEW how \in {"whole", "cut"},
             files' = [files EXCEPT ![name] = Append(@, Entry(how))]
      PROVE  \A i \in Lines : i \in WholeLines' <=>
                               i \in WholeLines \/ (how = "whole" /\ i = line)
  <2>1. Entry(how) \in Entries
    BY <1>2, EntryTyped
  <2>2. files[name] \in Seq(Entries)
    BY <1>2
  <2>3. files'[name] = Append(files[name], Entry(how))
    BY <1>5, <1>2
  <2>4. /\ DOMAIN files'[name] = DOMAIN files[name] \cup {Len(files[name]) + 1}
        /\ files'[name][Len(files[name]) + 1] = Entry(how)
        /\ \A k \in DOMAIN files[name] : files'[name][k] = files[name][k]
    BY <2>1, <2>2, <2>3, AppendFacts
  <2>5. ASSUME NEW i \in Lines
        PROVE  Entry(how) = [save |-> saves, line |-> i, how |-> "whole"]
                 <=> how = "whole" /\ i = line
    BY DEF Entry
  <2>6. QED BY <1>1, <2>4, <2>5 DEF WholeLines
<1>6. CASE /\ files' = [files EXCEPT ![name] = Append(@, Entry("whole"))]
           /\ UNCHANGED lost
  <2>1. \A i \in Lines : i \in WholeLines' <=> i \in WholeLines \/ i = line
    BY <1>5, <1>6
  <2>2. ASSUME NEW i \in Lines
        PROVE  i \in WholeLines' <=> Applies(i)' /\ i <= line' /\ i \notin lost'
    BY <1>1, <1>2, <1>3, <1>4, <1>6, <2>1, TableFacts DEF Brought
  <2>3. \A i \in lost' : i <= line'
    BY <1>1, <1>4, <1>6
  <2>4. QED BY <2>2, <2>3, Zenon DEF Brought
<1>7. CASE /\ lost' = lost \cup {line}
           /\ \A i \in Lines : i \in WholeLines' <=> i \in WholeLines
  BY <1>1, <1>2, <1>3, <1>4, <1>7, TableFacts DEF Brought
<1>8. CASE files' = [files EXCEPT ![name] = Append(@, Entry("cut"))] /\ lost' = lost \cup {line}
  <2>1. \A i \in Lines : i \in WholeLines' <=> i \in WholeLines
    BY <1>5, <1>8
  <2>2. QED BY <1>7, <1>8, <2>1
<1>9. CASE UNCHANGED files /\ lost' = lost \cup {line}
  <2>1. WholeLines' = WholeLines
    BY <1>1, <1>9 DEF WholeLines
  <2>2. QED BY <1>7, <1>9, <2>1
<1>10. QED BY <1>6, <1>8, <1>9, Zenon DEF Write

LEMMA BeforeOrBetween ==
  ASSUME NEW i \in Int, NEW m \in Int, NEW n \in Int, n > m
  PROVE  i <= n - 1 <=> i <= m \/ (i > m /\ i < n)
OBVIOUS

\* Going on to the next line: no line in between applies.
LEMMA NextLineBrings ==
  ASSUME TypeInv, NextLine, UNCHANGED <<files, name, saves, device>>,
         \A i \in lost' : i \in Lines /\ i <= line,
         \A i \in Lines : i \in WholeLines <=> Applies(i) /\ i <= line /\ i \notin lost'
  PROVE  CompleteInv'
<1>1. /\ line \in Lines /\ line \in Nat /\ Len(Table) \in Nat
      /\ Lines = 1 .. Len(Table)
  BY TableFacts DEF TypeInv, TypeOK, Lines
<1>2. WholeLines' = WholeLines /\ \A i \in Lines : Applies(i)' <=> Applies(i)
  BY DEF WholeLines, Applies
<1>3. CASE /\ pc' = "open" /\ line' \in Lines /\ line' > line
           /\ Applies(line')
           /\ \A j \in Lines : j > line /\ j < line' => ~Applies(j)
  <2>1. Brought(line - 1)'
    <3>1. ASSUME NEW i \in Lines
          PROVE  i \in WholeLines' <=> Applies(i)' /\ i <= line' - 1 /\ i \notin lost'
      <4>1. i \in Int /\ line \in Int /\ line' \in Int /\ line' > line
        BY <1>1, <1>3
      <4>2. i <= line' - 1 <=> i <= line \/ (i > line /\ i < line')
        BY <4>1, BeforeOrBetween
      <4>3. ~(i > line /\ i < line') \/ ~Applies(i)
        BY <1>3
      <4>4. i > line /\ i < line' => ~(i <= line)
        BY <4>1
      <4>5. QED BY <1>2, <4>2, <4>3, <4>4, Zenon
    <3>2. \A i \in lost' : i <= line' - 1
      BY <1>1, <1>3
    <3>3. QED BY <3>1, <3>2, Zenon DEF Brought
  <2>2. Applies(line)'
    BY <1>2, <1>3 DEF Applies
  <2>3. QED BY <1>3, <2>1, <2>2 DEF CompleteInv
<1>4. CASE /\ pc' = "notify" /\ line' = line
           /\ \A j \in Lines : j > line => ~Applies(j)
  <2>1. Brought(Len(Table))'
    BY <1>1, <1>2, <1>4 DEF Brought
  <2>2. QED BY <1>4, <2>1 DEF CompleteInv
<1>5. QED BY <1>1, <1>3, <1>4, NextLineMoves

LEMMA CompleteInvariant == Spec => []CompleteInv
<1>1. Init => CompleteInv
  BY DEF Init, CompleteInv
<1>2. TypeInv /\ OrderInv /\ CompleteInv /\ [Next]_vars => CompleteInv'
  <2> SUFFICES ASSUME TypeInv, OrderInv, CompleteInv, [Next]_vars PROVE CompleteInv'
    OBVIOUS
  <2>a. line \in Lines /\ line \in Nat /\ lost \subseteq Lines /\ Lines \subseteq Nat
    BY TableFacts DEF TypeInv, TypeOK
  <2>1. CASE Remove
    BY <2>1, NothingYet
  <2>2. CASE GetterFails \/ (Open /\ SkipLine)
    <3>1. pc = "open" /\ SkipLine /\ UNCHANGED <<files, name, saves, device>>
      BY <2>2 DEF GetterFails, Open
    <3>2. Applies(line) /\ Brought(line - 1) /\ lost' = lost \cup {line}
      BY <3>1, SkipLineMoves DEF CompleteInv
    <3>3. CASE NextLine
      <4>1. \A i \in lost' : i \in Lines /\ i <= line
        BY <2>a, <3>2 DEF Brought
      <4>2. \A i \in Lines : i \in WholeLines <=> Applies(i) /\ i <= line /\ i \notin lost'
        BY <2>a, <3>2 DEF Brought
      <4>3. QED BY <3>1, <3>3, <4>1, <4>2, NextLineBrings
    <3>4. CASE pc' = "idle"
      BY <3>4 DEF CompleteInv
    <3>5. QED BY <3>1, <3>3, <3>4, SkipLineMoves
  <2>3. CASE Open /\ pc' = "write" /\ UNCHANGED <<line, lost>>
    <3>1. /\ pc = "open"
          /\ UNCHANGED <<files, name, saves, device, line, lost>>
      BY <2>3 DEF Open
    <3>2. QED BY <2>3, <3>1 DEF CompleteInv, Brought, WholeLines, Applies
  <2>4. CASE Write
    <3>1. pc = "write" /\ pc' = "close"
      BY <2>4, WriteFacts
    <3>2. QED BY <2>4, <3>1, WriteBrings DEF CompleteInv
  <2>5. CASE Close
    <3>1. /\ pc = "close" /\ NextLine
          /\ UNCHANGED <<files, name, saves, device, lost>>
      BY <2>5 DEF Close
    <3>2. Brought(line)
      BY <3>1 DEF CompleteInv
    <3>3. /\ \A i \in lost' : i \in Lines /\ i <= line
          /\ \A i \in Lines : i \in WholeLines <=> Applies(i) /\ i <= line /\ i \notin lost'
      BY <2>a, <3>1, <3>2 DEF Brought
    <3>4. QED BY <3>1, <3>3, NextLineBrings
  <2>6. CASE Save \/ Notify \/ PowerOff \/ Boot
    <3>1. pc' \in {"remove", "idle", "off"}
      BY <2>6 DEF Save, Notify, PowerOff, Boot
    <3>2. QED BY <3>1 DEF CompleteInv
  <2>7. CASE UNCHANGED vars
    BY <2>7 DEF vars, CompleteInv, Brought, WholeLines, Applies
  <2>8. Open => (Open /\ SkipLine) \/ (Open /\ pc' = "write" /\ UNCHANGED <<line, lost>>)
    BY DEF Open
  <2>9. QED BY <2>1, <2>2, <2>3, <2>4, <2>5, <2>6, <2>7, <2>8 DEF Next, Step
<1>3. QED BY <1>1, <1>2, TypeInvariant, OrderInvariant, PTL DEF Spec

\* When the report ends, the file lacks the lines for which a call failed, and
\* no other: one failure does not cost a second line.
THEOREM OnlyFailedLinesAreMissing == Spec => []OnlyFailedLinesMissing
<1>1. TypeInv /\ CompleteInv => OnlyFailedLinesMissing
  <2> SUFFICES ASSUME TypeInv, CompleteInv, pc = "notify"
               PROVE  WholeLines = {i \in Lines : Applies(i)} \ lost
    BY DEF OnlyFailedLinesMissing
  <2>1. Brought(Len(Table))
    BY DEF CompleteInv
  <2>2. \A i \in Lines : i <= Len(Table)
    BY TableFacts DEF Lines
  <2>3. WholeLines \subseteq Lines
    BY DEF WholeLines
  <2>4. QED BY <2>1, <2>2, <2>3 DEF Brought
<1>2. QED BY <1>1, TypeInvariant, CompleteInvariant, PTL

=============================================================================
