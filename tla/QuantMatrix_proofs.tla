--------------------------- MODULE QuantMatrix_proofs --------------------------
(***************************************************************************)
(* The quantisation matrix, for any list of models, any number of starts,  *)
(* failing commands and interruptions.                                     *)
(***************************************************************************)
EXTENDS QuantMatrix, TLAPS

--------------------------------------------------------------------------------
(***************************************************************************)
(* The lists.                                                              *)
(***************************************************************************)
LEMMA Lists ==
  /\ Len(Names) \in Nat /\ Len(Names) > 0
  /\ \A k \in 1 .. Len(Names) : Names[k] \in Models
  /\ \A x \in Models : \E k \in 1 .. Len(Names) : Names[k] = x
  /\ Len(Modes) = 2 /\ Modes[1] = "HTP0" /\ Modes[2] = "CPU"
  /\ ToSet(Modes) = {"HTP0", "CPU"}
  /\ MaxRuns \in Nat /\ MaxFailures \in Nat
<1>1. Len(Names) \in Nat /\ Len(Names) > 0 /\ MaxRuns \in Nat /\ MaxFailures \in Nat
  BY MatrixAssumption
<1>2. Models = {Names[k] : k \in 1 .. Len(Names)}
  BY MatrixAssumption DEF Models, ToSet
<1>3. Len(Modes) = 2 /\ Modes[1] = "HTP0" /\ Modes[2] = "CPU" /\ DOMAIN Modes = 1 .. 2
  BY DEF Modes
<1>4. ToSet(Modes) = {Modes[k] : k \in 1 .. 2}
  BY <1>3 DEF ToSet
<1>5. \A k \in 1 .. 2 : k = 1 \/ k = 2
  OBVIOUS
<1>6. ToSet(Modes) = {"HTP0", "CPU"}
  BY <1>3, <1>4, <1>5
<1>. QED BY <1>1, <1>2, <1>3, <1>6

\* The model and the mode the script is at.
LEMMA Current ==
  ASSUME TypeOK
  PROVE  /\ Name \in Models /\ Mode \in {"HTP0", "CPU"}
         /\ At \in Models \X ToSet(Modes)
         /\ n \in 1 .. Len(Names) /\ m \in 1 .. 2
<1>1. n \in 1 .. Len(Names) /\ m \in 1 .. 2
  BY Lists DEF TypeOK
<1>2. Mode \in {"HTP0", "CPU"}
  <2>1. m = 1 \/ m = 2
    BY <1>1
  <2>. QED BY <2>1, Lists DEF Mode
<1>. QED BY <1>1, <1>2, Lists DEF Name, At

\* NextModel stays in the phase or ends it.
LEMMA ModelLoop ==
  ASSUME TypeOK, NEW phase, NEW following, NextModel(phase, following)
  PROVE  /\ n' \in 1 .. Len(Names)
         /\ \/ n < Len(Names) /\ pc' = phase /\ n' = n + 1
            \/ n = Len(Names) /\ pc' = following /\ n' = 1
BY Lists DEF TypeOK, NextModel

\* A command's outcome only counts.
LEMMA OutcomeTypes ==
  ASSUME TypeOK, NEW good \in BOOLEAN, Outcome(good)
  PROVE  /\ failures' \in 0 .. MaxFailures /\ clean' \in BOOLEAN
         /\ clean' => clean /\ good
<1>1. failures' \in 0 .. MaxFailures
  BY Lists DEF TypeOK, Outcome
<1>. QED BY <1>1 DEF TypeOK, Outcome

\* A program only ends well with a whole model.
LEMMA ProgramTypes ==
  ASSUME TypeOK, NEW good \in BOOLEAN, ProgramEnds(good)
  PROVE  /\ failures' \in 0 .. MaxFailures /\ clean' \in BOOLEAN /\ (clean' => clean)
         /\ good => device[Name] = "whole"
<1>1. CASE device[Name] = "whole"
  BY <1>1, OutcomeTypes DEF ProgramEnds
<1>2. CASE device[Name] # "whole"
  BY <1>2 DEF ProgramEnds, TypeOK
<1>. QED BY <1>1, <1>2

\* The logs a run opens.
LEMMA OpenedTypes ==
  ASSUME TypeOK
  PROVE  /\ \A k \in 0 .. 30 :
              LET l == [Opened EXCEPT !.layers = k]
              IN  l \in Log /\ l.run = runs /\ l.file = device[Name] /\ l.layers = k
         /\ \A good \in BOOLEAN :
              LET b == [BenchOpened EXCEPT !.done = good]
              IN  b \in Bench /\ b.run = runs /\ b.file = device[Name] /\ b.done = good
         /\ Opened \in Log /\ BenchOpened \in Bench
<1>1. runs \in 0 .. MaxRuns /\ device[Name] \in DeviceFile
  BY Current DEF TypeOK
<1>. QED BY <1>1 DEF Opened, BenchOpened, Log, Bench

\* A run to the end of the push phase leaves the device like the host.
LEMMA AllCopied ==
  ASSUME TypeOK, Copied, pc \notin {"push", "copy"}
  PROVE  \A x \in Models : device[x] = host[x]
BY Lists DEF Copied

--------------------------------------------------------------------------------
(***************************************************************************)
(* The actions.                                                            *)
(***************************************************************************)
LEMMA InitInv == Init => IInv
<1>. SUFFICES ASSUME Init PROVE IInv
  OBVIOUS
<1>1. TypeOK
  <2>1. NoLog \in Log /\ NoBench \in Bench
    BY Lists DEF NoLog, Log, NoBench, Bench, DeviceFile, HostFile
  <2>2. n \in 1 .. Len(Names) /\ m \in 1 .. Len(Modes)
    BY Lists DEF Init
  <2>3. host \in [Models -> HostFile] /\ device \in [Models -> DeviceFile]
    BY DEF Init, HostFile, DeviceFile
  <2>4. /\ log \in [Models \X ToSet(Modes) -> Log] /\ csv \in Seq(Row)
        /\ bench \in [Models \X ToSet(Modes) -> Bench]
    BY <2>1 DEF Init
  <2>. QED BY <2>2, <2>3, <2>4, Lists DEF Init, TypeOK
<1>. QED BY <1>1 DEF Init, IInv, CleanEnd, RowsOfThisRun, DeviceRepaired, MatrixComplete

LEMMA StartKeeps == IInv /\ Start => IInv'
<1>. SUFFICES ASSUME IInv, Start PROVE IInv'
  OBVIOUS
<1>1. TypeOK'
  BY Lists DEF Start, IInv, TypeOK
<1>2. Generated'
  BY Lists DEF Start, Generated
<1>. QED BY <1>1, <1>2, Lists
         DEF Start, IInv, TypeOK, CleanEnd, RowsOfThisRun, DeviceRepaired, MatrixComplete

LEMMA GenSkipKeeps == IInv /\ GenSkip => IInv'
<1>. SUFFICES ASSUME IInv, GenSkip PROVE IInv'
  OBVIOUS
<1>1. /\ n' \in 1 .. Len(Names) /\ n \in Nat
      /\ \/ n < Len(Names) /\ pc' = "gen" /\ n' = n + 1
         \/ n = Len(Names) /\ pc' = "push" /\ n' = 1
  BY ModelLoop, Current DEF GenSkip, IInv
<1>2. TypeOK'
  BY <1>1 DEF GenSkip, IInv, TypeOK
<1>3. clean' => Generated'
  BY <1>1, Lists DEF GenSkip, IInv, Generated, Name
<1>4. pc' = "push" => Copied'
  BY <1>1, Lists DEF Copied
<1>. QED BY <1>1, <1>2, <1>3, <1>4
         DEF GenSkip, IInv, CleanEnd, RowsOfThisRun, DeviceRepaired, MatrixComplete

LEMMA GenKeeps == IInv /\ Gen => IInv'
<1>. SUFFICES ASSUME IInv, Gen PROVE IInv'
  OBVIOUS
<1>1. TypeOK'
  BY Current DEF Gen, IInv, TypeOK, HostFile
<1>2. \A x \in Models : host[x] # "none" => host'[x] # "none"
  BY Current DEF Gen, IInv, TypeOK
<1>3. clean' => Generated'
  BY <1>2, Lists DEF Gen, IInv, Generated
<1>. QED BY <1>1, <1>3 DEF Gen, IInv, CleanEnd, RowsOfThisRun, DeviceRepaired, MatrixComplete

LEMMA QuantizedKeeps ==
  ASSUME NEW good \in BOOLEAN PROVE IInv /\ Quantized(good) => IInv'
<1>. SUFFICES ASSUME IInv, Quantized(good) PROVE IInv'
  OBVIOUS
<1>1. /\ n' \in 1 .. Len(Names) /\ n \in Nat
      /\ \/ n < Len(Names) /\ pc' = "gen" /\ n' = n + 1
         \/ n = Len(Names) /\ pc' = "push" /\ n' = 1
  BY ModelLoop, Current DEF Quantized, IInv
<1>2. failures' \in 0 .. MaxFailures /\ clean' \in BOOLEAN /\ (clean' => clean /\ good)
  BY OutcomeTypes DEF Quantized, IInv
<1>3. host' \in [Models -> HostFile] /\ \A x \in Models : host[x] # "none" => host'[x] # "none"
  BY Current DEF Quantized, IInv, TypeOK, HostFile
<1>4. TypeOK'
  BY <1>1, <1>2, <1>3 DEF Quantized, IInv, TypeOK
<1>5. clean' => Generated'
  <2>. SUFFICES ASSUME clean' PROVE Generated'
    OBVIOUS
  <2>1. host'[Names[n]] # "none"
    BY <1>2, Current DEF Quantized, IInv, TypeOK, Name
  <2>. QED BY <1>1, <1>2, <1>3, <2>1, Lists DEF Quantized, IInv, Generated
<1>6. pc' = "push" => Copied'
  BY <1>1, Lists DEF Copied
<1>. QED BY <1>1, <1>2, <1>4, <1>5, <1>6
         DEF Quantized, IInv, CleanEnd, RowsOfThisRun, DeviceRepaired, MatrixComplete

\* The end of a push, or of no push: what the two ways have in common.
LEMMA PushLoop ==
  ASSUME IInv, m' = m, m = 1, NextModel("push", "run"), runs' = runs, runs > 0,
         log' = log, bench' = bench, host' = host,
         device' \in [Models -> DeviceFile],
         csv' = IF n = Len(Names) THEN <<>> ELSE csv,
         failures' \in 0 .. MaxFailures, clean' \in BOOLEAN,
         clean' => /\ clean /\ Generated /\ pc \in {"push", "copy"}
                   /\ \A k \in 1 .. Len(Names) : k < n + 1 => device'[Names[k]] = host[Names[k]]
  PROVE  IInv'
<1>1. /\ n' \in 1 .. Len(Names) /\ n \in Nat
      /\ \/ n < Len(Names) /\ pc' = "push" /\ n' = n + 1
         \/ n = Len(Names) /\ pc' = "run" /\ n' = 1
  BY ModelLoop, Current DEF IInv
<1>2. csv' \in Seq(Row) /\ (pc' = "run" => csv' = <<>>)
  BY <1>1 DEF IInv, TypeOK
<1>3. TypeOK'
  BY <1>1, <1>2 DEF IInv, TypeOK
<1>4. clean' => Generated'
  BY <1>1, Lists DEF Generated
<1>5. clean' => Copied'
  BY <1>1, Lists DEF Copied
<1>6. pc' = "run" => Measured' /\ RowsOfThisRun'
  BY <1>1, <1>2, Lists DEF Measured, RowsOfThisRun, Rows
<1>. QED BY <1>1, <1>3, <1>4, <1>5, <1>6
         DEF IInv, CleanEnd, RowsOfThisRun, DeviceRepaired, MatrixComplete

LEMMA PushSkipKeeps == IInv /\ PushSkip => IInv'
<1>. SUFFICES ASSUME IInv, PushSkip PROVE IInv'
  OBVIOUS
<1>1. /\ m' = m /\ m = 1 /\ NextModel("push", "run") /\ runs' = runs /\ runs > 0
      /\ log' = log /\ bench' = bench /\ host' = host /\ device' = device /\ clean' = clean
      /\ csv' = IF n = Len(Names) THEN <<>> ELSE csv
      /\ device' \in [Models -> DeviceFile]
      /\ failures' \in 0 .. MaxFailures /\ clean' \in BOOLEAN
  BY DEF PushSkip, IInv, TypeOK
<1>2. ASSUME clean'
      PROVE  /\ clean /\ Generated /\ pc \in {"push", "copy"}
             /\ \A k \in 1 .. Len(Names) : k < n + 1 => device'[Names[k]] = host[Names[k]]
  <2>1. clean /\ Generated /\ Copied /\ pc = "push"
    BY <1>1, <1>2 DEF PushSkip, IInv
  <2>2. host[Names[n]] # "none"
    BY <2>1, Current DEF Generated, IInv
  <2>3. device[Names[n]] = host[Names[n]]
    BY <2>2 DEF PushSkip, SameSize, Name
  <2>4. \A k \in 1 .. Len(Names) : k < n + 1 => k < n \/ k = n
    BY Current, Lists DEF IInv
  <2>. QED BY <1>1, <2>1, <2>3, <2>4 DEF Copied
<1>. QED BY <1>1, <1>2, PushLoop

LEMMA PushKeeps == IInv /\ Push => IInv'
<1>. SUFFICES ASSUME IInv, Push PROVE IInv'
  OBVIOUS
<1>. DEFINE sure == ~SameSize(Name)
<1>. HIDE DEF sure
<1>0. sure \in BOOLEAN /\ Outcome(sure)
  BY DEF sure, Push, SameSize
<1>1. /\ failures' \in 0 .. MaxFailures /\ clean' \in BOOLEAN
      /\ clean' => clean /\ device[Name] # host[Name]
  BY <1>0, OutcomeTypes DEF IInv, sure, SameSize
<1>4. TypeOK'
  BY <1>1, Current DEF Push, IInv, TypeOK, DeviceFile
<1>2. clean' => Generated'
  BY <1>1, Lists DEF Push, IInv, Generated
<1>3. clean' => Copied'
  <2>. SUFFICES ASSUME clean', NEW k \in 1 .. Len(Names), k < n
                PROVE  device'[Names[k]] = host[Names[k]]
    BY DEF Push, Copied
  <2>1. device[Names[k]] = host[Names[k]]
    BY <1>1 DEF Push, IInv, Copied
  <2>2. Names[k] # Name
    BY <1>1, <2>1
  <2>. QED BY <2>1, <2>2, Lists DEF Push, IInv, TypeOK
<1>. QED BY <1>1, <1>2, <1>3, <1>4
         DEF Push, IInv, CleanEnd, RowsOfThisRun, DeviceRepaired, MatrixComplete

LEMMA PushedKeeps ==
  ASSUME NEW good \in BOOLEAN PROVE IInv /\ Pushed(good) => IInv'
<1>. SUFFICES ASSUME IInv, Pushed(good) PROVE IInv'
  OBVIOUS
<1>1. failures' \in 0 .. MaxFailures /\ clean' \in BOOLEAN /\ (clean' => clean /\ good)
  BY OutcomeTypes DEF Pushed, IInv
<1>2. device' \in [Models -> DeviceFile]
  BY Current DEF Pushed, IInv, TypeOK, DeviceFile
<1>3. /\ m' = m /\ m = 1 /\ NextModel("push", "run") /\ runs' = runs /\ runs > 0
      /\ log' = log /\ bench' = bench /\ host' = host
      /\ csv' = IF n = Len(Names) THEN <<>> ELSE csv
  BY DEF Pushed, IInv
<1>4. ASSUME clean'
      PROVE  /\ clean /\ Generated /\ pc \in {"push", "copy"}
             /\ \A k \in 1 .. Len(Names) : k < n + 1 => device'[Names[k]] = host[Names[k]]
  <2>1. clean /\ good /\ Generated /\ Copied /\ pc = "copy"
    BY <1>1, <1>4 DEF Pushed, IInv
  <2>2. device' = [device EXCEPT ![Name] = host[Name]]
    BY <2>1 DEF Pushed
  <2>3. \A k \in 1 .. Len(Names) : k < n + 1 => k < n \/ Names[k] = Name
    BY Current, Lists DEF IInv, Name
  <2>4. \A k \in 1 .. Len(Names) : k < n => device[Names[k]] = host[Names[k]]
    BY <2>1 DEF Copied
  <2>. QED BY <2>1, <2>2, <2>3, <2>4, Lists DEF IInv, TypeOK
<1>. QED BY <1>1, <1>2, <1>3, <1>4, PushLoop

LEMMA RunSkipKeeps == IInv /\ RunSkip => IInv'
<1>. SUFFICES ASSUME IInv, RunSkip PROVE IInv'
  OBVIOUS
<1>1. /\ n' \in 1 .. Len(Names) /\ n \in Nat
      /\ \/ n < Len(Names) /\ pc' = "run" /\ n' = n + 1
         \/ n = Len(Names) /\ pc' = "off" /\ n' = 1
  BY ModelLoop, Current DEF RunSkip, IInv
<1>2. TypeOK'
  BY <1>1 DEF RunSkip, IInv, TypeOK
<1>3. ~clean
  BY Current DEF RunSkip, IInv, Generated, Name
<1>4. RowsOfThisRun'
  BY <1>3 DEF RunSkip, IInv, RowsOfThisRun, OwnRow, CleanEnd, Rows
<1>. QED BY <1>1, <1>2, <1>3, <1>4 DEF RunSkip, IInv, CleanEnd, DeviceRepaired, MatrixComplete

LEMMA RunAllocKeeps == IInv /\ RunAlloc => IInv'
<1>. SUFFICES ASSUME IInv, RunAlloc PROVE IInv'
  OBVIOUS
<1>1. TypeOK'
  BY OpenedTypes, Current DEF RunAlloc, IInv, TypeOK
<1>2. RowsOfThisRun' /\ (clean' => Generated' /\ Copied' /\ Measured')
  BY DEF RunAlloc, IInv, RowsOfThisRun, OwnRow, Rows, Generated, Copied, Measured
<1>3. log'[At'] = Opened'
  <2>1. log'[At] = Opened
    BY Current DEF RunAlloc, IInv, TypeOK
  <2>. QED BY <2>1 DEF RunAlloc, At, Name, Mode, Opened
<1>. QED BY <1>1, <1>2, <1>3
         DEF RunAlloc, IInv, Name, CleanEnd, DeviceRepaired, MatrixComplete

\* A row is added for the current model and mode, read from this run's logs.
LEMMA RowLoop ==
  ASSUME IInv, pc = "bench", NEW l \in Log, NEW b \in Bench,
         l.run = runs, l.layers > 0 => Mode = "HTP0" /\ l.file = "whole",
         b.run = runs, b.done => b.file = "whole",
         csv' = Append(csv, RowOf(l, b)), NextRow,
         log' = log, bench' \in [Models \X ToSet(Modes) -> Bench],
         failures' \in 0 .. MaxFailures, clean' \in BOOLEAN, clean' => clean,
         UNCHANGED <<host, device, runs>>
  PROVE  IInv'
<1>. DEFINE row == RowOf(l, b)
<1>1. row \in Row /\ row.name = Names[n] /\ row.mode = Modes[m] /\ OwnRow(row)
  <2>0. l.layers \in 0 .. 30
    BY DEF Log
  <2>1. \A k \in 0 .. 30 : 30 - k \in 0 .. 30
    OBVIOUS
  <2>. QED BY <2>0, <2>1, Current DEF IInv, RowOf, Row, OwnRow, Name, Mode
<1>. HIDE DEF row
<1>2. /\ csv \in Seq(Row) /\ csv' = Append(csv, row) /\ Len(csv') = Len(csv) + 1
      /\ csv' \in Seq(Row) /\ Len(csv) \in Nat
      /\ \A i \in DOMAIN csv : i \in DOMAIN csv' /\ csv'[i] = csv[i]
      /\ Len(csv) + 1 \in DOMAIN csv' /\ csv'[Len(csv) + 1] = row
      /\ \A i \in DOMAIN csv' : csv'[i] = row \/ (i \in DOMAIN csv /\ csv'[i] = csv[i])
  BY <1>1 DEF IInv, TypeOK, row
<1>3. /\ n \in 1 .. Len(Names) /\ m \in 1 .. 2 /\ Len(Names) \in Nat
      /\ \/ m = 1 /\ pc' = "run" /\ m' = 2 /\ n' = n
         \/ m = 2 /\ n < Len(Names) /\ pc' = "run" /\ n' = n + 1 /\ m' = 1
         \/ m = 2 /\ n = Len(Names) /\ pc' = "off" /\ n' = 1 /\ m' = 1
  <2>1. CASE m < Len(Modes)
    BY <2>1, Current, Lists DEF IInv, NextRow
  <2>2. CASE ~(m < Len(Modes))
    <3>1. m = 2 /\ NextModel("run", "off") /\ m' = 1
      BY <2>2, Current, Lists DEF IInv, NextRow
    <3>. QED BY <3>1, ModelLoop, Current, Lists DEF IInv
  <2>. QED BY <2>1, <2>2
<1>4. TypeOK'
  BY <1>2, <1>3, Lists DEF IInv, TypeOK
<1>5. RowsOfThisRun'
  <2>1. \A r \in Rows : OwnRow(r)
    BY DEF IInv, RowsOfThisRun
  <2>2. \A r \in Rows' : r = row \/ r \in Rows
    BY <1>2 DEF Rows
  <2>3. \A r \in Rows' : OwnRow(r)'
    BY <1>1, <2>1, <2>2 DEF OwnRow
  <2>. QED BY <2>3 DEF RowsOfThisRun
<1>6. ASSUME clean'
      PROVE  /\ Len(csv') = (n - 1) * 2 + m
             /\ \A k \in 1 .. Len(Names), j \in 1 .. 2 : k < n \/ (k = n /\ j <= m) =>
                  \E i \in DOMAIN csv' : csv'[i].name = Names[k] /\ csv'[i].mode = Modes[j]
  <2>1. Measured
    BY <1>6 DEF IInv
  <2>2. Len(csv') = (n - 1) * 2 + m
    BY <1>2, <1>3, <2>1, Lists DEF Measured
  <2>3. ASSUME NEW k \in 1 .. Len(Names), NEW j \in 1 .. 2, k < n \/ (k = n /\ j <= m)
        PROVE  \E i \in DOMAIN csv' : csv'[i].name = Names[k] /\ csv'[i].mode = Modes[j]
    <3>1. CASE k = n /\ j = m
      BY <1>1, <1>2, <3>1
    <3>2. CASE ~(k = n /\ j = m)
      <4>1. k < n \/ (k = n /\ j < m)
        BY <1>3, <2>3, <3>2
      <4>2. PICK i \in DOMAIN csv : csv[i].name = Names[k] /\ csv[i].mode = Modes[j]
        BY <2>1, <4>1, Lists DEF Measured
      <4>. QED BY <1>2, <4>2
    <3>. QED BY <3>1, <3>2
  <2>. QED BY <2>2, <2>3
<1>7. clean' /\ pc' = "run" => Measured'
  <2>. SUFFICES ASSUME clean', pc' = "run" PROVE Measured'
    OBVIOUS
  <2>1. Len(csv') = (n' - 1) * Len(Modes) + (m' - 1)
    <3>1. Len(csv') = (n - 1) * 2 + m
      BY <1>6
    <3>2. n \in Int /\ m \in Int /\ Len(Modes) = 2
      BY <1>3, Lists
    <3>3. CASE m = 1
      <4>1. n' = n /\ m' - 1 = m
        BY <1>3, <3>3
      <4>. QED BY <3>1, <3>2, <4>1
    <3>4. CASE m = 2
      <4>1. n' - 1 = n /\ m' - 1 = 0
        BY <1>3, <3>4
      <4>2. (n - 1) * 2 + m = n * 2 + 0
        BY <3>2, <3>4
      <4>. QED BY <3>1, <3>2, <4>1, <4>2
    <3>. QED BY <1>3, <3>3, <3>4
  <2>2. ASSUME NEW k \in 1 .. Len(Names), NEW j \in 1 .. 2, k < n' \/ (k = n' /\ j < m')
        PROVE  \E i \in DOMAIN csv' : csv'[i].name = Names[k] /\ csv'[i].mode = Modes[j]
    <3>1. k < n \/ (k = n /\ j <= m)
      BY <1>3, <2>2
    <3>. QED BY <1>6, <3>1
  <2>3. 1 .. Len(Modes) = 1 .. 2
    BY Lists
  <2>. QED BY <2>1, <2>2, <2>3 DEF Measured
<1>8. DeviceRepaired'
  <2>. SUFFICES ASSUME clean' PROVE \A x \in Models : device'[x] = host'[x]
    BY DEF DeviceRepaired, CleanEnd
  <2>. QED BY AllCopied DEF IInv
<1>9. MatrixComplete'
  <2>. SUFFICES ASSUME clean', pc' = "off" PROVE MatrixComplete'
    BY DEF MatrixComplete, CleanEnd
  <2>1. m = 2 /\ n = Len(Names)
    BY <1>3
  <2>2. Len(csv') = Len(Names) * Len(Modes)
    BY <1>3, <1>6, <2>1, Lists
  <2>3. ASSUME NEW x \in Models, NEW y \in ToSet(Modes)
        PROVE  \E r \in Rows' : r.name = x /\ r.mode = y
    <3>1. PICK k \in 1 .. Len(Names) : Names[k] = x
      BY Lists
    <3>2. PICK j \in 1 .. 2 : Modes[j] = y
      BY Lists
    <3>3. k < n \/ (k = n /\ j <= m)
      BY <1>3, <2>1
    <3>4. PICK i \in DOMAIN csv' : csv'[i].name = Names[k] /\ csv'[i].mode = Modes[j]
      BY <1>6, <3>3
    <3>. QED BY <3>1, <3>2, <3>4 DEF Rows
  <2>. QED BY <2>2, <2>3 DEF MatrixComplete
<1>10. clean' => Generated' /\ Copied'
  BY <1>3 DEF IInv, Generated, Copied
<1>. QED BY <1>3, <1>4, <1>5, <1>7, <1>8, <1>9, <1>10 DEF IInv

LEMMA RunEndsKeeps ==
  ASSUME NEW good \in BOOLEAN PROVE IInv /\ RunEnds(good) => IInv'
<1>. SUFFICES ASSUME IInv, RunEnds(good) PROVE IInv'
  OBVIOUS
<1>1. PICK k \in Layers(good) : log' = [log EXCEPT ![At] = [Opened EXCEPT !.layers = k]]
  <2>1. log[At] = Opened
    BY DEF RunEnds, IInv
  <2>. QED BY <2>1 DEF RunEnds
<1>2. k \in 0 .. 30 /\ (k > 0 => Mode = "HTP0" /\ device[Name] = "whole")
  BY Current, MatrixAssumption DEF Layers, IInv
<1>. DEFINE l == [Opened EXCEPT !.layers = k]
<1>3. l \in Log /\ l.run = runs /\ l.file = device[Name] /\ l.layers = k
  BY <1>2, OpenedTypes DEF IInv
<1>. HIDE DEF l
<1>4. /\ log' = [log EXCEPT ![At] = l] /\ log \in [Models \X ToSet(Modes) -> Log]
      /\ bench' = [bench EXCEPT ![At] = BenchOpened] /\ bench \in [Models \X ToSet(Modes) -> Bench]
      /\ At \in Models \X ToSet(Modes) /\ BenchOpened \in Bench
      /\ pc = "busy" /\ pc' = "bench" /\ UNCHANGED <<n, m, host, device, csv, runs>>
  BY <1>1, OpenedTypes, Current DEF RunEnds, IInv, TypeOK, l
<1>5. log' \in [Models \X ToSet(Modes) -> Log] /\ bench' \in [Models \X ToSet(Modes) -> Bench]
  BY <1>3, <1>4
<1>6. /\ log'[At] = l /\ bench'[At] = BenchOpened /\ BenchOpened' = BenchOpened
      /\ At' = At /\ Mode' = Mode /\ Name' = Name
  BY <1>4 DEF At, Name, Mode, BenchOpened
<1>7. failures' \in 0 .. MaxFailures /\ clean' \in BOOLEAN /\ (clean' => clean)
  BY ProgramTypes DEF RunEnds, IInv
<1>8. TypeOK'
  BY <1>4, <1>5, <1>7 DEF IInv, TypeOK
<1>9. RowsOfThisRun' /\ (clean' => Generated' /\ Copied' /\ Measured')
  <2>1. \A r \in Rows' : OwnRow(r)'
    BY <1>4 DEF IInv, RowsOfThisRun, OwnRow, Rows
  <2>2. clean' => Generated /\ Copied /\ Measured
    BY <1>4, <1>7 DEF IInv
  <2>3. Generated /\ Copied /\ Measured => Generated' /\ Copied' /\ Measured'
    BY <1>4 DEF Generated, Copied, Measured
  <2>. QED BY <2>1, <2>2, <2>3 DEF RowsOfThisRun
<1>10. /\ log'[At'].run = runs'
       /\ log'[At'].layers > 0 => Mode' = "HTP0" /\ log'[At'].file = "whole"
  BY <1>2, <1>3, <1>4, <1>6
<1>11. host'[Name'] # "none" /\ bench'[At'] = BenchOpened'
  BY <1>4, <1>6 DEF IInv
<1>. QED BY <1>4, <1>7, <1>8, <1>9, <1>10, <1>11
         DEF IInv, CleanEnd, DeviceRepaired, MatrixComplete

LEMMA BenchEndsKeeps ==
  ASSUME NEW good \in BOOLEAN PROVE IInv /\ BenchEnds(good) => IInv'
<1>. SUFFICES ASSUME IInv, BenchEnds(good) PROVE IInv'
  OBVIOUS
<1>. DEFINE b == [BenchOpened EXCEPT !.done = good]
<1>1. b \in Bench /\ b.run = runs /\ (b.done => b.file = "whole")
  BY OpenedTypes, ProgramTypes DEF BenchEnds, IInv
<1>2. bench' = [bench EXCEPT ![At] = b]
  BY DEF BenchEnds, IInv
<1>. HIDE DEF b
<1>3. bench' \in [Models \X ToSet(Modes) -> Bench] /\ bench'[At] = b
  BY <1>1, <1>2, Current DEF IInv, TypeOK
<1>4. /\ pc = "bench" /\ csv' = Append(csv, RowOf(log[At], b)) /\ NextRow
      /\ UNCHANGED <<host, device, log, runs>>
  BY <1>3 DEF BenchEnds
<1>5. failures' \in 0 .. MaxFailures /\ clean' \in BOOLEAN /\ (clean' => clean)
  BY ProgramTypes DEF BenchEnds, IInv
<1>6. /\ log[At] \in Log /\ log[At].run = runs
      /\ log[At].layers > 0 => Mode = "HTP0" /\ log[At].file = "whole"
  BY <1>4, Current DEF IInv, TypeOK
<1>. QED BY <1>1, <1>3, <1>4, <1>5, <1>6, RowLoop

LEMMA InterruptKeeps == IInv /\ Interrupt => IInv'
BY DEF Interrupt, IInv, TypeOK, CleanEnd, RowsOfThisRun, DeviceRepaired, MatrixComplete

--------------------------------------------------------------------------------
(***************************************************************************)
(* The theorems.                                                           *)
(***************************************************************************)

\* How far a run without failures has come in each phase of the script, and which
\* run the log of the program under way is of, whatever went before.
THEOREM Inductive == Spec => []IInv
<1>1. IInv /\ [Next]_vars => IInv'
  <2>. SUFFICES ASSUME IInv, [Next]_vars PROVE IInv'
    OBVIOUS
  <2>1. CASE UNCHANGED vars
    BY <2>1 DEF vars, IInv, TypeOK, Opened, BenchOpened, At, Name, Mode, Generated, Copied, Measured,
                RowsOfThisRun, OwnRow, Rows, CleanEnd, DeviceRepaired, MatrixComplete
  <2>. QED BY <2>1, StartKeeps, GenSkipKeeps, GenKeeps, QuantizedKeeps, PushSkipKeeps,
              PushKeeps, PushedKeeps, RunSkipKeeps, RunAllocKeeps, RunEndsKeeps,
              BenchEndsKeeps, InterruptKeeps DEF Next, Finished
<1>. QED BY InitInv, <1>1, PTL DEF Spec

\* No row is made of what an earlier run left in a log; layers on HTP0 are only ever
\* counted of an HTP0 run of the whole model, and a throughput is only there of one.
THEOREM OwnRows == Spec => []RowsOfThisRun
<1>1. IInv => RowsOfThisRun
  BY DEF IInv
<1>. QED BY Inductive, <1>1, PTL

\* After a run without failures the device holds what the host holds, whatever an
\* interrupted push left there.
THEOREM Repaired == Spec => []DeviceRepaired
<1>1. IInv => DeviceRepaired
  BY DEF IInv
<1>. QED BY Inductive, <1>1, PTL

\* After a run without failures the table has a row per model and mode, and no more.
THEOREM Complete == Spec => []MatrixComplete
<1>1. IInv => MatrixComplete
  BY DEF IInv
<1>. QED BY Inductive, <1>1, PTL
================================================================================
