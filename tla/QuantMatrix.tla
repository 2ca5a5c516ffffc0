------------------------------- MODULE QuantMatrix ------------------------------
(***************************************************************************)
(* scripts/quantization/bench_quant_matrix.sh: quantise what is missing,   *)
(* push what differs in size, run every model in both modes, one CSV row   *)
(* per run.  The script has no set -e: a failed command is followed by the *)
(* next one.  It may be interrupted anywhere and started again; the models *)
(* on the host and on the device survive.                                  *)
(*                                                                         *)
(* llama-quantize writes its output file as it goes and adb push the       *)
(* remote one, so an interrupted or failed command leaves a part of it.    *)
(***************************************************************************)
EXTENDS Integers, Sequences, SequencesExt

CONSTANTS
  Names,       \* NAMES: the quantised models, in order
  Printed,     \* layers on HTP0 that a run which loads its model and fails may have printed
  MaxRuns,     \* bound: starts of the script
  MaxFailures  \* bound: commands that fail, over all runs

ASSUME MatrixAssumption ==
  /\ Names \in Seq(STRING) /\ Len(Names) > 0
  /\ Printed \subseteq 0 .. 30
  /\ MaxRuns \in Nat \ {0}
  /\ MaxFailures \in Nat

Models == ToSet(Names)
Modes  == <<"HTP0", "CPU">>

\* What a model file is, which is also what its size tells: absent, a quantisation
\* cut short, the whole model; on the device also a push cut short.
HostFile   == {"none", "torn", "whole"}
DeviceFile == HostFile \cup {"part"}

VARIABLES
  pc,        \* "off", "gen", "quantize", "push", "copy", "run", "busy", "bench"
  n,         \* index into Names
  m,         \* index into Modes
  host,      \* GG[name] on the host
  device,    \* $GDIR/name on the device
  log,       \* per model and mode, the alloc log: run that wrote it, file it loaded,
             \* layers on HTP0
  bench,     \* the same, the bench log: run, file, whether it has the throughput
  csv,       \* the rows of quant_matrix.csv
  runs,      \* starts of the script
  failures,  \* commands that failed
  clean      \* history: no command of this run failed

vars == <<pc, n, m, host, device, log, bench, csv, runs, failures, clean>>

Name == Names[n]
Mode == Modes[m]
At   == <<Name, Mode>>

\* The logs as a run opens them, and before any run.
Opened      == [run |-> runs, file |-> device[Name], layers |-> 0]
BenchOpened == [run |-> runs, file |-> device[Name], done |-> FALSE]
NoLog       == [run |-> 0, file |-> "none", layers |-> 0]
NoBench     == [run |-> 0, file |-> "none", done |-> FALSE]

--------------------------------------------------------------------------------
Init ==
  /\ pc = "off" /\ n = 1 /\ m = 1
  /\ host \in [Models -> {"none", "whole"}]
  /\ device = [x \in Models |-> "none"]
  /\ log = [x \in Models \X ToSet(Modes) |-> NoLog]
  /\ bench = [x \in Models \X ToSet(Modes) |-> NoBench]
  /\ csv = <<>>
  /\ runs = 0 /\ failures = 0 /\ clean = TRUE

Start ==
  /\ pc = "off" /\ runs < MaxRuns
  /\ runs' = runs + 1
  /\ pc' = "gen" /\ n' = 1 /\ m' = 1
  /\ clean' = TRUE
  /\ UNCHANGED <<host, device, log, bench, csv, failures>>

\* The loop over the models of one phase: on to the next model or the next phase.
NextModel(phase, following) ==
  IF n < Len(Names) THEN pc' = phase /\ n' = n + 1 ELSE pc' = following /\ n' = 1

\* A command ends well or not; the script does not look.
Outcome(good) ==
  /\ good \/ failures < MaxFailures
  /\ failures' = IF good THEN failures ELSE failures + 1
  /\ clean' = (clean /\ good)

\* gen: [ -f "$out" ] skips a file that exists.
GenSkip ==
  /\ pc = "gen" /\ host[Name] # "none"
  /\ NextModel("gen", "push")
  /\ UNCHANGED <<m, host, device, log, bench, csv, runs, failures, clean>>

\* llama-quantize starts; it creates its output unless it cannot even begin.
Gen ==
  /\ pc = "gen" /\ host[Name] = "none"
  /\ host' \in {host, [host EXCEPT ![Name] = "torn"]}
  /\ pc' = "quantize"
  /\ UNCHANGED <<n, m, device, log, bench, csv, runs, failures, clean>>

\* "... || { echo [ERR]; return 1; }": nobody looks at the 1.
Quantized(good) ==
  /\ pc = "quantize"
  /\ Outcome(good)
  /\ host' = IF good THEN [host EXCEPT ![Name] = "whole"] ELSE host
  /\ NextModel("gen", "push")
  /\ UNCHANGED <<m, device, log, bench, csv, runs>>

\* Mutant of SameSize: only the existence of the remote file is tested.
SameName(x) == device[x] # "none"

\* [ "$lsz" != "$rsz" ]: only the sizes are compared.
SameSize(x) == device[x] = host[x]

\* [ -f "$src" ] || continue, or the same size: nothing to push.
PushSkip ==
  /\ pc = "push"
  /\ host[Name] = "none" \/ SameSize(Name)
  /\ NextModel("push", "run")
  /\ csv' = IF n = Len(Names) THEN <<>> ELSE csv
  /\ UNCHANGED <<m, host, device, log, bench, runs, failures, clean>>

\* The sizes differ, or stat failed and gave none; adb push creates the remote file.
Push ==
  /\ pc = "push" /\ host[Name] # "none"
  /\ Outcome(~SameSize(Name))
  /\ device' = [device EXCEPT ![Name] = "part"]
  /\ pc' = "copy"
  /\ UNCHANGED <<n, m, host, log, bench, csv, runs>>

\* After the last push the CSV is emptied but for its header.
Pushed(good) ==
  /\ pc = "copy"
  /\ Outcome(good)
  /\ device' = IF good THEN [device EXCEPT ![Name] = host[Name]] ELSE device
  /\ NextModel("push", "run")
  /\ csv' = IF n = Len(Names) THEN <<>> ELSE csv
  /\ UNCHANGED <<m, host, log, bench, runs>>

\* [ -f "$src" ] || continue
RunSkip ==
  /\ pc = "run" /\ host[Name] = "none"
  /\ NextModel("run", "off")
  /\ UNCHANGED <<m, host, device, log, bench, csv, runs, failures, clean>>

\* Mutant of RunAlloc: >> "$raw": what an earlier run printed comes first.
RunAllocAppends ==
  /\ pc = "run" /\ host[Name] # "none"
  /\ log' = IF log[At] = NoLog
              THEN [log EXCEPT ![At] = Opened]
              ELSE log
  /\ pc' = "busy"
  /\ UNCHANGED <<n, m, host, device, bench, csv, runs, failures, clean>>

\* run_alloc: > "$raw" empties the log, the model is loaded and run.
RunAlloc ==
  /\ pc = "run" /\ host[Name] # "none"
  /\ log' = [log EXCEPT ![At] = Opened]
  /\ pc' = "busy"
  /\ UNCHANGED <<n, m, host, device, bench, csv, runs, failures, clean>>

\* A program ends well or not; one whose file is not a whole model fails by itself.
ProgramEnds(good) ==
  IF device[Name] = "whole" THEN Outcome(good) ELSE ~good /\ UNCHANGED <<failures, clean>>

\* The layers "assigned to device HTP0": all of them, or, of a run that fails, what it
\* has printed; nothing comes before the model's file is found to be whole.
Layers(good) ==
  IF Mode = "CPU" \/ device[Name] # "whole" THEN {0} ELSE IF good THEN {30} ELSE Printed

\* run_alloc ends, and run_bench: > "$raw" empties its log in turn.
RunEnds(good) ==
  /\ pc = "busy"
  /\ ProgramEnds(good)
  /\ \E k \in Layers(good) : log' = [log EXCEPT ![At] = [@ EXCEPT !.layers = k]]
  /\ bench' = [bench EXCEPT ![At] = BenchOpened]
  /\ pc' = "bench"
  /\ UNCHANGED <<n, m, host, device, csv, runs>>

\* The two logs are parsed into a row.  Without a single line of a layer all 30 count
\* as the CPU's, so a run that never loaded its model gives the row of a CPU run.
RowOf(l, b) ==
  [name |-> Name, mode |-> Mode, of |-> l, tps |-> b,
   htpLayers |-> l.layers, cpuLayers |-> 30 - l.layers]

\* Mutant of NextRow: the second mode is forgotten.
NextRowOneMode == NextModel("run", "off") /\ m' = 1

\* Two modes per model.
NextRow ==
  IF m < Len(Modes) THEN pc' = "run" /\ m' = m + 1 /\ UNCHANGED n
                    ELSE NextModel("run", "off") /\ m' = 1

\* run_bench ends, the row is appended.
BenchEnds(good) ==
  /\ pc = "bench"
  /\ ProgramEnds(good)
  /\ bench' = [bench EXCEPT ![At] = [@ EXCEPT !.done = good]]
  /\ csv' = Append(csv, RowOf(log[At], bench'[At]))
  /\ NextRow
  /\ UNCHANGED <<host, device, log, runs>>

Interrupt ==
  /\ pc # "off"
  /\ pc' = "off" /\ clean' = FALSE
  /\ UNCHANGED <<n, m, host, device, log, bench, csv, runs, failures>>

Finished == pc = "off" /\ runs = MaxRuns /\ UNCHANGED vars

Next ==
  \/ Start \/ GenSkip \/ Gen \/ PushSkip \/ Push \/ RunSkip \/ RunAlloc
  \/ \E good \in BOOLEAN : Quantized(good) \/ Pushed(good) \/ RunEnds(good) \/ BenchEnds(good)
  \/ Interrupt \/ Finished

Spec == Init /\ [][Next]_vars

--------------------------------------------------------------------------------
Log   == [run : 0 .. MaxRuns, file : DeviceFile, layers : 0 .. 30]
Bench == [run : 0 .. MaxRuns, file : DeviceFile, done : BOOLEAN]
Row   == [name : Models, mode : {"HTP0", "CPU"}, of : Log, tps : Bench,
          htpLayers : 0 .. 30, cpuLayers : 0 .. 30]

TypeOK ==
  /\ pc \in {"off", "gen", "quantize", "push", "copy", "run", "busy", "bench"}
  /\ n \in 1 .. Len(Names) /\ m \in 1 .. Len(Modes)
  /\ host \in [Models -> HostFile] /\ device \in [Models -> DeviceFile]
  /\ log \in [Models \X ToSet(Modes) -> Log]
  /\ bench \in [Models \X ToSet(Modes) -> Bench]
  /\ csv \in Seq(Row)
  /\ runs \in 0 .. MaxRuns /\ failures \in 0 .. MaxFailures /\ clean \in BOOLEAN

Rows     == {csv[k] : k \in DOMAIN csv}
CleanEnd == pc = "off" /\ runs > 0 /\ clean

\* How far a run without failures has come: models that exist, models that are on
\* the device as on the host, rows of the table.
Generated == \A k \in 1 .. Len(Names) : k < n \/ pc \notin {"gen", "quantize"} => host[Names[k]] # "none"
Copied    == \A k \in 1 .. Len(Names) :
               k < n \/ pc \notin {"push", "copy"} => device[Names[k]] = host[Names[k]]
Measured  ==
  /\ Len(csv) = (n - 1) * Len(Modes) + (m - 1)
  /\ \A k \in 1 .. Len(Names), j \in 1 .. Len(Modes) : k < n \/ (k = n /\ j < m) =>
       \E i \in DOMAIN csv : csv[i].name = Names[k] /\ csv[i].mode = Modes[j]

\* What a row of this run may say: both of its logs are this run's, a layer count on
\* HTP0 is only ever read from an HTP0 run of the whole model, and so is a throughput.
OwnRow(r) ==
  /\ r.of.run = runs /\ r.tps.run = runs
  /\ r.htpLayers > 0 => r.mode = "HTP0" /\ r.of.file = "whole"
  /\ r.tps.done => r.tps.file = "whole"

\* A row is never made of what an earlier run of the script left in a log, and never
\* of a model that is only there in part: rerunning after a failure cannot mix two
\* matrices.
RowsOfThisRun ==
  pc \in {"run", "busy", "bench"} \/ CleanEnd => \A r \in Rows : OwnRow(r)

\* A run without failures repairs the device: whatever part of a model an earlier
\* interrupted push has left there is replaced, since its size is another.
DeviceRepaired ==
  CleanEnd => \A x \in Models : device[x] = host[x]

\* A run without failures gives every model one row per mode, no row twice.
MatrixComplete ==
  CleanEnd =>
    /\ Len(csv) = Len(Names) * Len(Modes)
    /\ \A x \in Models, y \in ToSet(Modes) : \E r \in Rows : r.name = x /\ r.mode = y

\* The inductive invariant; the logs of the runs under way are the ones they opened.
IInv ==
  /\ TypeOK
  /\ pc \notin {"off", "run", "busy", "bench"} => m = 1
  /\ pc # "off" => runs > 0
  /\ pc \in {"busy", "bench"} => host[Name] # "none"
  /\ pc = "busy" => log[At] = Opened
  /\ pc = "bench" => bench[At] = BenchOpened
  /\ pc = "bench" =>
       /\ log[At].run = runs
       /\ log[At].layers > 0 => Mode = "HTP0" /\ log[At].file = "whole"
  /\ clean /\ pc # "off" => Generated
  /\ clean /\ pc \in {"push", "copy", "run", "busy", "bench"} => Copied
  /\ clean /\ pc \in {"run", "busy", "bench"} => Measured
  /\ RowsOfThisRun /\ DeviceRepaired /\ MatrixComplete
================================================================================
