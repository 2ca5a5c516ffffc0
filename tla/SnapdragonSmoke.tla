----------------------------- MODULE SnapdragonSmoke ---------------------------
(***************************************************************************)
(* run_htp0_smoke.sh and parse_htp_smoke_log.py on the device that         *)
(* SnapdragonPkg builds for and installs on.                               *)
(*                                                                         *)
(* The verdict is drawn from two texts: the output of this run, and the    *)
(* device's logcat, which all apps write to and which is only emptied when *)
(* logcat -c succeeds.  A text is the set of the things the parser can     *)
(* tell of it.  llama-cli, logcat and the other apps are external.         *)
(***************************************************************************)
EXTENDS SnapdragonPkg

CONSTANTS
  Cli,      \* bin/llama-cli of the package
  Hexagon,  \* lib/libggml-hexagon.so of the package
  AppLines  \* what other apps may leave in logcat

ASSUME SmokeAssumption == {Cli, Hexagon} \subseteq Items

VARIABLES
  step,     \* "idle", "run", "dump", "report": where the smoke script is
  atBin,    \* whether --remote-dir names the package's bin directory
  logcat,   \* lines in the device's log
  foreign,  \* history: the log holds lines this run did not write
  smokeLog, \* htp0_smoke.log
  report    \* summary.csv

smokeVars == <<step, atBin, logcat, foreign, smokeLog, report>>
pkgVars   == <<rev, opencl, buildVars, installVars>>

NoReport == [offload |-> "UNKNOWN", raw |-> "NOT_FOUND", fallback |-> "UNKNOWN", perf |-> FALSE]

\* What llama-cli has printed by the time it ends, or dies, when the DSP takes layers
\* and when it takes none; "perf" are the timings at its end.
HtpOutputs ==
  {{}, {"init"}, {"init", "offloaded N"}, {"init", "offloaded N", "buffer"},
   {"init", "offloaded N", "buffer", "perf"}}
ZeroOutputs == {{"init", "offloaded 0"}, {"init", "offloaded 0", "perf"}}
RunOutputs == HtpOutputs \cup ZeroOutputs \cup {{"no such file"}, {"no device"}}

--------------------------------------------------------------------------------
SmokeInit ==
  /\ Init
  /\ step = "idle" /\ atBin = FALSE /\ logcat = {} /\ foreign = FALSE
  /\ smokeLog = {} /\ report = NoReport

\* An app on the device logs a line.
OtherAppLogs ==
  /\ \E l \in AppLines : logcat' = logcat \cup {l}
  /\ foreign' = TRUE
  /\ UNCHANGED <<pkgVars, step, atBin, smokeLog, report>>

\* Up to step 3 of the script: logcat -c empties the log or fails, and the script
\* goes on.
SmokeStart ==
  /\ pc = "idle" /\ step = "idle"
  /\ step' = "run"
  /\ atBin' \in BOOLEAN
  /\ \/ logcat' = {} /\ foreign' = FALSE
     \/ foreign' = (logcat # {}) /\ UNCHANGED logcat
  /\ UNCHANGED <<pkgVars, smokeLog, report>>

\* Step 4.  The default directory holds no llama-cli, which the package has in bin.
\* A run may die, and the connection may break, anywhere; the exit code is kept but
\* decides nothing.
SmokeRun ==
  /\ step = "run"
  /\ smokeLog' \in
       IF ~atBin \/ dev[Cli] = 0 THEN {{}, {"no such file"}}
       ELSE IF dev[Hexagon] = 0  THEN {{}, {"no device"}}
       ELSE HtpOutputs \cup ZeroOutputs
  /\ logcat' = logcat \cup (smokeLog' \cap {"init"})
  /\ step' = "dump"
  /\ UNCHANGED <<pkgVars, atBin, foreign, report>>

--------------------------------------------------------------------------------
(***************************************************************************)
(* build_fields(), on the output of the run and the filtered logcat.       *)
(***************************************************************************)
\* Mutant of DetectOffload: the log of the device is searched first.
DetectOffloadCatFirst(own, cat) ==
  LET Counts(text) == text \cap {"offloaded N", "offloaded 0"}
  IN  CASE Counts(cat) # {} -> Counts(cat)
        [] Counts(cat) = {} /\ Counts(own) # {} -> Counts(own)
        [] OTHER -> (own \cup cat) \cap {"buffer"}

\* detect_offload: the first layer count, in the run's own output before logcat, or
\* else an HTP buffer line; the set of the lines that may be the first.
DetectOffload(own, cat) ==
  LET Counts(text) == text \cap {"offloaded N", "offloaded 0"}
  IN  CASE Counts(own) # {} -> Counts(own)
        [] Counts(own) = {} /\ Counts(cat) # {} -> Counts(cat)
        [] OTHER -> (own \cup cat) \cap {"buffer"}

\* offload_detected
OffloadDetected(raw) ==
  CASE raw = "offloaded 0" -> "NO" [] raw = "NOT_FOUND" -> "UNKNOWN" [] OTHER -> "YES"

\* Mutant of CpuFallback: an initialised runtime is enough.
CpuFallbackInitOnly(text, raw) ==
  IF "fallback" \in text \/ raw = "offloaded 0" THEN "YES"
  ELSE IF "init" \in text THEN "NO" ELSE "UNKNOWN"

\* cpu_fallback_suspected
CpuFallback(text, raw) ==
  IF "fallback" \in text \/ raw = "offloaded 0" THEN "YES"
  ELSE IF "init" \in text /\ OffloadDetected(raw) = "YES" THEN "NO" ELSE "UNKNOWN"

\* The summary of the two texts, one of several when logcat has both counts.  The
\* timings are looked for in the run's own output only.
BuildFields(own, cat) ==
  LET found == DetectOffload(own, cat)
  IN  {[offload |-> OffloadDetected(raw), raw |-> raw,
        fallback |-> CpuFallback(own \cup cat, raw), perf |-> "perf" \in own] :
          raw \in IF found = {} THEN {"NOT_FOUND"} ELSE found}

\* Step 5 and the parser.  logcat -d may give nothing.
SmokeReport ==
  /\ step = "dump"
  /\ \E cat \in {{}, logcat} : report' \in BuildFields(smokeLog, cat)
  /\ step' = "report"
  /\ UNCHANGED <<pkgVars, atBin, logcat, foreign, smokeLog>>

\* The script ends; its next run has a directory of its own.
SmokeEnd ==
  /\ step = "report"
  /\ step' = "idle" /\ atBin' = FALSE /\ smokeLog' = {} /\ report' = NoReport
  /\ UNCHANGED <<pkgVars, logcat, foreign>>

SmokeNext ==
  \/ step = "idle" /\ Next /\ UNCHANGED smokeVars
  \/ SmokeStart \/ SmokeRun \/ SmokeReport \/ SmokeEnd \/ OtherAppLogs

SmokeSpec == SmokeInit /\ [][SmokeNext]_<<pkgVars, smokeVars>>

--------------------------------------------------------------------------------
SmokeTypeOK ==
  /\ step \in {"idle", "run", "dump", "report"}
  /\ atBin \in BOOLEAN /\ foreign \in BOOLEAN
  /\ logcat \subseteq AppLines \cup {"init"}
  /\ report.fallback \in {"YES", "NO", "UNKNOWN"}

\* "No CPU fallback" is only said of a device that has the program and the Hexagon
\* library, and of a run that brought the DSP up and gave it layers, as long as the
\* log holds no lines of others.  (After a failed logcat -c, or with another app at
\* work, their lines make the verdict; and a run that crashes later has it too.)
NoFallbackMeansHtp ==
  report.fallback = "NO" /\ ~foreign =>
    /\ dev[Cli] # 0 /\ dev[Hexagon] # 0
    /\ "init" \in smokeLog /\ "offloaded 0" \notin smokeLog
    /\ {"offloaded N", "buffer"} \cap smokeLog # {}

\* Old lines in logcat cannot outvote this run: a layer count or a timing it printed
\* is the one reported, and none of its layers offloaded is always a suspicion.
OwnLogDecides ==
  step = "report" =>
    /\ "offloaded N" \in smokeLog => report.raw = "offloaded N"
    /\ "offloaded 0" \in smokeLog => report.raw = "offloaded 0" /\ report.fallback = "YES"
    /\ report.perf = ("perf" \in smokeLog)

\* The inductive invariant: what the run printed fits the device it ran on, which no
\* step of the pipeline touches meanwhile; and a log that holds no foreign line holds
\* nothing the run has not printed.
SmokeInv ==
  /\ PkgInv /\ SmokeTypeOK
  /\ step # "report" => report = NoReport
  /\ step \in {"dump", "report"} =>
       /\ smokeLog \in RunOutputs
       /\ "init" \in smokeLog => dev[Cli] # 0 /\ dev[Hexagon] # 0
  /\ ~foreign /\ step = "run" => logcat = {}
  /\ ~foreign /\ step \in {"dump", "report"} => logcat \subseteq smokeLog
  /\ NoFallbackMeansHtp /\ OwnLogDecides
================================================================================
