------------------------------ MODULE TiedExperiment ---------------------------
(***************************************************************************)
(* The tied-embedding experiment: 01_download_convert.sh makes the two     *)
(* variants of a model, 02_run_experiment.sh runs them on the device and   *)
(* collects logs, parse_results.py reads what lies in the variants'        *)
(* directories.                                                            *)
(*                                                                         *)
(* Nothing is removed between runs, except the graph dump on the device:   *)
(* a command that fails leaves the file of an earlier run in its place.    *)
(* Models are kept per quantisation, logs and results only per variant.    *)
(***************************************************************************)
EXTENDS Integers, Sequences

CONSTANTS
  Quants,       \* values of QUANT_TYPE
  Buft,         \* where the loader puts their token_embd.weight for GET_ROWS
  BenchKeys,    \* whether llama-bench's entries have pp_ts, pp_ms, tg_ts and tg_ms
  MaxConverts,  \* bound: starts of 01_download_convert.sh
  MaxRuns,      \* bound: starts of 02_run_experiment.sh
  MaxFailures,  \* bound: commands of 02 that fail
  None,         \* no such file
  Bad           \* benchmark_result.json without a JSON list

Variants == {"tied_on", "tied_off"}

\* VARIANTS: both, or tied_on alone.
Selections == {<<"tied_on", "tied_off">>, <<"tied_on">>}

\* How far a file goes: a log to where its program began, to the loaded model
\* ([EMBTRACE]), to the first graph ([OPTRACE]) or to the end; any other file to its
\* end or not.
Began  == 0
Loaded == 1
Traced == 2
Ended  == 3

\* What a device program leaves: of which run, variant and model, and how much of it.
Stamp == [run : 1 .. MaxRuns, v : Variants, q : Quants, upto : Began .. Ended]

ASSUME ExperimentAssumption ==
  /\ Buft \in [Quants -> {"CPU", "HTP", "other"}] /\ BenchKeys \in BOOLEAN
  /\ MaxConverts \in Nat /\ MaxRuns \in Nat /\ MaxFailures \in Nat
  /\ None # Bad /\ None \notin Stamp /\ Bad \notin Stamp

VARIABLES
  pc,        \* "off"; 01: "convert", "untie"; 02: "next", "push", "run", "pull",
             \* "extract", "bench", "parsed"
  q,         \* QUANT_TYPE of the script that is running
  todo,      \* variants still to run, the current one first
  host,      \* models/exaone4_1p2b_<q>_<v>.gguf: "none", "part", "whole"
  device,    \* the same under REMOTE_GGUF_DIR
  devLog,    \* exp_<v>.log
  devGraph,  \* graph_nodes.txt: one for both variants
  log,       \* <v>/htp_optrace.log
  graph,     \* <v>/graph_nodes.txt
  sched,     \* <v>/graph_schedule.txt and buffer_placement.txt
  bench,     \* <v>/benchmark_result.json
  run,       \* starts of 02
  converts,  \* starts of 01
  failures,  \* commands of 02 that failed
  clean,     \* history: this run of 02 met no failure and left its graph dumps
  done,      \* history: the variants it ran, without the skipped ones
  lost       \* history: an adb shell was lost before it did anything

models  == <<host, device>>
dev     == <<devLog, devGraph>>
results == <<log, graph, sched, bench>>
history == <<clean, done, lost>>
bounds  == <<run, converts, failures>>
vars    == <<pc, q, todo, models, dev, results, history, bounds>>

V == Head(todo)
Came(upto) == [run |-> run, v |-> V, q |-> q, upto |-> upto]
This == Came(Ended)

\* What is left of a file when it is cut off, as far as these points tell.
CutOff(file, points) ==
  IF file = None THEN {None}
  ELSE {[run |-> file.run, v |-> file.v, q |-> file.q, upto |-> n] :
          n \in {m \in points : m <= file.upto}}

--------------------------------------------------------------------------------
Init ==
  /\ pc = "off" /\ q \in Quants /\ todo = <<>>
  /\ host = [m \in Quants \X Variants |-> "none"]
  /\ device = host
  /\ devLog = [v \in Variants |-> None] /\ devGraph = None
  /\ log = devLog /\ graph = devLog /\ sched = devLog /\ bench = devLog
  /\ run = 0 /\ converts = 0 /\ failures = 0
  /\ clean = TRUE /\ done = {} /\ lost = FALSE

(***************************************************************************)
(* 01_download_convert.sh, under set -e: it stops at the first failure.    *)
(***************************************************************************)

\* Steps 1 to 3: the converter opens tied_on and writes it.
Convert(t) ==
  /\ pc = "off" /\ converts < MaxConverts
  /\ converts' = converts + 1
  /\ q' = t
  /\ host' = [host EXCEPT ![<<t, "tied_on">>] = "part"]
  /\ pc' = "convert"
  /\ UNCHANGED <<todo, device, dev, results, history, run, failures>>

\* tied_on is there; step 5 opens tied_off.
Untie ==
  /\ pc = "convert"
  /\ host' = [host EXCEPT ![<<q, "tied_on">>] = "whole", ![<<q, "tied_off">>] = "part"]
  /\ pc' = "untie"
  /\ UNCHANGED <<q, todo, device, dev, results, history, bounds>>

ConvertDone ==
  /\ pc = "untie"
  /\ host' = [host EXCEPT ![<<q, "tied_off">>] = "whole"]
  /\ pc' = "off"
  /\ UNCHANGED <<q, todo, device, dev, results, history, bounds>>

(***************************************************************************)
(* 02_run_experiment.sh, without set -e.                                   *)
(***************************************************************************)
Start(t, sel) ==
  /\ pc \in {"off", "parsed"} /\ run < MaxRuns
  /\ run' = run + 1
  /\ q' = t /\ todo' = sel
  /\ pc' = "next"
  /\ clean' = TRUE /\ done' = {}
  /\ UNCHANGED <<models, dev, results, lost, converts, failures>>

Fail ==
  /\ failures < MaxFailures
  /\ failures' = failures + 1
  /\ clean' = FALSE

\* run_variant: [SKIP] writes run_status.txt and leaves the old results alone.
Skip ==
  /\ pc = "next" /\ todo # <<>> /\ host[<<q, V>>] = "none"
  /\ todo' = Tail(todo)
  /\ UNCHANGED <<pc, q, models, dev, results, history, bounds>>

Begin ==
  /\ pc = "next" /\ todo # <<>> /\ host[<<q, V>>] # "none"
  /\ pc' = "push"
  /\ done' = done \cup {V}
  /\ UNCHANGED <<q, todo, models, dev, results, clean, lost, bounds>>

\* adb push; a push that fails may have written a part.
Push ==
  /\ pc = "push"
  /\ pc' = "run"
  /\ \/ /\ device' = [device EXCEPT ![<<q, V>>] = host[<<q, V>>]]
        /\ UNCHANGED <<failures, clean>>
     \/ /\ Fail
        /\ device' \in {device, [device EXCEPT ![<<q, V>>] = "part"]}
  /\ UNCHANGED <<q, todo, host, dev, results, lost, done, run, converts>>

\* The program ends early: before it empties its log, or with the log as far as it
\* came.  A partial model does not load.  The graph is dumped once the model is loaded,
\* wholly, in part or not yet; until then there is the old dump, if any.
Dies(old) ==
  \/ devLog' = devLog /\ devGraph' = old
  \/ \E upto \in IF device[<<q, V>>] = "whole" THEN Began .. Traced ELSE {Began} :
       /\ devLog' = [devLog EXCEPT ![V] = Came(upto)]
       /\ devGraph' \in IF upto < Loaded THEN {old} ELSE {old, Came(Began), This}

\* The program, started with that dump in place: it runs to its end, and may leave no
\* dump all the same; or it dies, on its own or of a partial model; or the adb shell is
\* lost before anything.  tail -3 hides the program's exit code.
Inference(old) ==
  /\ pc = "run"
  /\ pc' = "pull"
  /\ \/ /\ device[<<q, V>>] = "whole"
        /\ devLog' = [devLog EXCEPT ![V] = This]
        /\ \/ devGraph' = This /\ UNCHANGED clean
           \/ devGraph' = old /\ clean' = FALSE
        /\ UNCHANGED <<failures, lost>>
     \/ Fail /\ lost' = TRUE /\ UNCHANGED dev
     \/ Fail /\ Dies(old) /\ UNCHANGED lost
     \/ /\ device[<<q, V>>] # "whole"
        /\ clean' = FALSE
        /\ Dies(old)
        /\ UNCHANGED <<failures, lost>>
  /\ UNCHANGED <<q, todo, models, results, done, run, converts>>

\* Mutant of Infer: the old graph dump is not removed first.
InferNoRm == Inference(devGraph)

\* The adb shell of step 2: the old graph dump is removed, then the program is started.
Infer == Inference(None)

\* A pull replaces the local file, or leaves it when there is nothing to pull.
Pulled(old, remote) == IF remote = None THEN old ELSE [old EXCEPT ![V] = remote]

\* What a pull that breaks leaves: the old file, or none.
Broken(old) == {old, [old EXCEPT ![V] = None]}

\* Steps 3 and 4.
Pull ==
  /\ pc = "pull"
  /\ pc' = "extract"
  /\ \/ /\ log' = Pulled(log, devLog[V])
        /\ graph' = Pulled(graph, devGraph)
        /\ UNCHANGED <<failures, clean>>
     \/ /\ Fail
        /\ \/ log' \in Broken(log) /\ graph' \in Broken(graph) \cup {Pulled(graph, devGraph)}
           \/ log' = Pulled(log, devLog[V]) /\ graph' \in Broken(graph)
  /\ UNCHANGED <<q, todo, models, dev, sched, bench, lost, done, run, converts>>

\* Mutant of Extract: >> instead of >, so that the first match is an old one.
ExtractAppend ==
  /\ pc = "extract"
  /\ pc' = "bench"
  /\ sched' = IF sched[V] = None THEN [sched EXCEPT ![V] = log[V]] ELSE sched
  /\ UNCHANGED <<q, todo, models, dev, log, graph, bench, history, bounds>>

\* Step 5: the traces of the log that is there.  (Both greps are one step.)
Extract ==
  /\ pc = "extract"
  /\ pc' = "bench"
  /\ sched' = IF log[V] = None THEN sched ELSE [sched EXCEPT ![V] = log[V]]
  /\ UNCHANGED <<q, todo, models, dev, log, graph, bench, history, bounds>>

\* Mutant of Bench: a failed benchmark leaves the old file.
BenchKeepsOld ==
  /\ pc = "bench"
  /\ pc' = "next" /\ todo' = Tail(todo)
  /\ \/ /\ device[<<q, V>>] = "whole"
        /\ bench' = [bench EXCEPT ![V] = This]
        /\ UNCHANGED <<failures, clean>>
     \/ /\ Fail
        /\ UNCHANGED bench
     \/ /\ device[<<q, V>>] # "whole"
        /\ clean' = FALSE
        /\ UNCHANGED <<bench, failures>>
  /\ UNCHANGED <<q, models, dev, log, graph, sched, lost, done, run, converts>>

\* Step 6: the redirection empties the file; a failure leaves a line of text.
Bench ==
  /\ pc = "bench"
  /\ pc' = "next" /\ todo' = Tail(todo)
  /\ \/ /\ device[<<q, V>>] = "whole"
        /\ bench' = [bench EXCEPT ![V] = This]
        /\ UNCHANGED <<failures, clean>>
     \/ /\ Fail
        /\ bench' = [bench EXCEPT ![V] = Bad]
     \/ /\ device[<<q, V>>] # "whole"
        /\ clean' = FALSE
        /\ bench' = [bench EXCEPT ![V] = Bad]
        /\ UNCHANGED failures
  /\ UNCHANGED <<q, models, dev, log, graph, sched, lost, done, run, converts>>

\* parse_results.py at the end of the run.
Parse ==
  /\ pc = "next" /\ todo = <<>>
  /\ pc' = "parsed"
  /\ UNCHANGED <<q, todo, models, dev, results, history, bounds>>

\* Either script is interrupted, or 01 stops at a failure: the command under way
\* has not begun, or leaves its file as far as it came.
Interrupt ==
  /\ pc \notin {"off", "parsed"}
  /\ pc' = "off" /\ todo' = <<>>
  /\ \/ UNCHANGED <<device, dev, results>>
     \/ /\ pc = "push"
        /\ device' = [device EXCEPT ![<<q, V>>] = "part"]
        /\ UNCHANGED <<dev, results>>
     \/ /\ pc = "run"
        /\ Dies(None)
        /\ UNCHANGED <<device, results>>
     \/ /\ pc = "pull"
        /\ \/ log' \in {Pulled(log, file) : file \in CutOff(devLog[V], Began .. Ended)} /\ UNCHANGED graph
           \/ /\ log' = Pulled(log, devLog[V])
              /\ graph' \in {Pulled(graph, file) : file \in CutOff(devGraph, {Began, Ended})}
        /\ UNCHANGED <<device, dev, sched, bench>>
     \/ /\ pc = "extract" /\ log[V] # None
        /\ sched' \in {[sched EXCEPT ![V] = file] : file \in CutOff(log[V], Began .. Ended)}
        /\ UNCHANGED <<device, dev, log, graph, bench>>
     \/ /\ pc = "bench"
        /\ bench' = [bench EXCEPT ![V] = Bad]
        /\ UNCHANGED <<device, dev, log, graph, sched>>
  /\ UNCHANGED <<q, host, history, bounds>>

Finished ==
  /\ pc \in {"off", "parsed"} /\ run = MaxRuns
  /\ UNCHANGED vars

Next ==
  \/ \E t \in Quants : Convert(t) \/ \E sel \in Selections : Start(t, sel)
  \/ Untie \/ ConvertDone
  \/ Skip \/ Begin \/ Push \/ Infer \/ Pull \/ Extract \/ Bench \/ Parse
  \/ Interrupt \/ Finished

Spec == Init /\ [][Next]_vars

--------------------------------------------------------------------------------
(***************************************************************************)
(* parse_results.py.                                                       *)
(***************************************************************************)

\* parse_embtrace: selected_buft, printed when the model is loaded.
Embtrace(v) ==
  IF sched[v] = None \/ sched[v].upto < Loaded THEN "unknown" ELSE Buft[sched[v].q]

\* The backend of the first GET_ROWS that a backend with a trace computes: the
\* embedding's where the table lies, or else the last layer's.
FirstGetRows(t) == IF Buft[t] = "CPU" THEN "CPU" ELSE "HTP"

\* parse_optrace: get_rows_backend, from the lines of the first graphs.
Optrace(v) ==
  IF sched[v] = None \/ sched[v].upto < Traced THEN "unknown" ELSE FirstGetRows(sched[v].q)

\* The conclusion of summary.md.  (The trace says HTP, never HTP0; without any
\* trace it is the CPU.)
Conclusion(v) ==
  IF Optrace(v) = "HTP0" \/ Embtrace(v) = "HTP" THEN "HTP"
  ELSE IF Optrace(v) = "CPU" \/ Embtrace(v) \in {"CPU", "unknown"} THEN "CPU"
  ELSE "uncertain"

\* parse_graph_nodes: src0 of the last MUL_MAT, the output projection; in a part of
\* the dump it is a layer's.
LogitsSource(v) ==
  IF graph[v] = None THEN "unknown"
  ELSE IF graph[v].upto < Ended THEN "blk.weight"
  ELSE IF graph[v].v = "tied_off" THEN "output.weight" ELSE "token_embd.weight"

\* parse_benchmark: a missing file gives N/A (None), as do a text that is not JSON and
\* an entry without a key, whose 'N/A' cannot be formatted as a number.
Performance(v) == IF bench[v] = Bad \/ ~BenchKeys THEN None ELSE bench[v]

\* A run that met no failure and left its graph dumps is reported as it was: the files
\* parsed for each variant it ran are of this run, this variant and this model, and
\* complete, and summary.md concludes HTP or CPU from where the embedding table lies,
\* and neither when it lies elsewhere.
CleanRunIsReported ==
  pc = "parsed" /\ clean =>
    \A v \in done :
      /\ graph[v] = [run |-> run, v |-> v, q |-> q, upto |-> Ended]
      /\ sched[v] = graph[v]
      /\ Performance(v) = IF BenchKeys THEN graph[v] ELSE None
      /\ Conclusion(v) = IF Buft[q] = "other" THEN "uncertain" ELSE Buft[q]

\* Whatever failed, the performance numbers of a variant that was run are this
\* run's or missing, never an earlier run's.
BenchOfThisRun ==
  pc = "parsed" =>
    \A v \in done : Performance(v) = None \/ (Performance(v).run = run /\ Performance(v).q = q)

\* The graph dump has one name on the device for both variants; unless a shell was
\* lost before it did anything, the row of a variant never names the other one's
\* source of the logits.
GraphOfOwnVariant ==
  ~lost =>
    /\ LogitsSource("tied_on") # "output.weight"
    /\ LogitsSource("tied_off") # "token_embd.weight"

(***************************************************************************)
(* The inductive invariant.                                                *)
(***************************************************************************)
File == {"none", "part", "whole"}

TypeOK ==
  /\ pc \in {"off", "convert", "untie", "next", "push", "run", "pull", "extract", "bench",
             "parsed"}
  /\ q \in Quants /\ todo \in Seq(Variants)
  /\ host \in [Quants \X Variants -> File] /\ device \in [Quants \X Variants -> File]
  /\ devLog \in [Variants -> Stamp \cup {None}] /\ devGraph \in Stamp \cup {None}
  /\ log \in [Variants -> Stamp \cup {None}] /\ graph \in [Variants -> Stamp \cup {None}]
  /\ sched \in [Variants -> Stamp \cup {None}]
  /\ bench \in [Variants -> Stamp \cup {None, Bad}]
  /\ run \in 0 .. MaxRuns /\ converts \in 0 .. MaxConverts /\ failures \in 0 .. MaxFailures
  /\ clean \in BOOLEAN /\ done \subseteq Variants /\ lost \in BOOLEAN

\* What a clean run leaves for a variant.
Full(v) == [run |-> run, v |-> v, q |-> q, upto |-> Ended]

\* 02 is inside run_variant, or between two variants.
InVariant == pc \in {"push", "run", "pull", "extract", "bench"}
InRun     == InVariant \/ pc \in {"next", "parsed"}

\* The variants of this run whose run_variant has returned.
Behind == {v \in done : ~(InVariant /\ v = V)}

\* How far the files of the variant under way are this run's.
VariantInv ==
  /\ pc = "pull" => devLog[V] = Full(V) /\ devGraph = Full(V)
  /\ pc = "extract" => log[V] = Full(V) /\ graph[V] = Full(V)
  /\ pc = "bench" => sched[V] = Full(V) /\ graph[V] = Full(V)

IInv ==
  /\ TypeOK
  /\ InRun => run > 0
  /\ InVariant => todo # <<>>
  /\ ~lost => /\ \A v \in Variants : graph[v] = None \/ graph[v].v = v
              /\ pc = "pull" => devGraph = None \/ devGraph.v = V
  /\ InRun => \A v \in Behind :
       bench[v] \in {None, Bad} \/ (bench[v].run = run /\ bench[v].q = q)
  /\ clean /\ InRun =>
       /\ VariantInv
       /\ \A v \in Behind : graph[v] = Full(v) /\ sched[v] = Full(v) /\ bench[v] = Full(v)
================================================================================
