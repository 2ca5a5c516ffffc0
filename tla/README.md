# TLA+ models of the llama.cpp AoS benchmark

The repository measures a 1.2B language model on a phone with a Hexagon DSP
(HTP0): shell scripts build, install and run llama.cpp through adb, two patches
instrument and extend llama.cpp itself, Python parsers turn the logs into
tables. This directory holds TLA+ models of the parts whose behaviour depends
on interleaving, on failure, on the order of steps or on hand-written
arithmetic; TLC checks them on small instances, TLAPS proves nearly all of their
safety properties for every size (section 4 names the one left to TLC).

## 1. Inventory

### Components

| component | code | state | operations |
|---|---|---|---|
| GET_ROWS on the DSP | `patches/0001`, `htp/get-rows-ops.c` | destination buffer, per-worker loop counters | start an operation, worker steps, return |
| GET_ROWS placement | `patches/0001`, `ggml-hexagon.cpp` | tensor buffer, cached kernel parameters | support check, graph compute, dispatch |
| trace output | `patches/0001`, OPTRACE/EMBTRACE | static call counters | print |
| per-op CPU timer | `patches/0002`, `ggml-cpu.c` | execution counter, barriers, abort flag, log | graph compute on a thread pool |
| layer profile capture | `scripts/layer_profile/capture_layer_profile.sh` | files of `raw/` | sessions of captures, two passes |
| layer profile parser | `scripts/layer_profile/parse_layer_profile.py` | none (files to tables) | phase classification, joins, medians |
| patch management | `scripts/layer_profile/patch_manage.sh` | the llama.cpp checkout | apply, revert, status |
| package pipeline | `tools/build_snapdragon/*.sh` | build directory, package, device directory | build, check, install |
| smoke test | `tools/htp_smoke/*` | device logs, verdict | run, parse |
| quantisation matrix | `scripts/quantization/bench_quant_matrix.sh` | models on host and device, alloc logs, CSV | generate, push, run |
| recipe comparison | `scripts/quantization/compare_q4k_recipes.py` | none | report |
| tied-embedding experiment | `experiments/tied_embedding_exaone4_1p2b/*` | GGUF files, device logs, results | convert, untie, run, parse |
| backend flow experiment | `experiments/backend_flow/*` | device graph dumps, analysis tables | run, pull, parse |
| CPU baseline | `scripts/00..05_*.sh` | NDK build, device directory | build, push, run |
| device probe | `tools/device_probe/*` | none | collect, format |

### How they interact

* The two patches are applied to one llama.cpp checkout by `patch_manage.sh`;
  `build_snapdragon_llamacpp.sh` builds it into a package, which
  `check_snapdragon_pkg.sh` inspects and `install_snapdragon_pkg.sh` pushes.
  The scripts share only file names and directories.
* On the device the scheduler asks the HTP backend whether it takes a GET_ROWS
  (`supported_get_rows`); the host packs `kernel_params`, the DSP dispatches on
  them and splits the rows over its worker pool.
* The rest of a graph runs on the CPU pool, where patch 0002 prints a
  `[LAYERPROF]` line per node. The capture script redirects these lines into
  `raw/`, and the parser groups them by execution number and file name.
* The quantisation matrix and both experiments run the same device program and
  meet the parsers only through files that survive from run to run.

### What is hard here

* **Concurrency**: DSP workers share one output buffer; CPU threads share the
  node loop, the abort flag and the execution counter.
* **Hand-written arithmetic**: the tiled Q4_0 layout is written by one piece of
  code and addressed by another.
* **Two decisions, one contract**: support check on the host, dispatch on the
  DSP; parameters packed once and reused from the graph cache.
* **Partial failure**: scripts without `set -e` continue after failed commands;
  pushes, installs and quantisations leave partial results.
* **Stale state**: no script removes old outputs; each later step trusts files
  that may belong to an earlier run. The device's logcat is shared with every
  other app and is not always emptied.
* **Order**: the parser tells prefill from decode by comparing totals, and one
  prefill can be several graph executions; the second benchmark pass reuses the
  first pass's file name.
* **Names as keys**: the parser joins three logs by tensor names. Two nodes of a
  graph can have the same name, a group of fused nodes has the name of its first
  node in one log and of its last in another, and a node can be placed
  differently from graph to graph.

### What makes each component correct

* GET_ROWS on the DSP: on return every requested row in the table has been dequantised
  from its own quants and scale, any other row is untouched, rows are written by one
  worker only, every operation returns. → `RowsCorrect`, `PastRowsFinal`, `OpReturns`,
  `ImplementsPromise`
* Placement: nothing the host claims is refused by the DSP; a kernel writes
  exactly a row. → `ClaimHonoured`, `RowFilledExactly`
* CPU timer: a time covers all threads' work on its node and nothing earlier,
  executions are distinguishable, an abort leaves no thread behind. →
  `TimingComplete`, `TimingExclusive`, `GroupsAreCalls`, `LeaveTogether`,
  `GraphEnds`
* Parser: lines are filed under the phase that printed them (they are not);
  where decode steps are the majority, the time of an op is nevertheless one its
  decode steps take; the tables lose no change of backend and no op; a time that can
  be told apart stands in its own op's row. → `PrefillFound`, `CellWithinDecodes`,
  `RowTimeWithinDecodes`, `TransitionsComplete`, `CompareCoversGraph`, `RowTimeIsOwn`
* Capture: a complete session leaves only its own logs; both benchmark passes are
  read (they are not). → `WholeIsFresh`, `BothPassesRead`
* Package: what a completed build packages is that build, and a whole push puts
  exactly that build on the device. → `PackageIsBuilt`, `DeviceIsOneBuild`,
  `CompleteBuildPasses`
* Smoke test: "no CPU fallback" is said only of a run that used the DSP; old
  lines in logcat do not outvote the run's own. → `NoFallbackMeansHtp`,
  `OwnLogDecides`
* Quantisation matrix: no row is made of an earlier run's logs; a run without failures
  repairs what earlier ones left and yields one row per model and mode. →
  `RowsOfThisRun`, `DeviceRepaired`, `MatrixComplete`
* Untied GGUF: a file that opens and has `output.weight` is a well-formed copy of
  its input with the embedding once more at the end, however the write ended. →
  `UntiedIsWhole`, `OutputWellFormed`
* Tied-embedding runs: a run without failures is reported as it was; whatever
  failed, the benchmark is this run's and no row shows the other variant's graph.
  → `CleanRunIsReported`, `BenchOfThisRun`, `GraphOfOwnVariant`
* Backend flow: a run without failures does not miss the embedding's move; a phase
  whose graph came through has its own column in the table; the device hands out no
  dumps of an earlier run. → `MoveIsReported`, `ColumnOfOwnGraph`,
  `PulledIsOfThisRun`

## 2. The modules

### GET_ROWS: `TiledLayout`, `GetRowsTiled`, `GetRowsSpec`

`TiledLayout` holds the address arithmetic. The contents of the HTP0-REPACK
buffer (`QuantCell`, `ScaleCell`) are external: `set_tensor` of the Hexagon
buffer is not part of the patch, the layout is the one stated in the kernel's
comment. An element's value is abstracted to the table coordinates it belongs
to, so a wrong byte, nibble, scale or tile gives a wrong value; what the kernel makes of
the scale's value (`patches/0001:367-382` takes one below fp16's normal range for
zero) is below that abstraction. `DecodeBlock` is the body of the kernel's k-tile loop;
`TableBlock` is the reference.

`GetRowsTiled` is the operation. `OpGetRows` computes `n_threads` and releases
the workers; a worker (`pc[t]`) computes its slice (`ThreadStart`, with the
early return for an empty slice), skips ids outside the table (`SkipRow`),
dequantises one k-tile per step (`DequantTile`) and ends (`ThreadEnd`);
the ids are a vector, for which the kernel's split of a row number into three indices
(`fastdiv`, `patches/0001:404-407`) is the number itself;
`OpReturn` is the return of the worker pool's join. `cur` and `kt` are the two
loop counters. Operations repeat on one buffer, so `out` starts each of them
with what the last one left; `before` is a history variable.

`GetRowsSpec` says what the caller is promised: the lookup happens at once when
the operation returns. `GetRowsTiled` implements it under the mapping
`pending <- running`, `req <- ids`, `dst <- IF running THEN before ELSE out`.

### Placement: `GetRowsPlacement`

`SupportedGetRows`, `PackParams` and `OpGetRows` are the three functions of the
patch; `SupportsOp`, `Place` and `GraphCompute` call them in any order the
scheduler and the loader can. `nodes` is the graph cache: parameters are packed
on a miss and reused on a hit. A graph is computed only under a claim given for
the buffer the table is in; the scheduler (external) asks again for every graph
it splits, so a claim that has gone stale is excluded and not caught.

### CPU timer: `LayerProf`

The node loop of `ggml_graph_compute_thread` with the patch inside. Each thread
is `out`, at the `top` of the loop, at `work`, at `wait` in the barrier, at
`log`, or at the `end`. Empty nodes, fusion and the abort flag are ggml's own
code, modelled from the patch's context lines. Barriers are counted per thread
(`bar`): a thread passes when all have arrived as often as it has. `did` and
`opened` exist to state what a logged time covers. `At(t)` is the first node that
is not behind thread `t`; `IInv` says where threads can be relative to each other.

### Phases: `LayerProfPhases`

A capture followed by `parse_layerprof`, `med` and the cells of `op_compare`. The
capture is a sequence of passes: a warm-up, as many chunks as the prompt takes at
`n_ubatch` tokens each, decode steps (`PhaseOf`). Each pass executes the CPU splits of
the graph once (`RunSplit`), every one with a new `g`; `End` is the end of the text,
as early as the model likes. `Timings` are the times the ops of a split can take
together, chosen per op and phase (`OpUs`). A line carries where it comes from as
history (`at`).

Every pass has the same CPU splits. In CPU mode this is always so, as the graph is
one split. In HTP0 mode a chunk without outputs has a split more (its last ADD goes
to the CPU), which only adds executions to those that are filed wrongly already.

### Tables: `LayerTables`

The rest of the parser: the capture of `LayerProfPhases` and two HTP0-mode logs
become the tables. A run (`hrun`) is a sequence of passes; a pass has the splits
the scheduler made, each a sequence of groups of fused nodes, its tokens and
outputs, and whether it is computed or only reserved. `AssignPass` appends a pass
to the assignment log, `ProfilePass` the lines of its measured ops to the
profile; the profile's choice is which ops are slow. The groups without rows are
not given to the DSP (`DspGroups`): a prefill chunk without outputs leaves a split
with nothing to do. `TablesAssumption` says what a run is: its passes are over the
same nodes, however they are split and fused, as llama.cpp builds one graph per model;
fused nodes have the same rows, as one feeds the other or both read the same input.

The two HTP0-mode logs are of runs of the same shape. `Blocks` names a group by its
first node, as the op list does; `ProfilePass` by its last, as the profile does.
Everything else is the parser: `Logical` with `RoleOf` (what the regular expressions
extract from a name is the constant `Parts`), `Transitions`, `HtpOps` (the largest
block), `HtpTime`, `HtpRows`, `CpuRows`.
`MCLayerTables` gives the shapes found in `artifacts/layer_profile/raw`: reserve, a
warm-up of two tokens, a prefill chunk without outputs, the rest of the prefill,
decodes (63 in the real capture); in few-token passes the projections are fused. Two
further runs have GET_ROWS on the DSP, and a projection that divides the DSP's part in two.

### Scripts: `CaptureMatrix`, `SnapdragonPkg`, `QuantMatrix`

A script is a program counter with one action per external command, split where a
command can be cut short (`BeginCapture`/`EndCapture`, `Gen`/`Quantized`,
`Push`/`Pushed`, `RunAlloc`/`RunEnds`/`BenchEnds`), because an interruption between
the two leaves an empty log or part of a file. A file is represented by who wrote it
(session, revision) and whether it is whole. Commands fail where the script would go
on; where it stops (`build_snapdragon_llamacpp.sh`) failure is `StopBuild`.

`SnapdragonPkg` composes the build, check and install scripts over the
directories they share. `CaptureMatrix` includes the parser's choice of
benchmark files (`BenchReadings`); its `IInv` says which logs a running session has
already replaced.

In `QuantMatrix` a model and a mode have two logs, one of the allocation run with the
layers it assigned to HTP0, one of the benchmark (`log`, `bench`). A run that fails
after it has loaded its model has printed some of its layers (`Printed`); one whose
file is not a whole model has printed none. `RowOf` is the row the script makes of
both. The push of the prompt is left out; a run that fails stands for a missing one.

### Smoke test: `SnapdragonSmoke`

`run_htp0_smoke.sh` on the device that `SnapdragonPkg` installs on; the module
extends the pipeline, whose steps are possible while no smoke test runs
(`SmokeNext`). `step` is the script's position, `atBin` its `--remote-dir`,
`logcat` the device's log, `smokeLog` the output of the run, `report` the fields of
`summary.csv`. A text is the set of the things the parser tells apart in it.
`SmokeStart` empties logcat or fails to; `OtherAppLogs` happens between any two
steps; `SmokeRun` prints what the device's files allow, up to where the program
ends or dies; `SmokeReport` is `build_fields`, with `DetectOffload` and
`CpuFallback`. `foreign` is history: logcat holds lines this run did not write.

### Untied GGUF: `TiedOffGguf`

`create_tied_off_gguf.py` copies a tied GGUF byte for byte and appends
`output.weight`. A file is the size of its header and infos (`head`: their bytes
are copied as they are), padding to the data section, the tensor infos and the
data as a sequence of cells; offsets are the ones the file records, so a wrong
offset or padding makes `Read` return other cells. `Untied` is the assembly of
the new file. `Accepts` is what the gguf reader requires when it opens a file.
The write is split (`CreateTiedOff`, then `Written` or `WrittenPartly`), because
the output is opened in place; `OutputAsInput` lets the script run on what it
left. `WellFormed` is what the converter (external) makes; `MCTiedOffGguf`
enumerates such files. The specification is called `GgufSpec`, its invariant `GgufInv`,
so that one proof module can hold it and `TiedExperiment`.

### Experiments: `TiedExperiment`, `BackendFlow`

Both follow a script run by run, over the files that survive on the host and on
the device. A file is a stamp: the run, variant and quantisation it came from,
and how far it goes (`upto`); `None` is a missing file. A command that fails is
followed by the next one, as in the scripts (no `set -e`), and a pull that finds
nothing leaves the old local file. A program that dies, and a command that is
interrupted, leave their file as far as it came (`Dies`, `Pieces`, `CutOff`).

`TiedExperiment` composes `01_download_convert.sh`, `02_run_experiment.sh` and
`parse_results.py` over the models they share: a conversion can stop half-way
and leave a model that `02` pushes. A log goes to the program's start, to the loaded
model (the `[EMBTRACE]` lines), to the first graph (the `[OPTRACE]` lines) or to its
end. The graph dump may be missing after a successful run as well, which the script
warns of. What dumps it (`DUMP_GGML_GRAPH`) is not in the repository's patches and is
external. The two greps of step 5 are one step. What the parser concludes is an
operator on the stamps: `Embtrace` and `Optrace` are what it reads from the two
traces, `Conclusion` the three answers of `summary.md`, `LogitsSource` the logits'
weight, `Performance` the numbers, which are missing where `llama-bench` does not
print the keys the parser wants (`BenchKeys`). `Buft` is where the loader puts a
quantisation's table: on the CPU, on HTP, or on a backend that prints no trace.

`BackendFlow` keeps of the prefill and of the decode graph the five nodes the
analysis looks at. Their placement is a constant set (`Layouts`); the scheduler's
copies follow from it. A dump is empty, has its first record, or is whole; the other
dumps are cut between records. An interruption in the loop of pulls leaves the files
before it pulled and one cut short; after the last run nobody reads what an
interruption would leave, and there is none. `Consumer`, `SchedCopy`, `CrossBackend`,
`Column` and `Verdict` are `parse_backflow.py`'s joins over the dumped nodes and the
trace; every file is read as it lies in the directory (`GraphRead`, `TraceRead`,
`CopiesRead`), from whatever run it is.

## 3. The runs

| run | shows | bounds |
|---|---|---|
| `get_rows` | correctness, finality, return, refinement and the inductive invariant of the DSP kernel | 3 workers, 1–4 rows, 3 × 4 table in 2 × 2 tiles, one id in and one (negative) id outside the table |
| `placement` | claim and dispatch agree, rows are filled exactly, and the inductive invariant | 3 types, row lengths 31, 32, 64, all buffers, 2 cached graphs |
| `layer_prof` | what a logged time covers, execution numbers, common exit without a thread left behind, termination, and the inductive invariant | 3 threads, 3 nodes, 2 executions, every fusion, empty set and abort |
| `layer_tables` | the cells of a CPU-mode capture, however its executions are classified, and the tables of the two HTP0-mode logs beside it (`MCLayerTables`) | a warm-up, 2 chunks, 0–5 decodes, 5 lines per pass; 4 HTP0 runs of 3–8 passes over 9 nodes, 1 layer |
| `phases_htp` | finding: the execution taken for the prefill | a warm-up, 2 chunks of 2 CPU splits, 0–3 decodes |
| `capture` | freshness of complete sessions, and its inductive invariant | 2 pairs, 3 sessions, 2 failures |
| `capture_both_passes` | finding: pass 1 is overwritten | 2 pairs, 1 session |
| `snapdragon` | the package and device contents under partial failures, the smoke test's verdict on that device, and the inductive invariant | 4 files, 2 revisions, 3 kinds of lines of other apps |
| `quant_matrix` | own rows, repair and completeness | 2 models, 3 runs, 2 failures; a failing run has printed 0, 12 or 30 layers |
| `tied_gguf` | the rewritten GGUF, whole and cut short, and the inductive invariant | 1–3 tensors of 1–3 cells, alignment 2 recorded or 4 by default, 2 header sizes, trailing padding or not |
| `tied_experiment` | what a run reports after conversions, failures and interruptions | 3 quantisations (`MCTiedExperiment`), 2 conversions, 2 runs, 1 failure; runs without a graph dump and partial models are not counted as failures |
| `backend_flow` | the verdict on the embedding's move and the table's columns (`MCBackendFlow`) | 8 placements of GET_ROWS and its two readers, 3 more with another prefill, 2 runs, 1 failure, dumps cut anywhere |

Why the bounds suffice:

* `get_rows`: four rows on three workers give a slice of two, a slice of two and
  an empty one (the early return), three rows one each, one row a single
  worker. Row 2 of a three-row table lies in a partly filled column tile, with
  a stride of two tiles before it; wrong strides, swapped nibbles and wrong
  scales all move it. Every size beyond is covered by the proof.
* `placement`: 31 is a row length only F32 can have, 32 and 64 are one and two
  tiles; two uids give a hit after a miss in another graph.
* `layer_prof`: three nodes give a first, a middle and a last one and the two
  fusions that share a node; two executions give a counter to confuse; with
  three threads one can lag while the two others agree.
* `layer_tables`: in the CPU-mode capture three passes are before the first decode, so five
  decodes are the fewest of which a majority is left when each other pass, and the one
  decode that may be taken for the prefill, costs one; a decode may take longer than a
  chunk, and the chunks take equally long. A name printed by two nodes (`Qcur-0`) has
  two lines per pass. The HTP0 runs cover fused and unfused groups, a name borne by two
  nodes, a group named differently by the two logs, an empty block, graphs of different
  shape one after the other, a node on the CPU in one pass and on HTP0 in another, and a
  graph with two DSP splits. An ADD cut down to one row may take longer in the prompt
  than in a decode, and in one run four decodes outnumber the three other computed
  passes. One layer is enough, as names of different layers differ, or are shared as
  `Qcur-0` is. Which ops are slow is chosen per pass. TLC evaluates
  `TablesAssumption` of these runs. Any number of passes, splits and lines is covered by
  the proof.
* `capture`: a session can fail, be interrupted and be followed by a complete
  one that must hide both; HTP0 pairs have one log more than CPU pairs.
* `snapdragon`: a failed build of a new revision over the package of an old one
  needs two revisions. The smoke test needs one device, a log that was not
  emptied and one line of each kind that could change a verdict.
* `quant_matrix`: an interrupted run, a failing run and a clean one; no, some and all
  layers are the numbers the CSV can be wrong about.
* `tied_gguf`: sizes before, at and behind an alignment boundary in every
  position, the embedding first, in the middle, last or missing; the new info
  entry moves the data section by less than and by exactly its size. Every other
  file is covered by the proof.
* `tied_experiment`: the run looked at needs one before it to leave stale files,
  with another quantisation; there is one for each place of the table. One failure is in
  either run, beside partial models and missing dumps, which take none.
* `backend_flow`: the same for placements. The phases are analysed one by one, so that
  a prefill placed differently need not be combined with every decode; attention and
  output head do not enter the properties. One failure, as a lost shell or a program
  that dies, leaves any combination of dumps, and an interruption takes none. The
  proofs cover any placements and numbers of runs and failures.

`CHECK_DEADLOCK` is never switched off: a script that is over and has used up
its bound stutters explicitly (`Finished`), so any other state without a step is
an error.

### Fairness

* `GetRowsTiled`: weak fairness of each worker and of `OpReturn`. The DSP worker
  pool runs all released workers, and `worker_pool_run_func` waits for all of
  them; nothing is assumed about the arrival of another request.
* `LayerProf`: weak fairness of each pool thread and of `GraphDone`. The
  threads of the pool are operating-system threads that spin or sleep on the
  barrier; no fairness of `GraphCompute`.
* The other modules state only safety and have no fairness: an operator need
  never start a script again.

### Findings

* `phases_htp` — the counter `g` counts graph executions, not passes over the prompt. A
  prefill is one execution per chunk of `n_ubatch` tokens and per CPU split, of which
  the parser files only the one with the largest total as prefill; the times of the
  others enter the decode medians. The run has two chunks of two splits, as in HTP0 mode
  (`htp_cpufb`). In CPU mode there is one split, but the committed capture has 720
  tokens (`artifacts/layer_profile/environment.txt:20`), computed as 512 and 208
  (`artifacts/layer_profile/raw/assign_Q8_0_CPU.log`), and the execution over 208 is
  filed as decode. Its 63 decodes outvote it in the medians; how many are enough is what
  `CellWithinDecodes` says.
* `capture_both_passes` — pass 2 measures into the log of pass 1 before renaming
  it; of the two measurements announced only the second survives.

### Known divergences without a run

These show in a single step or a single line, so no run was spent on them:

* `patches/0002:49` says the node is complete after the barrier; no barrier
  follows the last node of a graph, whose line can be early (`TimingComplete`
  excludes it).
* `parse_layer_profile.py:379`: `cput(...) or NA_CPU` turns a median of 0 µs into
  "not captured" (`Cell` models it, `CellWithinDecodes` allows for it). The HTP0-mode
  median takes the same way, and the prefill's time is shown where a decode took less
  than a microsecond (`HtpTime`; `RowTimeIsOwn` is about ops that always took one).
* With patch 0001 the preset has OpenCL off while `check_snapdragon_pkg.sh:38`
  and the install verification still require `libggml-opencl.so`
  (`CompleteBuildPasses` is stated for builds with OpenCL). A prefix in which an
  earlier build left the library passes.
* `install_snapdragon_pkg.sh:89`: a failed push only warns, so the verification
  can pass on the files of an earlier install; and a path the device gives no
  answer for counts as missing (`VerifyExit`).
* `build_snapdragon_llamacpp.sh:132`: on every build after the first the target of
  `cp -R` exists, and the wrappers land in `scripts/snapdragon/snapdragon`; the old
  ones stay where they are used (`CopyWrappers`), against
  `tools/build_snapdragon/README.md:67`.
* `bench_quant_matrix.sh:34` calls the generation idempotent; a quantisation that
  was cut short leaves a file, which every later run takes for the model
  (`GenSkip`).
* `parse_results.py:288` compares the backend of the trace with `HTP0`; the patch prints
  `[HTP]` (`patches/0001:261`), from which the parser reads `HTP` (`:87-89`), so the test
  never holds and an offload is recognised by the buffer type alone (`Conclusion`).
* `parse_results.py:290` concludes "GET_ROWS CPU 고정" without any trace as well, so after
  a failed run the conclusion is drawn from nothing; and
  the row of a skipped or unselected variant shows the files of an earlier run,
  possibly of another quantisation (`CleanRunIsReported` is about the variants
  that ran).
* `parse_results.py:178-182` formats the default `'N/A'` of a missing key as a number; the
  exception is swallowed, and all numbers from there on are N/A (`Performance`).
* `01_run_backflow.sh:92-98`: a failed pull leaves the local dump of an earlier run, which
  `parse_backflow.py` takes for this run's. `ColumnOfOwnGraph` and `PulledIsOfThisRun`
  are about files that were pulled.
* `parse_backflow.py:433-445`: a graph dump that ends before the node that reads the
  embedding makes the table say "?", also where a complete trace would have it
  (`Column`, `Consumer`).
* `parse_backflow.py:584`: with layer 0 on the CPU and any copy in the graph the
  verdict says that the embedding is copied, though another activation is
  (`MoveIsReported` states the other direction).
* `parse_backflow.py:444` takes the crossing of the table from the graph *or* the
  trace, the verdict (`parse_backflow.py:571`) from the graph if there is one: with a
  trace of an earlier run the table can say that the embedding crosses and the verdict
  that nothing was found (`ColumnOfOwnGraph` states what a stale trace cannot do). The
  row is called "CPU→HTP" and is true of HTP0 to CPU as well.
* `parse_backflow.py:466`: unless exactly one tensor was copied the table says that
  the output head's input is copied from HTP0 to the CPU; the section below it says
  that the CPU reads it in place.
* `run_htp0_smoke.sh:86,98` looks for `scripts/llama-cli.sh` or `./llama-cli`; the
  package installs `bin/llama-cli` (`SmokeRun`: the default directory finds no
  program).
* `parse_htp_smoke_log.py:216`: the exit code of the run does not enter the verdict,
  so a run that crashed after its layers were offloaded has no fallback suspected,
  and another app's `fallback` in logcat raises the suspicion
  (`NoFallbackMeansHtp` excludes foreign lines).
* `parse_layer_profile.py:93` says that the name in a profile line matches the `dst`
  of the op list. For a fused group it does not (the group's last name, not its
  first): in the committed tables the RMS_NORM rows of `norm-<i>` have no time. And
  when the name does match it may be another node's: a projection fused under another
  name shows the time of the ROPE of its own name (`op_detail.csv`: `Kcur-5`, decode,
  7 µs, in the MUL_MAT row and in the ROPE row). `RowTimeIsOwn` is therefore about ops
  that share neither name nor group.
* `parse_layer_profile.py:297` calls the sums of `layer_timing.csv` times per iteration.
  They are sums over names, with one median for all lines of a name (`:282`), and several
  ops have one name: MUL_MAT and ROPE of `Qcur-0`, `norm` and `ffn_post_norm` in every
  layer. A sum over a block is therefore less than the block's ops take. And the last op
  of a name gives block and role for all (`dst_meta`), while `op_compare.csv` gives each its
  own.
* `parse_layer_profile.py:311`: roles `token_embd` and `output` have no row in
  `layer_timing_by_role.csv`.
* `parse_layer_profile.py:98,109` files an HTP line by its rows, at most eight being a
  decode. An op of the prompt's last chunk that computes one output only is filed as
  decode, as is the warm-up (`RowTimeWithinDecodes` says from how many decodes on this
  does not show).
* `parse_layer_profile.py:247`: one row per name and op merges distinct nodes of a
  graph as well, and the reserve graph, which comes first in the log, decides the
  backend that is reported (`CpuRows` for the names that have no HTP0 row).
* `parse_layer_profile.py:121`: only the largest op list is kept. Where a graph has
  several DSP splits, the ops of the others are in no row (`CompareCoversGraph`
  is stated for graphs with one).
* `parse_layer_profile.py:390` puts the embedding first and the output last by
  role; in a tied model the output's weight is `token_embd.weight`, so it comes
  first as well.

## 4. The proofs

`GetRowsTiled_proofs` proves, for every table, tile shape, pool size, buffer size
and id set that satisfies the assumptions:

`SafetySpec` is `Spec` without its fairness, which safety does not need (in
`LayerProf` as well).

| theorem | statement |
|---|---|
| `DecodeCorrect` | the kernel's arithmetic returns the row's own block |
| `Typing` | `SafetySpec => []TypeOK` |
| `Inductive` | `SafetySpec => []IInv` |
| `RowsServed` | `SafetySpec => []RowsCorrect` |
| `Finality` | `SafetySpec => PastRowsFinal` |
| `Refinement` | `SafetySpec => ImplementsPromise` |

Assumptions: `LayoutAssumption` (positive sizes, an even number of elements per
tile row, as two quants share a byte), `PoolAssumption` (at least one worker and
one row), `IdsAssumption` (ids are 32-bit: as `uint32_t` no id outside the table
wraps into it). All hold of the code's 32 × 32 tiles and int32 token ids.

The argument. `RowsCorrect` is not inductive: it says nothing while the operation
runs. `IInv` adds where every worker is: rows of its slice before `cur` are
served, row `cur` is dequantised up to `kt`, later rows are as they were;
workers that were not released are off; rows beyond the request are untouched.
Preservation by a worker's step needs that slices are disjoint
(`SlicesDisjoint`: consecutive multiples of `tasks_per_thread`), so that a write
disturbs only the writer's own conjunct. On return every row of the request lies
in the slice of a released worker (`SlicesCover`: `tasks_per_thread` times
`n_threads` is at least `nr`), which is done, hence served. The arithmetic lemmas
(division with remainder, rounding up) are proved once and cited. `Refinement`
uses `IInv` for the return step; all other steps but the request stutter.

`Placement_proofs` proves of `GetRowsPlacement`, for every row length, tile width, set
of graphs and for both values of the build switch (`PlacementAssumption`):

| theorem | statement |
|---|---|
| `Inductive` | `Spec => []IInv` |
| `Honoured` | `Spec => []ClaimHonoured` |
| `Filled` | `Spec => []RowFilledExactly` |

The argument. The danger is what is remembered: a claim made for an unplaced table,
parameters packed for another graph. `IInv` says that nothing is cached before the
table is placed and that a table is placed once, so that cached parameters are
those that would be packed now; and that a claim is what would be answered for the
buffer it was made for, which `GraphCompute` requires to be the table's. The tile
count fills a row exactly because a Q4_0 row is a whole number of blocks
(`WholeTiles`).

`Placement_proofs` also proves what the backend-flow experiment tells of these
decisions (`BackendFlow`, whose specification is called `FlowSpec`, so that one module
can hold both), for any set of placements and any number of runs and failures
(`FlowAssumption`, `LayoutsAssumption`; `NoneAssumption`: a missing file is told from a
file):

| theorem | statement |
|---|---|
| `FlowInductive` | `FlowSpec => []FlowInv` |
| `PulledOwn` | `FlowSpec => []PulledIsOfThisRun` |
| `MoveReported` | `FlowSpec => []MoveIsReported` |
| `ColumnOwn` | `FlowSpec => []ColumnOfOwnGraph` |

The argument. `FlowInv` says that behind the program's start the device holds this
run's dumps or none, unless the shell was lost before the `rm -f`, and all of them if
nothing failed. A dump that came through may still be cut off (`Pieces`): with its
first row it tells where GET_ROWS was, and no consumer (`FirstRow`). `FlowConsumer`
shows what the analysis makes of any dump: the consumer it finds in a whole one is the
norm, and its two marks for a crossing say together that the norm is placed elsewhere
than GET_ROWS. A copy that only the residual add reads is not among them; there the
verdict rests on `n_copies`.

`TiedEmbedding_proofs` proves of `TiedOffGguf`, for every set of well-formed source files
(`SourcesAssumption`: any number of tensors, any sizes, any alignment):

| theorem | statement |
|---|---|
| `UntiedWellFormed` | the rewritten file is well formed |
| `UntiedReadsBack` | every tensor reads back as the input's, `output.weight` as the embedding |
| `GgufInductive` | `GgufSpec => []GgufInv` |
| `OutputSafe` | `GgufSpec => []OutputWellFormed` |
| `WholeOrUnreadable` | `GgufSpec => []UntiedIsWhole` |

The argument. Two computations must meet: the offset recorded for
`output.weight` is the end of the last tensor, aligned; its data follow the whole
old data section, padded from that section's size. `AlignUpSame` shows that both
are the same place as long as nothing but padding up to the next boundary follows
the last tensor, which `WellFormed` says of the input and `UntiedWellFormed` shows
of the output. `UntiedIsWhole` and `OutputWellFormed` say nothing of a file that
is being written or was cut short, so `GgufInv` says that what is on disk is `Cut` of
the result of an accepted input. `CutAccepted` shows that a
cut the reader accepts holds every tensor to its end, so it is well formed and
reads back as the whole file does; what may be missing is padding behind the last
tensor.

`CaptureMatrix_proofs` proves, for every order of pairs and any number of sessions
and failures (`CaptureAssumption`: a non-empty sequence of configurations with
modes CPU or HTP0):

| theorem | statement |
|---|---|
| `Inductive` | `Spec => []IInv` |
| `OneSession` | `Spec => []WholeIsFresh` |

The argument. `WholeIsFresh` speaks only of sessions that are over. `IInv` says of a
running one that every log *behind* it (`Behind`: earlier pairs, earlier logs of
the pair, in pass 2 all logs of pass 1, and the renamed logs of the pairs
already measured again) is its own or missing. Pass 1 walks the pairs forward and
pass 2 backward, so after the first pair's rename everything is behind. Pairs
may occur twice in the order; a CPU pair has no profile, which needs an invariant
of its own, as no session would replace one.

`SnapdragonSmoke_proofs` proves, for every set of packaged and verified files and
any number of revisions (`PkgAssumption`, `SmokeAssumption`: the OpenCL library, the
program and the Hexagon library are among them) and any lines of other apps:

| theorem | statement |
|---|---|
| `SmokeIsPipeline` | `SmokeSpec => Spec`: the smoke test changes nothing of the pipeline |
| `Packages`, `Devices`, `Checks` | `PackageIsBuilt`, `DeviceIsOneBuild`, `CompleteBuildPasses` |
| `Inductive` | `SmokeSpec => []SmokeInv` |
| `Verdict`, `OwnLog` | `NoFallbackMeansHtp`, `OwnLogDecides` |

The argument. While the build script runs, nothing counts as completed or checked;
from its third step on the build directory is of the tree's revision, from its
fourth the package is too (`PkgInv`). The pipeline's theorems are proved of `Spec`
and transferred by `SmokeIsPipeline`. For the verdict `SmokeInv` adds that what the
run printed fits the files on the device, which stay the same until the report,
and that a log without foreign lines holds no more than the run printed; "NO"
needs the runtime's line and a layer count or buffer from these two texts.

`LayerProf_proofs` proves, for every number of threads, nodes and executions
(`LayerProfAssumption`: at least one of each), every fusion, every set of empty
nodes and an abort at any node:

| theorem | statement |
|---|---|
| `Inductive` | `SafetySpec => []IInv` |
| `TimesComplete`, `TimesExclusive` | `TimingComplete`, `TimingExclusive` |
| `GroupsTellCalls` | `GroupsAreCalls` |
| `LeavingTogether` | `LeaveTogether` |
| `NoStandstill` | `SafetySpec => []SomeoneRuns`: in a graph execution some thread can go on |

The argument. Threads drift apart between barriers, so what holds of a single
thread is not enough: `IInv` says of every *pair* where they can be. They differ by
one barrier at most. With equally many (`SameStretch`) only empty nodes lie between
them, as every other group ends in a barrier; the exception is the last group,
which none follows. A thread with one barrier more (`OneBehind`) waits there, and
the other has that group, or empty nodes before it, still to do. Hence a thread
that takes `lp_t0` or logs after the barrier has nobody's share of an earlier node
open (`NobodyBefore`). The abort flag could tear the threads apart, because some
read it before and some after thread 0 sets it. `AbortInv` says that it names the
node after thread 0's group while nobody is beyond that node: the barrier keeps the
others from reaching it before the flag is set, and after the last group there is
nothing to leave. `LeaveTogether` and `NoStandstill` follow: two threads cannot leave at
different nodes, one that has left has arrived wherever another waits, and of two
barriers threads wait at, the earlier is open. `NoStandstill` is the part of
`GraphEnds` that needs no fairness.

`QuantMatrix_proofs` proves, for every non-empty list of models, with repetitions,
any number of runs and failures (`MatrixAssumption`):

| theorem | statement |
|---|---|
| `Inductive` | `Spec => []IInv` |
| `OwnRows` | `Spec => []RowsOfThisRun` |
| `Repaired` | `Spec => []DeviceRepaired` |
| `Complete` | `Spec => []MatrixComplete` |

The argument. `DeviceRepaired` and `MatrixComplete` speak of the end of a clean run.
`IInv` says how far such a run is: models before `n` exist (`Generated`), then are on
the device (`Copied`), then have their rows, exactly as many as the loops have
turned (`Measured`). The repair rests on `SameSize`: a torn, partial or absent
remote file never has the size of the host's. For `RowsOfThisRun` a running program's
log is of this run and of the file now on the device, as `run_alloc` and `run_bench`
empty theirs.

`TiedEmbedding_proofs` also proves, of `TiedExperiment`, for every set of quantisations,
wherever their tables land, and any number of conversions, runs and failures
(`ExperimentAssumption`: stamps are told from the two marks for missing and
unreadable files):

| theorem | statement |
|---|---|
| `Inductive` | `Spec => []IInv` |
| `Reported` | `Spec => []CleanRunIsReported` |
| `BenchIsFresh` | `Spec => []BenchOfThisRun` |
| `OwnGraphs` | `Spec => []GraphOfOwnVariant` |

The argument. Two variants share one graph name on the device, and old files lie
everywhere. `IInv` follows the files of the variant under way from command to command
(`VariantInv`) and keeps those of the variants behind (`Behind`); without a failure, and
with the graph dumped, all are `Full`, this run's and whole. A whole log has both traces,
so `Conclusion` follows `Buft`. The benchmark is redirected into its file on the host,
so it is fresh even where its command fails; the graph is not, but `rm -f` in the shell
of the same run keeps the other variant's away unless that shell was lost. Most
steps touch one variant's files only (`VariantStep`).

`LayerTables_proofs` proves, for any graphs, runs, times and any number of lines in
the three logs (`PhasesAssumption`, `TablesAssumption`):

| theorem | statement |
|---|---|
| `LogCellWithinDecodes` | `Spec => []CellWithinDecodes` |
| `TablesCellWithinDecodes` | `TablesSpec => []CellWithinDecodes` |
| `TablesTransitionsComplete` | `TablesSpec => []TransitionsComplete` |
| `TablesRowTimeIsOwn` | `TablesSpec => []RowTimeIsOwn` |
| `TablesCompareCoversGraph` | `TablesSpec => []CompareCoversGraph` |

The argument. The logs are written by a few steps; the tables are computed from them by
medians and concatenations of any length. What is needed of these is proved without
induction, from least numbers and smallest sets (`LeastNatural`, `SmallestSet`):

* `MedianFacts`, `MedianOfMajority`: the median of some lines is the time of one of them,
  with no more than half of them below it, and lies between two times of any majority;
* `JoinsExists`, `FlattenLaid`, `FlattenMembers`: where each part of a concatenation lies,
  and that nothing else is in it.

`PrefillFound` being false, nothing is known of the execution taken for the prefill but
that all its lines are of one pass. `CaptureInv` says that each pass has exactly one
line for each op of each split. So the lines filed as decode that are not a decode
step's can be sent, one to one, to lines of decode steps: those of another pass to
the lines of the same places in a decode step of its own, the passes being numbered
around the one that is missing (`DecodeMajority`). Two decode steps more than other
passes leave one line over. Hence decode steps are the majority of the lines of an op,
and the median lies within their times (`CellFromInv`).

`TablesInv` says that the assignment log is a prefix of the run and each profile line the
sample of a group of its pass.
`TransitionsComplete` follows from where the `SPLIT` lines of a graph lie
(`SplitLinesLaid`): the line before its first one is the last of another graph.
`RowTimeIsOwn` uses that a line bears the name of the last node of its group, which has
a node line as well (`SamplesFacts`), so that a line of the name of an op without
namesakes is that op's. `CompareCoversGraph` uses that the passes of a run are over the
same nodes and that of the CPU lines of a name the first gets the row
(`CpuRowOfName`).

The inductive invariants of `QuantMatrix`, `TiedExperiment`, `BackendFlow`,
`LayerProfPhases` and `LayerTables` are not in their runs' configurations, which check
the properties themselves; TLC finds all five to hold under the same configurations.

Checked by TLC only: liveness (`OpReturns`, `GraphEnds`), which needs fairness, and
`RowTimeWithinDecodes`. All other safety invariants and action properties of the passing
runs are theorems.

## 5. Not modelled

* Patch management: `patch_manage.sh` is one conditional over what git does to a
  checkout; its hazard (a revert that discards other edits) is listed, planned
  in section 6. CPU baseline scripts: run once, by hand; two of them write
  themselves anew at their first run.
* Of the parser: `layer_assignment.csv` and the layer summary, `layer_timing.csv` and
  `layer_timing_by_role.csv` (sums over names, see the known divergences), the batch
  overhead, `mode_comparison.csv`, `raw_node_timing.csv` and the HTP-mode column of CPU
  rows.
* Of the smoke test: the fields that only report whether a keyword occurs.
* Of the experiments: the download, the tensor and HF-config columns of
  `summary.md`; of the backend flow buffer types, the output head's rows, the counts
  of the schedules, user copy nodes and timings.
* Trace output other than the DSP's op list, device probe, recipe comparison:
  read-only, or pure reports.
* ggml's scheduler, loader and worker pool, cmake, adb, llama-quantize: external,
  modelled as far as the code here depends on them.
* A request without rows (`nr = 0` divides by zero in the kernel): ggml does not
  schedule it. 64-bit ids beyond 32 bits: token ids are int32.
* Memory of the DSP (cache flushes, DMA): `op_get_rows` relies on the worker
  pool's join for visibility, as all kernels of the backend do.
* Data races of the timer's counter: every thread copies it, only thread 0's copy
  is used, and only that one is in the model.

## 6. Plan

Order, the most important first; done so far: 1–12.

1. `TiledLayout`, `GetRowsTiled`, `GetRowsSpec`: correctness, refinement, proofs.
2. `GetRowsPlacement`: the host's half of GET_ROWS, with proofs.
3. `LayerProf`: the instrumented thread pool, with proofs.
4. `LayerProfPhases`: from its lines to the table, with proofs.
5. `CaptureMatrix`: where the logs come from, with proofs.
6. `SnapdragonPkg`: how the program gets on the device, with proofs.
7. `QuantMatrix`, with proofs.
8. `TiedOffGguf`: the rewritten GGUF, with proofs.
9. `TiedExperiment`, `BackendFlow`: what the experiments' summaries are made of, with
   proofs.
10. `LayerTables`: assignment, transitions, roles and op tables, composed with
    `LayerProfPhases`, with proofs.
11. `SnapdragonSmoke`: the verdict over stale logcat lines, composed with
    `SnapdragonPkg`, with proofs.
12. Proofs: the safety of `LayerProf` (barrier phases), of `QuantMatrix`, the stamps of
    `TiedExperiment` and `BackendFlow`, the medians of `LayerTables`; left:
    `RowTimeWithinDecodes`, which needs the majority argument for HTP0 lines.
13. The tensor columns of `parse_results.py`, the rest of `parse_layer_profile.py`'s
    tables.
14. `PatchState`, `CpuBaseline`, `RecipeCompare`, if they have a property worth
    stating.

A run answers one question; where a new module needs one, the two findings are
the first to be told by a divergence alone.
