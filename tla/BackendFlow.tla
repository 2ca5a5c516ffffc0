------------------------------- MODULE BackendFlow -----------------------------
(***************************************************************************)
(* The backend-flow experiment: 01_run_backflow.sh runs the program with   *)
(* its dumps on, pulls them and calls parse_backflow.py, which says where  *)
(* the embedding row is made and read in the prefill and in the decode     *)
(* graph, and whether it moves to HTP0.                                    *)
(*                                                                         *)
(* A graph is its skeleton: GET_ROWS makes embd, the first norm and the    *)
(* first residual add read it, the output projection ends it.              *)
(* The scheduler places each node and, where a node on HTP0 reads a CPU    *)
(* tensor, lets it read a copy instead; CPU nodes read HTP0 memory.        *)
(***************************************************************************)
EXTENDS Integers, Sequences, FiniteSets

CONSTANTS
  Layouts,      \* placements of the prefill and of the decode graph, per run
  MaxRuns,      \* bound: starts of the script
  MaxFailures,  \* bound: commands that fail
  None          \* no such file

ASSUME FlowAssumption == MaxRuns \in Nat /\ MaxFailures \in Nat

Backends == {"CPU", "HTP0"}

\* The nodes in graph order, and the tensors of src0 and src1.
Order == <<"embd", "norm", "attn", "add", "output">>
Srcs == [embd   |-> <<"token_embd.weight", "inp_tokens">>,
         norm   |-> <<"embd">>,
         attn   |-> <<"norm">>,
         add    |-> <<"attn", "embd">>,
         output |-> <<"output.weight", "add">>]
Nodes == {Order[i] : i \in DOMAIN Order}

Phases     == {"prefill", "decode"}
Placements == [Nodes -> Backends]

ASSUME LayoutsAssumption == Layouts \subseteq [Phases -> Placements]

\* The files the table and the verdict are taken from, in the order they are pulled.
GraphFile == [prefill |-> "prefill_graph_nodes.txt", decode |-> "decode_graph_nodes.txt"]
PullOrder ==
  <<GraphFile["prefill"], GraphFile["decode"], "get_rows_trace.txt", "decode_timing.csv">>
Files == {PullOrder[i] : i \in DOMAIN PullOrder}

\* How far a dump goes: to no record, to its first one (the GET_ROWS row of a graph,
\* the prefill section of the trace, no decode step in the csv), or beyond.  Of a
\* graph cut off beyond the row of the consumer everything said here is the same.
Empty == 0
First == 1
Whole == 2

--------------------------------------------------------------------------------
(***************************************************************************)
(* The dump of one run.                                                    *)
(***************************************************************************)

\* ggml_backend_sched inserts a copy where a node on HTP0 reads a CPU tensor.
Copied(place, x, y) == x \in Nodes /\ place[x] = "CPU" /\ place[y] = "HTP0"

\* n_copies of decode_timing.csv: how the program counts is its own affair, but
\* it is not 0 when something was copied.
NCopies(place) ==
  IF \E y \in Nodes : \E k \in DOMAIN Srcs[y] : Copied(place, Srcs[y][k], y)
  THEN {1} ELSE {0, 1}

\* The CROSS-BACKEND mark of a section of get_rows_trace.txt.
TraceCross(place) == place["embd"] # place["norm"]

\* A source as the dump names it: HTP0#embd#0 for the copy of embd.
SrcName(place, y, k) ==
  [tensor |-> Srcs[y][k], copy |-> Copied(place, Srcs[y][k], y)]

\* The rows of a graph_nodes.txt, in graph order.
GraphNodes(place) ==
  [i \in DOMAIN Order |->
     [name |-> Order[i], be |-> place[Order[i]],
      srcs |-> [k \in DOMAIN Srcs[Order[i]] |-> SrcName(place, Order[i], k)]]]

\* What a dump cut off after its first row shows.
FirstRow(place) == [i \in {1} |-> GraphNodes(place)[i]]

--------------------------------------------------------------------------------
(***************************************************************************)
(* parse_backflow.py.                                                      *)
(***************************************************************************)

\* Node i reads embd, or the scheduler's copy of it.
ReadsEmbd(rows, i) == \E k \in DOMAIN rows[i].srcs : rows[i].srcs[k].tensor = "embd"

\* analyze_graph_nodes: the first node behind GET_ROWS that reads embd, if any.
Consumer(rows) ==
  LET after == {i \in DOMAIN rows : i > 1 /\ ReadsEmbd(rows, i)}
  IN  IF after = {} THEN [name |-> "?", be |-> "?", srcs |-> <<>>]
      ELSE rows[CHOOSE i \in after : \A j \in after : i <= j]

\* sched_copy_be is set: the consumer reads a copy tensor of embd.
SchedCopy(rows) ==
  \E k \in DOMAIN Consumer(rows).srcs :
    Consumer(rows).srcs[k].tensor = "embd" /\ Consumer(rows).srcs[k].copy

GetRowsBackend(rows) == rows[1].be

CrossBackend(rows) ==
  SchedCopy(rows) \/ Consumer(rows).be \notin {"?", GetRowsBackend(rows)}

\* Mutant of Column: a trace overrides the graph.
ColumnOfTrace(rows, trace) ==
  [getRows  |-> IF trace # None THEN trace["embd"]
                ELSE IF rows # None THEN GetRowsBackend(rows) ELSE "N/A",
   consumer |-> IF trace # None THEN trace["norm"]
                ELSE IF rows # None THEN Consumer(rows).be ELSE "N/A",
   cross    |-> (rows # None /\ CrossBackend(rows)) \/ (trace # None /\ TraceCross(trace))]

\* A phase's column of the table: the graph dump decides, even by a "?"; the trace
\* stands in for a missing one; but "cross-backend" is what either of them says.
Column(rows, trace) ==
  [getRows  |-> IF rows # None THEN GetRowsBackend(rows)
                ELSE IF trace # None THEN trace["embd"] ELSE "N/A",
   consumer |-> IF rows # None THEN Consumer(rows).be
                ELSE IF trace # None THEN trace["norm"] ELSE "N/A",
   cross    |-> (rows # None /\ CrossBackend(rows)) \/ (trace # None /\ TraceCross(trace))]

\* Mutant of Verdict: the timing file is not consulted.
VerdictGraphOnly(rows, cross, copies) ==
  IF rows # None /\ GetRowsBackend(rows) = "HTP0" THEN "2"
  ELSE IF IF rows # None THEN CrossBackend(rows) ELSE cross THEN "1" ELSE "3/5"

\* The last section of summary.md; without a graph dump the mark of the trace and
\* n_copies are left.
Verdict(rows, cross, copies) ==
  IF rows # None /\ GetRowsBackend(rows) = "HTP0" THEN "2"
  ELSE IF IF rows # None THEN CrossBackend(rows) ELSE cross THEN "1"
  ELSE IF copies > 0 THEN "1" ELSE "3/5"

--------------------------------------------------------------------------------
\* A file is told by the run that wrote it, its placement, its n_copies and how much of
\* it there is; a missing one is none of these, nor a dump or a trace.
Stamp == [run : 1 .. MaxRuns, place : Layouts, copies : {0, 1}, upto : Empty .. Whole]

ASSUME NoneAssumption ==
  /\ None \notin Stamp /\ None \notin Placements
  /\ \A p \in Placements : GraphNodes(p) # None /\ FirstRow(p) # None

VARIABLES
  pc,        \* "off", "run", "pull", "parsed"
  place,     \* where this run's model and --ngl put the nodes of each graph
  copies,    \* n_copies of this run
  remote,    \* REMOTE_FLOW_DIR: per file, the run and placement it describes
  local,     \* the experiment's directory
  pulled,    \* history: files pulled in this run
  run,       \* starts of the script
  failures,  \* commands that failed
  clean,     \* history: no command of this run failed
  lost       \* history: this run's adb shell was lost before it did anything

flowVars == <<pc, place, copies, remote, local, pulled, run, failures, clean, lost>>

Came(upto) == [run |-> run, place |-> place, copies |-> copies, upto |-> upto]
This == Came(Whole)

\* What the program may have made of a dump when it ends early, and what is left of a
\* file when its pull is cut off.
Pieces == {None} \cup {Came(upto) : upto \in Empty .. Whole}
CutOff(file) ==
  IF file = None THEN {None}
  ELSE {[run |-> file.run, place |-> file.place, copies |-> file.copies, upto |-> n] :
          n \in {m \in Empty .. Whole : m <= file.upto}}

FlowInit ==
  /\ pc = "off" /\ place \in Layouts /\ copies = 1
  /\ remote = [f \in Files |-> None] /\ local = remote
  /\ pulled = {}
  /\ run = 0 /\ failures = 0 /\ clean = TRUE /\ lost = FALSE

\* The device answers and the model is there, else exit 1.
Start(p) ==
  /\ pc \in {"off", "parsed"} /\ run < MaxRuns
  /\ run' = run + 1
  /\ place' = p /\ copies' \in NCopies(p["decode"])
  /\ pc' = "run"
  /\ pulled' = {} /\ clean' = TRUE /\ lost' = FALSE
  /\ UNCHANGED <<remote, local, failures>>

Fail ==
  /\ failures < MaxFailures
  /\ failures' = failures + 1
  /\ clean' = FALSE

\* Mutant of Infer: rm -f without the csv.
InferKeepsCsv ==
  /\ pc = "run"
  /\ pc' = "pull"
  /\ \/ /\ remote' = [f \in Files |-> This]
        /\ UNCHANGED <<failures, clean, lost>>
     \/ /\ Fail
        /\ \/ lost' = TRUE /\ UNCHANGED remote
           \/ /\ \E dumps \in [Files -> Pieces] :
                   remote' = [f \in Files |-> IF dumps[f] = None /\ f = "decode_timing.csv"
                                              THEN remote[f] ELSE dumps[f]]
              /\ UNCHANGED lost
  /\ UNCHANGED <<place, copies, local, pulled, run>>

\* rm -f of all dumps, then the program: it writes them all, or dies and leaves some,
\* wholly or in part; or the shell is lost first.
Infer ==
  /\ pc = "run"
  /\ pc' = "pull"
  /\ \/ /\ remote' = [f \in Files |-> This]
        /\ UNCHANGED <<failures, clean, lost>>
     \/ /\ Fail
        /\ \/ lost' = TRUE /\ UNCHANGED remote
           \/ remote' \in [Files -> Pieces] /\ UNCHANGED lost
  /\ UNCHANGED <<place, copies, local, pulled, run>>

\* The loop over the files; one that is missing leaves the local file, a pull that
\* breaks leaves it or removes it.
Pull ==
  /\ pc = "pull"
  /\ pc' = "parsed"
  /\ LET there == {f \in Files : remote[f] # None}
     IN  \E broken \in SUBSET there : \E gone \in SUBSET broken :
           /\ failures' = failures + Cardinality(broken) /\ failures' <= MaxFailures
           /\ clean' = (clean /\ broken = {})
           /\ pulled' = there \ broken
           /\ local' = [f \in Files |-> IF f \in pulled' THEN remote[f]
                                        ELSE IF f \in gone THEN None ELSE local[f]]
  /\ UNCHANGED <<place, copies, remote, run, lost>>

\* Interrupted before or after rm -f, with the dumps as far as they came; or in the
\* loop, with the file being pulled as far as it came.  (After the last run nobody
\* reads them.)
Interrupt ==
  /\ run < MaxRuns
  /\ pc' = "off"
  /\ \/ /\ pc = "run"
        /\ \/ UNCHANGED remote
           \/ remote' \in [Files -> Pieces]
        /\ UNCHANGED local
     \/ /\ pc = "pull"
        /\ \E n \in DOMAIN PullOrder : \E part \in CutOff(remote[PullOrder[n]]) \cup {None} :
             local' = [f \in Files |->
                         IF part # None /\ f = PullOrder[n] THEN part
                         ELSE IF remote[f] # None /\ \E i \in 1 .. n - 1 : PullOrder[i] = f
                              THEN remote[f] ELSE local[f]]
        /\ UNCHANGED remote
  /\ UNCHANGED <<place, copies, pulled, run, failures, clean, lost>>

Finished ==
  /\ pc \in {"off", "parsed"} /\ run = MaxRuns
  /\ UNCHANGED flowVars

FlowNext ==
  \/ \E p \in Layouts : Start(p)
  \/ Infer \/ Pull \/ Interrupt \/ Finished

FlowSpec == FlowInit /\ [][FlowNext]_flowVars

--------------------------------------------------------------------------------
\* What main() reads from the directory; a missing file is empty.
GraphRead(ph) ==
  LET dump == local[GraphFile[ph]]
  IN  IF dump = None \/ dump.upto = Empty THEN None
      ELSE IF dump.upto = First THEN FirstRow(dump.place[ph])
      ELSE GraphNodes(dump.place[ph])
TraceRead(ph) ==
  LET dump == local["get_rows_trace.txt"]
  IN  IF dump # None /\ dump.upto >= IF ph = "prefill" THEN First ELSE Whole
      THEN dump.place[ph] ELSE None

\* n_copies of the first decode step; a csv without one is as good as none.
CopiesRead ==
  LET csv == local["decode_timing.csv"]
  IN  IF csv # None /\ csv.upto = Whole THEN csv.copies ELSE 0

Reported ==
  Verdict(GraphRead("decode"), TraceRead("decode") # None /\ TraceCross(TraceRead("decode")),
          CopiesRead)

EmbdCopied == LET p == place["decode"] IN Copied(p, "embd", "norm") \/ Copied(p, "embd", "add")

\* A run without failures does not miss the embedding's move: hypothesis 2 is
\* announced exactly when GET_ROWS ran on HTP0, and hypothesis 1 whenever its
\* result was copied there, whichever node read the copy.
MoveIsReported ==
  pc = "parsed" /\ clean =>
    /\ Reported = "2" <=> place["decode"]["embd"] = "HTP0"
    /\ EmbdCopied => Reported = "1"

\* A phase whose graph dump came through, from the GET_ROWS row on, has the column of
\* this run, whatever of the other files is missing, cut off or left from a run with
\* another placement: where the row is made, where it is first read if that is in the
\* dump, and then no crossing is overlooked.  (A stale trace can add one.)
ColumnOfOwnGraph ==
  pc = "parsed" /\ ~lost => \A ph \in Phases : GraphFile[ph] \in pulled =>
    LET upto  == local[GraphFile[ph]].upto
        c     == Column(GraphRead(ph), TraceRead(ph))
        cross == place[ph]["embd"] # place[ph]["norm"]
    IN  /\ upto >= First => c.getRows = place[ph]["embd"]
        /\ upto = First => c.consumer = "?"
        /\ upto = Whole => c.consumer = place[ph]["norm"] /\ (cross => c.cross)
        /\ clean => upto = Whole /\ (c.cross => cross)

\* Unless the shell was lost, whatever is pulled is of this run: dumps of an
\* earlier run do not survive on the device, so a partial run cannot be mixed up
\* with them there.
PulledIsOfThisRun ==
  pc = "parsed" /\ ~lost => \A f \in pulled : local[f] \in Pieces \ {None}

(***************************************************************************)
(* The inductive invariant: unless the shell was lost the device holds     *)
(* this run's files or none, and a run without failures has them all.      *)
(***************************************************************************)
FlowTypeOK ==
  /\ pc \in {"off", "run", "pull", "parsed"}
  /\ place \in Layouts /\ copies \in {0, 1}
  /\ remote \in [Files -> Stamp \cup {None}] /\ local \in [Files -> Stamp \cup {None}]
  /\ pulled \subseteq Files
  /\ run \in 0 .. MaxRuns /\ failures \in 0 .. MaxFailures
  /\ clean \in BOOLEAN /\ lost \in BOOLEAN

FlowInv ==
  /\ FlowTypeOK
  /\ pc # "off" => run > 0 /\ copies \in NCopies(place["decode"])
  /\ pc = "pull" /\ ~lost => \A f \in Files : remote[f] \in Pieces
  /\ pc = "pull" /\ clean => \A f \in Files : remote[f] = This
  /\ pc = "parsed" /\ clean => pulled = Files /\ \A f \in Files : local[f] = This
  /\ clean => ~lost
  /\ PulledIsOfThisRun
================================================================================
