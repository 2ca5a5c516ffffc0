----------------------------- MODULE LayerProfPhases ---------------------------
(***************************************************************************)
(* From [LAYERPROF] lines to the op_compare table                          *)
(* (cap_cpuprof of capture_layer_profile.sh, parse_layerprof and the       *)
(* op_compare section of parse_layer_profile.py).                          *)
(*                                                                         *)
(* One capture runs llama-completion once: possibly a warm-up of a few     *)
(* tokens, the prompt in as many chunks as its length takes (n_ubatch at a *)
(* time), then decodes of one token, fewer if the model ends its text.     *)
(* Each of these passes executes every CPU split of the graph once; every  *)
(* such execution gets the next g and prints one line per op of the split. *)
(***************************************************************************)
EXTENDS Integers, Sequences, FiniteSets, SequencesExt

CONSTANTS
  Splits,      \* the CPU splits of a graph, in order: sequences of ops
  Warmup,      \* whether a warm-up precedes the prompt
  Chunks,      \* passes the prompt takes
  MaxDecodes,  \* bound: decode steps of the capture (-n)
  OpUs         \* per phase and op, the microseconds the op may take

Phase == {"warmup", "prefill", "decode"}

Ops == UNION {ToSet(Splits[i]) : i \in 1 .. Len(Splits)}

ASSUME PhasesAssumption ==
  /\ Splits \in Seq(Seq(Ops)) /\ Splits # <<>>
  /\ Warmup \in BOOLEAN
  /\ Chunks \in Nat \ {0} /\ MaxDecodes \in Nat
  /\ OpUs \in [Phase -> [Ops -> SUBSET Nat]]

\* The cell text saying that an op was not captured; not a number of microseconds.
NA == -1

VARIABLES
  step,    \* the pass that is computed, the first being 1
  split,   \* the next CPU split of it
  done,    \* the program has ended
  gcall,   \* ggml_lp_gcall
  log      \* the [LAYERPROF] lines: g, dst, us, and (history) the place they come
           \* from: pass, split and position in it

vars == <<step, split, done, gcall, log>>

\* Passes before the first decode step.
Before == Chunks + (IF Warmup THEN 1 ELSE 0)

PhaseOf(p) == IF Warmup /\ p = 1 THEN "warmup" ELSE IF p <= Before THEN "prefill" ELSE "decode"

--------------------------------------------------------------------------------
Init == step = 1 /\ split = 1 /\ done = FALSE /\ gcall = 0 /\ log = <<>>

\* The times the ops of a split may take, one per op.
Timings(ops, usOf) ==
  {us \in [1 .. Len(ops) -> UNION {usOf[op] : op \in ToSet(ops)}] :
     \A k \in 1 .. Len(ops) : us[k] \in usOf[ops[k]]}

\* One CPU split is executed: a new g, a line for each of its ops.
RunSplit ==
  /\ ~done /\ split <= Len(Splits)
  /\ gcall' = gcall + 1
  /\ LET ops == Splits[split]
     IN  \E us \in Timings(ops, OpUs[PhaseOf(step)]) :
           log' = log \o [k \in 1 .. Len(ops) |->
                             [g |-> gcall + 1, dst |-> ops[k], us |-> us[k],
                              at |-> <<step, split, k>>]]
  /\ split' = split + 1
  /\ UNCHANGED <<step, done>>

\* All splits of the graph are done: on to the next pass.
NextPass ==
  /\ ~done /\ split > Len(Splits)
  /\ step < Before + MaxDecodes
  /\ step' = step + 1 /\ split' = 1
  /\ UNCHANGED <<done, gcall, log>>

\* The text has its length, or the model ends it: once the prompt is computed.
End ==
  /\ ~done /\ split > Len(Splits)
  /\ step >= Before
  /\ done' = TRUE
  /\ UNCHANGED <<step, split, gcall, log>>

Finished == done /\ UNCHANGED vars

Next == RunSplit \/ NextPass \/ End \/ Finished

Spec == Init /\ [][Next]_vars

--------------------------------------------------------------------------------
(***************************************************************************)
(* The parser.                                                             *)
(***************************************************************************)
Lines == 1 .. Len(log)
Groups == {log[i].g : i \in Lines}

\* totals[g]
Total(g) == SumFunctionOnSet([i \in Lines |-> log[i].us], {i \in Lines : log[i].g = g})

\* max(totals, key=totals.get): the first g with the largest total.
PrefillG ==
  LET totals == [g \in Groups |-> Total(g)]
  IN  CHOOSE g \in Groups :
        \A h \in Groups : totals[h] < totals[g] \/ (totals[h] = totals[g] /\ g <= h)

\* The phase each line is filed under.
Phases ==
  LET prefillG == PrefillG
  IN  [i \in Lines |-> IF log[i].g = prefillG THEN "prefill" ELSE "decode"]

\* res[dst][phase]
Filed(op, ph) ==
  LET phases == Phases IN {i \in Lines : log[i].dst = op /\ phases[i] = ph}

\* med() of the times of some lines: xs[len(xs)//2] when sorted, the upper median.
Med(lines, is) ==
  LET half == Cardinality(is) \div 2
  IN  CHOOSE v \in {lines[i].us : i \in is} :
        /\ Cardinality({i \in is : lines[i].us < v}) <= half
        /\ Cardinality({i \in is : lines[i].us <= v}) > half

\* Mutant of Cput: the prefill time is preferred.
CputPrefillFirst(op) ==
  LET decode  == Filed(op, "decode")
      prefill == Filed(op, "prefill")
  IN  CASE prefill # {} -> Med(log, prefill)
        [] prefill = {} /\ decode # {} -> Med(log, decode)
        [] decode = {} /\ prefill = {} -> NA

\* cput(dst): the decode time, the prefill time when there is none, "" (here NA)
\* when the op is not in the log.
Cput(op) ==
  LET decode  == Filed(op, "decode")
      prefill == Filed(op, "prefill")
  IN  CASE decode # {} -> Med(log, decode)
        [] decode = {} /\ prefill # {} -> Med(log, prefill)
        [] decode = {} /\ prefill = {} -> NA

\* cput(dst) or NA_CPU: 0 is falsy.
Cell(op) == LET us == Cput(op) IN IF us = 0 THEN NA ELSE us

Captured == done

--------------------------------------------------------------------------------
IsDecode(line) == PhaseOf(line.at[1]) = "decode"

\* The execution with the largest total is the prefill: every line of the log is
\* filed under prefill exactly when the prefill printed it.
PrefillFound ==
  Captured =>
    LET phases == Phases
    IN  \A i \in Lines : (phases[i] = "prefill") <=> (PhaseOf(log[i].at[1]) = "prefill")

\* Whichever execution is taken for the prefill: once the decode steps outnumber the
\* passes before them by two, the decode time in an op's cell lies between the
\* shortest and the longest time a decode step took for it, though the warm-up and
\* the other chunks of the prompt, and a slow decode step, may be filed wrongly.
CellWithinDecodes ==
  Captured /\ step - Before > Before + 1 => \A op \in Ops :
    LET us    == Cell(op)
        times == {log[i].us : i \in {j \in Lines : log[j].dst = op /\ IsDecode(log[j])}}
    IN  us # NA => \E lo, hi \in times : lo <= us /\ us <= hi
================================================================================
