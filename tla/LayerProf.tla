-------------------------------- MODULE LayerProf ------------------------------
(***************************************************************************)
(* The per-op CPU timer of patches/0002 inside ggml_graph_compute_thread.  *)
(*                                                                         *)
(* All threads of the pool walk the same node list; a barrier follows      *)
(* every node except the last.  Thread 0 alone takes the time before a     *)
(* node and logs it after the node's barrier, under the number of the      *)
(* graph execution it counted on entry.  The node loop, the fusion of      *)
(* nodes, the abort flag and the barriers are ggml's own code, modelled    *)
(* from the patch's context lines.                                         *)
(*                                                                         *)
(* Every thread also copies the counter on entry while thread 0 increments *)
(* it, a data race; only thread 0's copy is ever used, so the others' are  *)
(* not part of the state.                                                  *)
(***************************************************************************)
EXTENDS Integers, Sequences, FiniteSets

CONSTANTS
  NThreads,  \* threads of the CPU backend (-t)
  NNodes,    \* nodes of a graph
  MaxCalls   \* bound: graph executions of a run

ASSUME LayerProfAssumption ==
  /\ NThreads \in Nat \ {0}
  /\ NNodes \in Nat \ {0}
  /\ MaxCalls \in Nat \ {0}

Threads == 0 .. NThreads - 1
Nodes   == 0 .. NNodes - 1

\* What try_fuse_ops can say of a graph: node n is computed with the fuse[n]
\* nodes after it.
Fusions == {f \in [Nodes -> 0 .. 1] : \A n \in Nodes : n + f[n] < NNodes}

VARIABLES
  active,  \* a graph is being executed
  empty,   \* nodes of this graph without work (views, reshapes): skipped
  fuse,    \* fusions of this graph
  pc,      \* per thread: "out", "top", "work", "wait", "log", "end"
  node,    \* per thread: node_n
  first,   \* per thread: the node the current iteration began with
  bar,     \* per thread: barriers it has arrived at
  abort,   \* tp->abort, -1 when unset
  did,     \* per node: the threads that have computed their share
  gcall,   \* ggml_lp_gcall
  log,     \* the [LAYERPROF] lines of thread 0
  calls,   \* history: graph executions started
  opened   \* history: what was unfinished when thread 0 took lp_t0

vars == <<active, empty, fuse, pc, node, first, bar, abort, did, gcall, log, calls, opened>>

Unfinished(n) == {m \in 0 .. n - 1 : m \notin empty /\ did[m] # Threads}

--------------------------------------------------------------------------------
Init ==
  /\ active = FALSE
  /\ empty = {}
  /\ fuse = [n \in Nodes |-> 0]
  /\ pc = [t \in Threads |-> "out"]
  /\ node = [t \in Threads |-> 0]
  /\ first = [t \in Threads |-> 0]
  /\ bar = [t \in Threads |-> 0]
  /\ abort = -1
  /\ did = [n \in Nodes |-> {}]
  /\ gcall = 0
  /\ log = <<>>
  /\ calls = 0
  /\ opened = {}

\* The backend is given a graph: the pool is kicked off.  A fused group holds no
\* empty node.
GraphCompute ==
  /\ ~active
  /\ calls < MaxCalls
  /\ active' = TRUE
  /\ calls' = calls + 1
  /\ empty' \in SUBSET Nodes
  /\ fuse' \in {f \in Fusions : \A n \in Nodes : f[n] > 0 => {n, n + 1} \cap empty' = {}}
  /\ pc' = [t \in Threads |-> "out"]
  /\ bar' = [t \in Threads |-> 0]
  /\ abort' = -1
  /\ did' = [n \in Nodes |-> {}]
  /\ UNCHANGED <<node, first, gcall, log, opened>>

\* Mutant of Enter: the execution is not counted.
EnterNoCount(t) ==
  /\ active /\ pc[t] = "out"
  /\ pc' = [pc EXCEPT ![t] = "top"]
  /\ node' = [node EXCEPT ![t] = 0]
  /\ UNCHANGED <<active, empty, fuse, first, bar, abort, did, gcall, log, calls, opened>>

\* Thread entry: thread 0 counts the execution.
Enter(t) ==
  /\ active /\ pc[t] = "out"
  /\ pc' = [pc EXCEPT ![t] = "top"]
  /\ node' = [node EXCEPT ![t] = 0]
  /\ gcall' = IF t = 0 THEN gcall + 1 ELSE gcall
  /\ UNCHANGED <<active, empty, fuse, first, bar, abort, did, log, calls, opened>>

\* Mutant of InLoop: a thread leaves as soon as it sees the abort flag.
InLoopAnyAbort(t) == node[t] < NNodes /\ abort = -1

InLoop(t) == node[t] < NNodes /\ abort # node[t]

\* Mutant of SkipEmpty: continue without node_n++.
SkipEmptyStuck(t) ==
  /\ pc[t] = "top" /\ InLoop(t) /\ node[t] \in empty
  /\ UNCHANGED vars

\* "if (ggml_op_is_empty(node->op)) continue;"
SkipEmpty(t) ==
  /\ pc[t] = "top" /\ InLoop(t) /\ node[t] \in empty
  /\ node' = [node EXCEPT ![t] = @ + 1]
  /\ UNCHANGED <<active, empty, fuse, pc, first, bar, abort, did, gcall, log, calls, opened>>

\* Thread 0 takes lp_t0.
BeginNode(t) ==
  /\ pc[t] = "top" /\ InLoop(t) /\ node[t] \notin empty
  /\ pc' = [pc EXCEPT ![t] = "work"]
  /\ first' = [first EXCEPT ![t] = node[t]]
  /\ opened' = IF t = 0 THEN Unfinished(node[t]) ELSE opened
  /\ UNCHANGED <<active, empty, fuse, node, bar, abort, did, gcall, log, calls>>

\* Mutant of ComputeNode: no barrier after a fused group.
ComputeNodeNoFusedBarrier(t) ==
  /\ pc[t] = "work"
  /\ LET last == node[t] + fuse[node[t]]
     IN  /\ did' = [n \in Nodes |-> IF n \in node[t] .. last THEN did[n] \cup {t} ELSE did[n]]
         /\ node' = [node EXCEPT ![t] = last]
         /\ abort' \in IF t = 0 THEN {abort, last + 1} ELSE {abort}
         /\ IF last + 1 < NNodes /\ last = node[t]
              THEN /\ pc' = [pc EXCEPT ![t] = "wait"]
                   /\ bar' = [bar EXCEPT ![t] = @ + 1]
              ELSE /\ pc' = [pc EXCEPT ![t] = "log"]
                   /\ UNCHANGED bar
  /\ UNCHANGED <<active, empty, fuse, first, gcall, log, calls, opened>>

\* The node, and those fused with it, is computed; thread 0 may find that the
\* caller wants to abort.  Unless this was the last node the thread arrives at
\* the node's barrier.
ComputeNode(t) ==
  /\ pc[t] = "work"
  /\ LET last == node[t] + fuse[node[t]]
     IN  /\ did' = [n \in Nodes |-> IF n \in node[t] .. last THEN did[n] \cup {t} ELSE did[n]]
         /\ node' = [node EXCEPT ![t] = last]
         /\ abort' \in IF t = 0 THEN {abort, last + 1} ELSE {abort}
         /\ IF last + 1 < NNodes
              THEN /\ pc' = [pc EXCEPT ![t] = "wait"]
                   /\ bar' = [bar EXCEPT ![t] = @ + 1]
              ELSE /\ pc' = [pc EXCEPT ![t] = "log"]
                   /\ UNCHANGED bar
  /\ UNCHANGED <<active, empty, fuse, first, gcall, log, calls, opened>>

\* Mutant of PassBarrier: the barrier lets everyone through.
PassBarrierEarly(t) ==
  /\ pc[t] = "wait"
  /\ pc' = [pc EXCEPT ![t] = "log"]
  /\ UNCHANGED <<active, empty, fuse, node, first, bar, abort, did, gcall, log, calls, opened>>

\* ggml_barrier returns once every thread has arrived.
PassBarrier(t) ==
  /\ pc[t] = "wait"
  /\ \A u \in Threads : bar[u] >= bar[t]
  /\ pc' = [pc EXCEPT ![t] = "log"]
  /\ UNCHANGED <<active, empty, fuse, node, first, bar, abort, did, gcall, log, calls, opened>>

\* Mutant of LogNode: the fused nodes are skipped a second time.
LogNodeTwice(t) ==
  /\ pc[t] = "log"
  /\ pc' = [pc EXCEPT ![t] = "top"]
  /\ node' = [node EXCEPT ![t] = @ + 1 + fuse[first[t]]]
  /\ UNCHANGED <<active, empty, fuse, first, bar, abort, did, gcall, log, calls, opened>>

\* Thread 0 prints the line; everyone goes on to the next node.
LogNode(t) ==
  /\ pc[t] = "log"
  /\ log' = IF t # 0 THEN log
            ELSE Append(log, [g |-> gcall, dst |-> first[t], nf |-> fuse[first[t]],
                              call |-> calls, final |-> node[t] + 1 = NNodes,
                              complete |-> \A n \in first[t] .. node[t] : did[n] = Threads,
                              spill |-> opened])
  /\ pc' = [pc EXCEPT ![t] = "top"]
  /\ node' = [node EXCEPT ![t] = @ + 1]
  /\ UNCHANGED <<active, empty, fuse, first, bar, abort, did, gcall, calls, opened>>

\* The loop ends; the closing barrier waits for every thread.
LeaveLoop(t) ==
  /\ pc[t] = "top" /\ ~InLoop(t)
  /\ pc' = [pc EXCEPT ![t] = "end"]
  /\ UNCHANGED <<active, empty, fuse, node, first, bar, abort, did, gcall, log, calls, opened>>

GraphDone ==
  /\ active
  /\ \A t \in Threads : pc[t] = "end"
  /\ active' = FALSE
  /\ UNCHANGED <<empty, fuse, pc, node, first, bar, abort, did, gcall, log, calls, opened>>

Thread(t) ==
  Enter(t) \/ SkipEmpty(t) \/ BeginNode(t) \/ ComputeNode(t) \/ PassBarrier(t)
    \/ LogNode(t) \/ LeaveLoop(t)

Finished == ~active /\ calls = MaxCalls /\ UNCHANGED vars

Next == GraphCompute \/ (\E t \in Threads : Thread(t)) \/ GraphDone \/ Finished

\* The pool's threads run until the graph is done.
SafetySpec == Init /\ [][Next]_vars
Spec == SafetySpec /\ (\A t \in Threads : WF_vars(Thread(t))) /\ WF_vars(GraphDone)

--------------------------------------------------------------------------------
Line == [g : Nat, dst : Nodes, nf : 0 .. 1, call : Nat, final : BOOLEAN,
         complete : BOOLEAN, spill : SUBSET Nodes]

TypeOK ==
  /\ active \in BOOLEAN
  /\ empty \subseteq Nodes /\ fuse \in Fusions
  /\ pc \in [Threads -> {"out", "top", "work", "wait", "log", "end"}]
  /\ node \in [Threads -> 0 .. NNodes]
  /\ first \in [Threads -> Nodes]
  /\ bar \in [Threads -> 0 .. NNodes]
  /\ abort \in -1 .. NNodes
  /\ did \in [Nodes -> SUBSET Threads]
  /\ gcall \in 0 .. MaxCalls /\ calls \in 0 .. MaxCalls
  /\ opened \subseteq Nodes
  /\ log \in Seq(Line)

Lines == {log[i] : i \in 1 .. Len(log)}

(***************************************************************************)
(* The inductive invariant.                                                *)
(***************************************************************************)

\* The first node that is not behind thread t.
At(t) ==
  CASE pc[t] = "out"            -> 0
    [] pc[t] \in {"wait", "log"} -> node[t] + 1
    [] OTHER                    -> node[t]

AllEmpty(from, to) == \A m \in Nodes : from <= m /\ m < to => m \in empty

\* The next node with work, from h on, is the group that no barrier follows.
FinalFrom(h) ==
  \E m \in Nodes : /\ h <= m /\ m \notin empty /\ m + fuse[m] + 1 = NNodes
                   /\ AllEmpty(h, m)

\* A group of fused nodes has work, and a thread in it knows where it began and
\* ends; what has work and is behind a thread has been computed by it; a thread
\* passes a barrier per group at most, and leaves at the end or where the abort
\* flag says.
GroupsHaveWork == \A n \in Nodes : fuse[n] > 0 => {n, n + 1} \cap empty = {}

ThreadInv(t) ==
  /\ pc[t] \in {"work", "wait", "log"} => first[t] \notin empty
  /\ pc[t] = "work" => node[t] = first[t]
  /\ pc[t] \in {"wait", "log"} => node[t] = first[t] + fuse[first[t]]
  /\ pc[t] = "wait" => node[t] + 1 < NNodes
  /\ pc[t] = "end" => node[t] = NNodes \/ node[t] = abort
  /\ pc[t] \notin {"out", "end"} => active
  /\ bar[t] <= At(t)
  /\ \A m \in Nodes : m < At(t) => m \in empty \/ t \in did[m]

\* Two threads that arrived at the same barriers have only empty nodes between
\* them, or one is through the last group, which the other has next.  A thread
\* with one barrier more waits there, for the other to compute the same group.
SameStretch(t, u) == AllEmpty(At(t), At(u)) \/ (At(u) = NNodes /\ FinalFrom(At(t)))
OneBehind(t, u)   == pc[u] = "wait" /\ At(t) <= first[u] /\ AllEmpty(At(t), first[u])

PairInv(t, u) ==
  /\ bar[u] <= bar[t] + 1
  /\ bar[u] = bar[t] => SameStretch(t, u)
  /\ bar[u] = bar[t] + 1 => OneBehind(t, u)

\* Thread 0 sets the flag to a node that a barrier keeps the others from passing
\* before they can see it.
AbortInv ==
  abort \in Nodes =>
    /\ At(0) = abort /\ pc[0] # "work"
    /\ \A u \in Threads : At(u) <= abort /\ (pc[u] = "work" => node[u] < abort)

\* The counter is behind only between the start of a graph and thread 0's entry.
CounterInv ==
  /\ gcall = IF active /\ pc[0] = "out" THEN calls - 1 ELSE calls
  /\ \A r \in Lines : r.g = r.call

ClockInv ==
  /\ opened = {}
  /\ \A r \in Lines : r.spill = {} /\ (~r.final => r.complete)

IInv ==
  /\ TypeOK /\ GroupsHaveWork /\ AbortInv /\ CounterInv /\ ClockInv
  /\ \A t \in Threads : ThreadInv(t)
  /\ \A t, u \in Threads : PairInv(t, u)

(***************************************************************************)
(* The properties.                                                         *)
(***************************************************************************)

\* The time of a node that a barrier follows covers every thread's share of it,
\* fused nodes included: thread 0 cannot log before the slowest thread is done.
\* (No barrier follows the last node of a graph, whose line may be early.)
TimingComplete == \A r \in Lines : ~r.final => r.complete

\* The clock of a node starts when no thread still works on an earlier one, so no
\* node is charged for a straggler of the node before.
TimingExclusive == \A r \in Lines : r.spill = {}

\* g tells graph executions apart: two lines have the same g exactly when they
\* come from the same execution, whichever threads were still entering.
GroupsAreCalls == \A r, s \in Lines : (r.g = s.g) <=> (r.call = s.call)

\* Aborted or not, all threads leave the loop at the same node, and none is left
\* behind: where a thread still waits, those that left have arrived before.
LeaveTogether ==
  \A t, u \in Threads : pc[t] = "end" =>
    /\ pc[u] = "end" => node[t] = node[u]
    /\ pc[u] = "wait" => bar[u] <= bar[t]

\* Every graph execution ends.
GraphEnds == active ~> ~active
================================================================================
