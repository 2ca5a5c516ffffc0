------------------------------- MODULE LayerTables -----------------------------
(***************************************************************************)
(* The tables of parse_layer_profile.py, built from the CPU-mode capture of *)
(* LayerProfPhases together with two HTP0-mode logs:                       *)
(*   assign_c_HTP0.log   the splits and nodes of every graph the scheduler *)
(*                       lays out, and for every split the DSP computes    *)
(*                       the [OPTRACE][HTP] list of its ops                *)
(*   htpprof_c_HTP0.log  a profile-op line for every op the DSP ran        *)
(*                                                                         *)
(* The DSP runs groups of fused nodes.  The op list names a group after    *)
(* its first node, the profile after its last; both name tensors, and two  *)
(* nodes of a graph may have the same name (MUL_MAT and ROPE of Qcur-0).   *)
(* Logs are data the parser reads as a whole: what is nondeterministic is  *)
(* the run they come from and the times in them.                           *)
(***************************************************************************)
EXTENDS LayerProfPhases

CONSTANTS
  Runs,      \* HTP0-mode runs: sequences of passes over one graph.  A pass has its
             \* splits, of groups of nodes, its tokens and outputs, and whether it is
             \* computed or only laid out (sched_reserve)
  Parts,     \* what the regular expressions find in a tensor's name: stem, blk, norm
  DspUs      \* the shortest and longest time of an op, by op and "few" or "many" rows

VARIABLES
  hrun,      \* the run both HTP0-mode logs come from
  alog,      \* the passes in assign_c_HTP0.log
  plog       \* the profile-op lines of htpprof_c_HTP0.log, pass by pass

tableVars == <<hrun, alog, plog>>

NoBlock      == -1
DecodeMaxTok == 8

Node  == [name : DOMAIN Parts, op : DOMAIN DspUs, src0 : DOMAIN Parts, trim : BOOLEAN]
Split == [be : {"CPU", "HTP0"}, groups : Seq(Seq(Node) \ {<<>>})]
Pass  == [splits : Seq(Split) \ {<<>>}, ntok : Nat \ {0}, outs : Nat, run : BOOLEAN]

GroupsOf(pass) == UNION {ToSet(sp.groups) : sp \in ToSet(pass.splits)}
NodesOf(pass)  == UNION {ToSet(grp) : grp \in GroupsOf(pass)}

\* However it is split and fused, the passes of a run are over the same nodes.  Fused
\* nodes have the same rows.
ASSUME TablesAssumption ==
  /\ DspUs \in [DOMAIN DspUs -> [few : Nat \X Nat, many : Nat \X Nat]]
  /\ \A run \in Runs :
       /\ run \in Seq(Pass)
       /\ \A p, q \in ToSet(run) : NodesOf(p) = NodesOf(q)
       /\ \A p \in ToSet(run) : \A grp \in GroupsOf(p) :
            \A n, m \in ToSet(grp) : n.trim = m.trim

--------------------------------------------------------------------------------
TablesInit == Init /\ hrun \in Runs /\ alog = <<>> /\ plog = <<>>

\* Rows of a node's output: past inp_out_ids only those of the wanted outputs.
RowsOf(pass, n) == IF n.trim THEN pass.outs ELSE pass.ntok

\* The groups of a split that the DSP is given: not those without rows.
DspGroups(sp, pass) ==
  FlattenSeq([j \in DOMAIN sp.groups |->
    IF RowsOf(pass, sp.groups[j][1]) > 0 THEN <<sp.groups[j]>> ELSE <<>>])

\* The next pass of the assignment capture.
AssignPass ==
  /\ done /\ Len(alog) < Len(hrun)
  /\ alog' = Append(alog, hrun[Len(alog) + 1])
  /\ UNCHANGED <<vars, hrun, plog>>

\* The same pass of the profile capture: a line for every group the DSP ran, with
\* the group's last name, rows and time, and (history) the nodes timed and the tokens
\* of the pass.
ProfilePass ==
  /\ Len(alog) = Len(hrun) /\ Len(plog) < Len(hrun)
  /\ LET pass == hrun[Len(plog) + 1]
         grps == FlattenSeq([k \in DOMAIN pass.splits |->
                   IF pass.run /\ pass.splits[k].be = "HTP0"
                     THEN DspGroups(pass.splits[k], pass) ELSE <<>>])
         Time(i, bound) == DspUs[grps[i][1].op][IF RowsOf(pass, grps[i][1]) > DecodeMaxTok
                                                  THEN "many" ELSE "few"][bound]
     IN  \E slow \in SUBSET {i \in DOMAIN grps : Time(i, 1) # Time(i, 2)} :
           plog' = Append(plog, [i \in DOMAIN grps |->
             [dst |-> Last(grps[i]).name, ntok |-> RowsOf(pass, Last(grps[i])),
              us |-> Time(i, IF i \in slow THEN 2 ELSE 1),
              nodes |-> ToSet(grps[i]), tokens |-> pass.ntok]])
  /\ UNCHANGED <<vars, hrun, alog>>

TablesNext ==
  \/ (RunSplit \/ NextPass \/ End) /\ UNCHANGED tableVars
  \/ AssignPass
  \/ ProfilePass
  \/ Len(plog) = Len(hrun) /\ UNCHANGED <<vars, tableVars>>

TablesSpec == TablesInit /\ [][TablesNext]_<<vars, tableVars>>

Parsed == Len(plog) = Len(hrun)

--------------------------------------------------------------------------------
(***************************************************************************)
(* logical(): block and role of a tensor name.                             *)
(***************************************************************************)
Attn == {"attn_q", "attn_k", "attn_v", "attn_output"}
Ffn  == {"ffn_gate", "ffn_up", "ffn_down"}
Projections == Attn \cup Ffn

\* A weight's own role, and _ROLE_OUT for the prefixes of output names.
RoleOf(p) ==
  CASE p.stem \in Projections                          -> p.stem
    [] p.stem = "Qcur"                                 -> "attn_q"
    [] p.stem = "Kcur"                                 -> "attn_k"
    [] p.stem = "Vcur"                                 -> "attn_v"
    [] p.stem \in {"kqv_out", "kqv_merged", "attn_out"} -> "attn_output"
    [] p.stem = "ffn_par"                              -> "ffn_gate"
    [] p.stem \in {"ffn_out", "ffn_swiglu", "ffn_moe"} -> "ffn_down"
    [] OTHER -> IF p.norm THEN "norm" ELSE "other"

Logical(name) ==
  LET p == Parts[name]
      At(block, role) == [block |-> block, role |-> role]
  IN  CASE p.stem \in {"token_embd", "embd"}          -> At(NoBlock, "token_embd")
        [] p.stem \in {"output_norm", "result_norm"}  -> At(NoBlock, "norm")
        [] p.stem \in {"result_output", "output"}     -> At(NoBlock, "output")
        [] OTHER                                      -> At(p.blk, RoleOf(p))

--------------------------------------------------------------------------------
(***************************************************************************)
(* assign_c_HTP0.log                                                       *)
(***************************************************************************)
\* The "## SPLIT" lines of all graphs, one after the other.
SplitLines ==
  FlattenSeq([i \in DOMAIN alog |->
    [k \in DOMAIN alog[i].splits |-> [index |-> k - 1, be |-> alog[i].splits[k].be]]])

\* Mutant of Transitions: prev keeps the first split's backend.
TransitionsFromFirst ==
  {[index |-> SplitLines[i].index, src |-> SplitLines[1].be, dst |-> SplitLines[i].be] :
     i \in {j \in DOMAIN SplitLines : SplitLines[j].be # SplitLines[1].be}}

\* backend_transition.csv: a change of backend between consecutive SPLIT lines,
\* once per index, source and destination.  Nothing separates two graphs.
Transitions ==
  LET lines == SplitLines
  IN  {[index |-> lines[i].index, src |-> lines[i - 1].be, dst |-> lines[i].be] :
         i \in {j \in 2 .. Len(lines) : lines[j].be # lines[j - 1].be}}

\* The "node #" lines, with the backend of their split.
NodeLines ==
  FlattenSeq([i \in DOMAIN alog |->
    FlattenSeq([k \in DOMAIN alog[i].splits |->
      LET nodes == FlattenSeq(alog[i].splits[k].groups)
      IN  [j \in DOMAIN nodes |-> [node |-> nodes[j], be |-> alog[i].splits[k].be]]])])

HeadsOf(grps) == [k \in DOMAIN grps |-> Head(grps[k])]

\* The [OPTRACE][HTP] blocks: the first node of each group given to the DSP.  (A graph
\* of the cache is not printed again; its block would be a repetition.)
Blocks ==
  FlattenSeq([i \in DOMAIN alog |->
    FlattenSeq([k \in DOMAIN alog[i].splits |->
      IF alog[i].run /\ alog[i].splits[k].be = "HTP0"
        THEN <<HeadsOf(DspGroups(alog[i].splits[k], alog[i]))>> ELSE <<>>])])

\* parse_optrace_htp: the block with the most ops, the first of several such.
LargestBlock(blocks) ==
  CHOOSE i \in DOMAIN blocks : \A j \in DOMAIN blocks :
    Len(blocks[j]) < Len(blocks[i]) \/ (Len(blocks[j]) = Len(blocks[i]) /\ i <= j)

HtpOps == LET blocks == Blocks
          IN  IF blocks = <<>> THEN <<>> ELSE blocks[LargestBlock(blocks)]

HtpDsts == {HtpOps[i].name : i \in DOMAIN HtpOps}

--------------------------------------------------------------------------------
(***************************************************************************)
(* htpprof_c_HTP0.log                                                      *)
(***************************************************************************)
Samples == FlattenSeq(plog)

\* The phase parse_profileop files a line under.
ProfPhase(s) == IF 0 < s.ntok /\ s.ntok <= DecodeMaxTok THEN "decode" ELSE "prefill"

\* by[(dst, phase)]
By(samples, dst, ph) ==
  {i \in DOMAIN samples : samples[i].dst = dst /\ ProfPhase(samples[i]) = ph}

\* The block and role of an op: those of src0, or of dst when src0 has no role.
OpMeta(o) ==
  LET m == Logical(o.src0) IN IF m.role = "other" THEN Logical(o.name) ELSE m

--------------------------------------------------------------------------------
(***************************************************************************)
(* op_compare.csv                                                          *)
(***************************************************************************)
\* Mutant of HtpTime: the prefill's time is preferred.
HtpTimePrefillFirst(samples, dst) ==
  LET decode  == By(samples, dst, "decode")
      prefill == By(samples, dst, "prefill")
  IN  IF prefill # {} THEN Med(samples, prefill)
      ELSE IF decode # {} THEN Med(samples, decode) ELSE NA

\* Mutant of HtpTime: the first decode line instead of the median.
HtpTimeFirst(samples, dst) ==
  LET decode  == By(samples, dst, "decode")
      prefill == By(samples, dst, "prefill")
  IN  IF decode # {} THEN samples[CHOOSE i \in decode : \A j \in decode : i <= j].us
      ELSE IF prefill # {} THEN Med(samples, prefill) ELSE NA

\* htp_mode_time_us of a dst: the decode median, the prefill median without one
\* (or when it is 0), or nothing.
HtpTime(samples, dst) ==
  LET decode  == By(samples, dst, "decode")
      prefill == By(samples, dst, "prefill")
  IN  IF decode # {} /\ Med(samples, decode) # 0 THEN Med(samples, decode)
      ELSE IF prefill # {} /\ Med(samples, prefill) # 0 THEN Med(samples, prefill) ELSE NA

\* The rows of the ops on HTP0, with the CPU-mode time beside the HTP-mode time.
HtpRows ==
  LET ops     == HtpOps
      samples == Samples
  IN  [i \in DOMAIN ops |-> [dst |-> ops[i].name, op |-> ops[i].op,
                             role |-> OpMeta(ops[i]).role,
                             cpu |-> Cell(ops[i].name), htp |-> HtpTime(samples, ops[i].name)]]

\* Mutant of CpuRows: a name that has an HTP0 row is not left out.
CpuRowsAll ==
  LET lines == NodeLines
  IN  {i \in DOMAIN lines :
         /\ lines[i].be = "CPU"
         /\ \A j \in 1 .. i - 1 : lines[j].be = "CPU" => lines[j].node.name # lines[i].node.name}

\* The rows of the ops left on the CPU: the first CPU node of a name that has no
\* HTP0 row.
CpuRows ==
  LET lines == NodeLines
      dsts  == HtpDsts
  IN  {i \in DOMAIN lines :
         /\ lines[i].be = "CPU" /\ lines[i].node.name \notin dsts
         /\ \A j \in 1 .. i - 1 : lines[j].be = "CPU" => lines[j].node.name # lines[i].node.name}

--------------------------------------------------------------------------------
\* backend_transition.csv holds every change of backend inside a graph, however
\* many graphs of different shape the log has, and nothing else except, at split 0,
\* a change from the last split of one graph to the first of the next.
TransitionsComplete ==
  Parsed =>
    LET ts == Transitions
        Change(p, k) == [index |-> k - 1, src |-> p.splits[k - 1].be, dst |-> p.splits[k].be]
    IN  /\ \A p \in ToSet(alog) : \A k \in 2 .. Len(p.splits) :
             p.splits[k - 1].be # p.splits[k].be => Change(p, k) \in ts
        /\ \A t \in ts :
             IF t.index = 0
               THEN \E p, q \in ToSet(alog) : t.src = Last(p.splits).be /\ t.dst = q.splits[1].be
               ELSE \E p \in ToSet(alog) : t.index < Len(p.splits) /\ t = Change(p, t.index + 1)

\* No other node has the op's name, and every line over it is over nothing else.
Alone(o, nodes, samples) ==
  /\ \A n \in nodes : n.name = o.name => n = o
  /\ \A s \in samples : o \in s.nodes => s.nodes = {o}

\* Unless another node bears its name or it was fused, the time in an op's row is
\* a time of that very op, and one of at most eight rows if it ever ran on so few
\* (and never within a microsecond: a median of 0 counts as none).
\* (With a shared name or a fused group it may be the time of another op.)
RowTimeIsOwn ==
  Parsed =>
    LET ops     == HtpOps
        rows    == HtpRows
        samples == ToSet(Samples)
        nodes   == {l.node : l \in ToSet(NodeLines)}
    IN  \A i \in DOMAIN ops :
          LET own == {s \in samples : s.nodes = {ops[i]}}
              few == {s \in own : s.ntok <= DecodeMaxTok}
          IN  Alone(ops[i], nodes, samples) => IF few # {} /\ \A s \in few : s.us > 0
                                 THEN rows[i].htp \in {s.us : s \in few}
                                 ELSE rows[i].htp \in {s.us : s \in own} \cup {NA}

Singles == {p \in DOMAIN hrun : hrun[p].run /\ hrun[p].ntok = 1}
Others  == {p \in DOMAIN hrun : hrun[p].run /\ hrun[p].ntok > 1}

\* The phase of a line is told by its rows, so an op cut down to the wanted outputs is
\* filed as decode in the prompt's passes as well.  As long as most of the computed
\* passes are of one token, and put the op on the DSP, its time lies between the
\* shortest and longest of theirs (if it has a name and a line of its own, and is
\* never done within a microsecond).
RowTimeWithinDecodes ==
  Parsed /\ Cardinality(Singles) > Cardinality(Others) =>
    LET ops     == HtpOps
        rows    == HtpRows
        samples == ToSet(Samples)
        nodes   == {l.node : l \in ToSet(NodeLines)}
    IN  \A i \in DOMAIN ops :
          LET own == {s \in samples : s.nodes = {ops[i]} /\ s.tokens = 1}
          IN  /\ Alone(ops[i], nodes, samples)
              /\ \A p \in Singles : \E s \in ToSet(plog[p]) : s.nodes = {ops[i]} /\ s.us > 0
              => \E s, t \in own : s.us <= rows[i].htp /\ rows[i].htp <= t.us

\* Where the largest block is all the DSP computed of its graph, every op of the
\* graph is in the table in one mode only: on HTP0, on the CPU once, or inside an
\* HTP0 row it was fused into, also when other passes placed it elsewhere.
CompareCoversGraph ==
  Parsed =>
    LET ops   == HtpOps
        dsts  == HtpDsts
        lines == NodeLines
        cpu   == CpuRows
        Dsp(p) == {k \in DOMAIN p.splits : p.splits[k].be = "HTP0"}
        whole  == {p \in ToSet(alog) : p.run /\ p.outs > 0 /\ \E k \in DOMAIN p.splits :
                     Dsp(p) = {k} /\ HeadsOf(DspGroups(p.splits[k], p)) = ops}
        Fused(p) == UNION {UNION {ToSet(Tail(grp)) : grp \in ToSet(p.splits[k].groups)} :
                             k \in Dsp(p)}
    IN  /\ \A i \in cpu : lines[i].node.name \notin dsts
        /\ \A i, j \in cpu : lines[i].node.name = lines[j].node.name => i = j
        /\ \A p \in whole : \A l \in ToSet(lines) :
             \/ l.node.name \in dsts
             \/ \E i \in cpu : lines[i].node.name = l.node.name
             \/ l.node \in Fused(p)
================================================================================
