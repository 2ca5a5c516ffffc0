------------------------------ MODULE MCLayerTables ----------------------------
(***************************************************************************)
(* One attention projection, the residual ADD and the output head of the   *)
(* graphs in artifacts/layer_profile/raw/assign_Q8_0_HTP0.log, with the    *)
(* passes found there: reserve, a warm-up of two tokens, a prefill chunk   *)
(* without outputs (its ADD goes to the CPU, the DSP gets an empty split), *)
(* the rest of the prefill with one output, decodes.                       *)
(***************************************************************************)
EXTENDS LayerTables

Tensor(name, op, src0, trim) == [name |-> name, op |-> op, src0 |-> src0, trim |-> trim]

Embd   == Tensor("embd", "GET_ROWS", "token_embd.weight", FALSE)
Qmm    == Tensor("Qcur-0", "MUL_MAT", "blk.0.attn_q.weight", FALSE)
Kmm    == Tensor("Kcur-0", "MUL_MAT", "blk.0.attn_k.weight", FALSE)
Norm   == Tensor("norm-0", "RMS_NORM", "Qcur-0", FALSE)
Normed == Tensor("Qcur_normed-0", "MUL", "norm-0", FALSE)
Rope   == Tensor("Qcur-0", "ROPE", "Qcur_normed-0", FALSE)
Add    == Tensor("ffn_inp-0", "ADD", "Qcur-0", TRUE)
Final  == Tensor("result_norm", "RMS_NORM", "ffn_inp-0", TRUE)
Output == Tensor("result_output", "MUL_MAT", "token_embd.weight", TRUE)

MCParts ==
  LET Part(stem, blk, norm) == [stem |-> stem, blk |-> blk, norm |-> norm]
  IN  "token_embd.weight" :> Part("token_embd", NoBlock, FALSE)
   @@ "embd" :> Part("embd", NoBlock, FALSE)
   @@ "blk.0.attn_q.weight" :> Part("attn_q", 0, FALSE)
   @@ "blk.0.attn_k.weight" :> Part("attn_k", 0, FALSE)
   @@ "Qcur-0" :> Part("Qcur", 0, FALSE)
   @@ "Kcur-0" :> Part("Kcur", 0, FALSE)
   @@ "norm-0" :> Part("norm", 0, TRUE)
   @@ "Qcur_normed-0" :> Part("Qcur", 0, TRUE)
   @@ "ffn_inp-0" :> Part("ffn_inp", 0, FALSE)
   @@ "result_norm" :> Part("result_norm", NoBlock, TRUE)
   @@ "result_output" :> Part("result_output", NoBlock, FALSE)

Cpu(nodes)  == [be |-> "CPU", groups |-> [i \in DOMAIN nodes |-> <<nodes[i]>>]]
Htp(groups) == [be |-> "HTP0", groups |-> groups]
PassOf(splits, ntok, outs, run) == [splits |-> splits, ntok |-> ntok, outs |-> outs, run |-> run]

\* The layer's groups: in a pass of few tokens the projections are one group.
Unfused == << <<Qmm>>, <<Kmm>>, <<Norm>>, <<Normed>>, <<Rope>> >>
Many    == << <<Qmm>>, <<Kmm>>, <<Norm, Normed>>, <<Rope>> >>
Few     == << <<Kmm, Qmm>>, <<Norm, Normed>>, <<Rope>> >>
Tail2   == << <<Add>>, <<Final>> >>

\* front is before, back after what the DSP computes of a layer.
Layout(front, groups) == front \o <<Htp(groups \o Tail2), Cpu(<<Output>>)>>
Chunk(front, groups)  ==
  front \o <<Htp(groups), Cpu(<<Add>>), Htp(<< <<Final>> >>), Cpu(<<Output>>)>>

RunOf(front, many, few, decodes) ==
  << PassOf(Layout(front, many), 16, 16, FALSE),
     PassOf(Layout(front, few), 2, 1, TRUE),
     PassOf(Chunk(front, many), 16, 0, TRUE),
     PassOf(Layout(front, many), 12, 1, TRUE) >>
  \o [i \in 1 .. decodes |-> PassOf(Layout(front, few), 1, 1, TRUE)]

\* GET_ROWS on the DSP (patch 0001): the first split is HTP0's.
ForcedRun ==
  LET Forced(groups) == <<Htp(<< <<Embd>> >> \o groups \o Tail2), Cpu(<<Output>>)>>
  IN  << PassOf(Forced(Many), 16, 16, FALSE), PassOf(Forced(Many), 12, 1, TRUE),
         PassOf(Forced(Few), 1, 1, TRUE), PassOf(Forced(Few), 1, 1, TRUE) >>

\* A projection the DSP does not support divides its part in two.
DividedRun ==
  LET Divided == <<Cpu(<<Embd>>), Htp(<< <<Qmm>> >>), Cpu(<<Kmm>>),
                   Htp(<< <<Norm, Normed>>, <<Rope>> >> \o Tail2), Cpu(<<Output>>)>>
  IN  << PassOf(Divided, 16, 16, FALSE), PassOf(Divided, 12, 1, TRUE), PassOf(Divided, 1, 1, TRUE) >>

MCRuns == {RunOf(<<Cpu(<<Embd>>)>>, Many, Few, 4), RunOf(<<Cpu(<<Embd>>)>>, Unfused, Unfused, 2),
           ForcedRun, DividedRun}

\* An ADD over the one row of a prefill chunk may take longer than in a decode.
MCDspUs == [op \in {"GET_ROWS", "MUL_MAT", "RMS_NORM", "MUL", "ROPE", "ADD"} |->
              CASE op = "MUL_MAT" -> [few |-> <<7, 7>>, many |-> <<27, 27>>]
                [] op = "ROPE"    -> [few |-> <<9, 9>>, many |-> <<15, 15>>]
                [] op = "ADD"     -> [few |-> <<2, 7>>, many |-> <<5, 5>>]
                [] OTHER          -> [few |-> <<2, 2>>, many |-> <<5, 5>>]]

\* CPU mode: the whole graph is one CPU split, with a name that repeats in it.  A
\* slow decode may take longer than a chunk of the prompt.
CpuSplits == << <<"embd", "Qcur-0", "Kcur-0", "Qcur-0", "result_output">> >>
CpuOpUs ==
  LET Us(ph, op) ==
        CASE op = "embd" -> [warmup |-> {1}, prefill |-> {6}, decode |-> {2, 20}][ph]
          [] op = "result_output" -> [warmup |-> {4}, prefill |-> {1}, decode |-> {3}][ph]
          [] OTHER -> [warmup |-> {5}, prefill |-> {4}, decode |-> {2}][ph]
  IN  [ph \in Phase |-> [op \in ToSet(CpuSplits[1]) |-> Us(ph, op)]]
================================================================================
