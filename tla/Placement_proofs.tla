----------------------------- MODULE Placement_proofs ---------------------------
(***************************************************************************)
(* Where GET_ROWS runs: the host code that decides it (GetRowsPlacement)   *)
(* and the experiment that tells it from dumps (BackendFlow).              *)
(***************************************************************************)
EXTENDS GetRowsPlacement, BackendFlow, FiniteSetTheorems, TLAPS

--------------------------------------------------------------------------------
(***************************************************************************)
(* The host side of GET_ROWS, for every row length, tile width, set of     *)
(* graphs and build switch.                                                *)
(***************************************************************************)

\* A row that is a whole number of tiles is filled by as many tiles as the host packs.
LEMMA WholeTiles ==
  ASSUME NEW n \in Nat \ {0}, n % TileCols = 0
  PROVE  NumKTiles(n) \in Nat /\ NumKTiles(n) * TileCols = n
<1>. DEFINE q == n \div TileCols
            t == TileCols
<1>1. t \in Nat \ {0} /\ q \in Nat /\ n = q * t
  BY PlacementAssumption
<1>. HIDE DEF q, t
<1>2. (q * t + (t - 1)) \div t = q
  BY <1>1
<1>3. n + t - 1 = q * t + (t - 1)
  BY <1>1
<1>4. NumKTiles(n) = q
  BY <1>2, <1>3 DEF NumKTiles, t
<1>. QED BY <1>1, <1>4 DEF t

\* Parameters of a table that can exist: tiles are packed for Q4_0 only, and fill its row.
LEMMA PackedParams ==
  ASSUME TypeOK, Rowable(src0.type, src0.ne0)
  PROVE  LET kp == PackParams(src0)
         IN  /\ kp \in [flag : {0, 1}, nKTiles : Nat]
             /\ kp.flag = 1 <=> ForceGetRowsHtp /\ src0.type = "Q4_0" /\ src0.buf = "HTP0-REPACK"
             /\ kp.flag = 1 => kp.nKTiles * TileCols = src0.ne0
<1>1. src0.ne0 \in Nat \ {0}
  BY PlacementAssumption DEF TypeOK
<1>2. src0.type = "Q4_0" => /\ NumKTiles(src0.ne0) \in Nat
                            /\ NumKTiles(src0.ne0) * TileCols = src0.ne0
  BY <1>1, WholeTiles DEF Rowable
<1>. QED BY <1>2 DEF PackParams

LEMMA InitIInv == Init => IInv
BY DEF Init, IInv, TypeOK, NotRun, Types, IdxTypes, DstTypes, Buffers, ClaimHonoured,
       RowFilledExactly

LEMMA SupportsOpKeeps == IInv /\ SupportsOp => IInv'
<1>. SUFFICES ASSUME IInv, SupportsOp PROVE IInv'
  OBVIOUS
<1>. USE DEF IInv, SupportsOp
<1>1. TypeOK'
  BY DEF TypeOK
<1>2. [type |-> src0'.type, ne0 |-> src0'.ne0, buf |-> asked'] = src0
  BY DEF TypeOK
<1>3. claim' = "yes" => SupportedGetRows([type |-> src0'.type, ne0 |-> src0'.ne0, buf |-> asked'], idx', dst')
  BY <1>2
<1>4. ClaimHonoured' /\ RowFilledExactly'
  BY DEF ClaimHonoured, RowFilledExactly
<1>. QED BY <1>1, <1>3, <1>4

LEMMA PlaceKeeps ==
  ASSUME NEW b \in Buffers \ {"null"}, IInv, Place(b)
  PROVE  IInv'
<1>. USE DEF IInv, Place
<1>1. TypeOK' /\ src0'.ne0 = src0.ne0 /\ src0'.type = src0.type
  BY DEF TypeOK
<1>2. [type |-> src0'.type, ne0 |-> src0'.ne0, buf |-> asked'] = [type |-> src0.type, ne0 |-> src0.ne0, buf |-> asked]
  BY DEF TypeOK
<1>3. ClaimHonoured' /\ RowFilledExactly'
  BY <1>1 DEF ClaimHonoured, RowFilledExactly
<1>. QED BY <1>1, <1>2, <1>3 DEF Rowable

LEMMA GraphComputeKeeps ==
  ASSUME NEW uid \in Uids, NEW skip \in BOOLEAN, IInv, GraphCompute(uid, skip)
  PROVE  IInv'
<1>. DEFINE kp == PackParams(src0)
<1>1. /\ nodes' = [u \in DOMAIN nodes \cup {uid} |-> IF u = uid THEN kp ELSE nodes[u]]
      /\ result' = OpGetRows(src0, idx, dst, kp, skip)
  BY DEF GraphCompute, IInv
<1>2. /\ kp \in [flag : {0, 1}, nKTiles : Nat]
      /\ kp.flag = 1 <=> ForceGetRowsHtp /\ src0.type = "Q4_0" /\ src0.buf = "HTP0-REPACK"
      /\ kp.flag = 1 => kp.nKTiles * TileCols = src0.ne0
  BY PackedParams DEF IInv
<1>3. SupportedGetRows(src0, idx, dst) /\ src0.buf # "null"
  <2>1. [type |-> src0.type, ne0 |-> src0.ne0, buf |-> asked] = src0
    BY DEF GraphCompute, IInv, TypeOK
  <2>. QED BY <2>1 DEF GraphCompute, IInv
<1>4. src0.ne0 \in Nat
  BY PlacementAssumption DEF IInv, TypeOK
<1>. HIDE DEF kp
<1>5. /\ result' \in [status : {"none", "OK", "NO_SUPPORT"},
                       kernel : {"none", "tiled", "f32"}, written : Nat]
      /\ ClaimHonoured' /\ RowFilledExactly'
  <2>1. CASE src0.type = "F32"
    BY <1>1, <1>2, <1>3, <1>4, <2>1
       DEF OpGetRows, SupportedGetRows, ClaimHonoured, RowFilledExactly, GraphCompute
  <2>2. CASE src0.type = "Q4_0" /\ kp.flag = 1
    BY <1>1, <1>2, <1>3, <1>4, <2>2
       DEF OpGetRows, SupportedGetRows, ClaimHonoured, RowFilledExactly, GraphCompute
  <2>. QED BY <1>2, <1>3, <2>1, <2>2 DEF SupportedGetRows
<1>6. TypeOK'
  <2>1. \A u \in DOMAIN nodes' : nodes'[u] \in [flag : {0, 1}, nKTiles : Nat]
    BY <1>1, <1>2 DEF IInv, TypeOK
  <2>. QED BY <1>1, <1>5, <2>1 DEF IInv, TypeOK, GraphCompute
<1>7. \A u \in DOMAIN nodes' : nodes'[u] = PackParams(src0')
  BY <1>1 DEF IInv, GraphCompute, kp
<1>. QED BY <1>3, <1>5, <1>6, <1>7 DEF IInv, GraphCompute

LEMMA StutterKeeps == IInv /\ UNCHANGED vars => IInv'
BY DEF IInv, vars, TypeOK, ClaimHonoured, RowFilledExactly

\* Cached parameters and claims are never out of date (graph_compute's cache and
\* supported_get_rows).
THEOREM Inductive == Spec => []IInv
<1>1. IInv /\ [Next]_vars => IInv'
  BY SupportsOpKeeps, PlaceKeeps, GraphComputeKeeps, StutterKeeps DEF Next
<1>. QED BY InitIInv, <1>1, PTL DEF Spec

\* What supported_get_rows claims op_get_rows does not refuse.
THEOREM Honoured == Spec => []ClaimHonoured
<1>1. IInv => ClaimHonoured
  BY DEF IInv
<1>. QED BY Inductive, <1>1, PTL

\* No kernel writes past a destination row or stops short of its end.
THEOREM Filled == Spec => []RowFilledExactly
<1>1. IInv => RowFilledExactly
  BY DEF IInv
<1>. QED BY Inductive, <1>1, PTL

--------------------------------------------------------------------------------
(***************************************************************************)
(* The backend-flow experiment, for any placements, and any number of runs *)
(* and failing commands.                                                   *)
(***************************************************************************)

LEMMA FlowNames ==
  /\ Order[1] = "embd" /\ Order[2] = "norm" /\ Order[3] = "attn" /\ Order[4] = "add"
  /\ Order[5] = "output" /\ DOMAIN Order = 1 .. 5
  /\ Nodes = {"embd", "norm", "attn", "add", "output"}
<1>1. /\ Order[1] = "embd" /\ Order[2] = "norm" /\ Order[3] = "attn" /\ Order[4] = "add"
      /\ Order[5] = "output" /\ DOMAIN Order = 1 .. 5
  BY DEF Order
<1>2. \A i \in 1 .. 5 : i = 1 \/ i = 2 \/ i = 3 \/ i = 4 \/ i = 5
  OBVIOUS
<1>3. Nodes = {Order[i] : i \in 1 .. 5}
  BY <1>1 DEF Nodes
<1>. QED BY <1>1, <1>2, <1>3

\* The sources of the two nodes that read the embedding.
LEMMA FlowSources ==
  /\ Srcs["norm"] = <<"embd">>
  /\ Srcs["add"] = <<"attn", "embd">>
BY DEF Srcs

\* parse_backflow.py finds the norm, the first node that reads the embedding, and
\* sees the copy it reads, if it does.
LEMMA FlowConsumer ==
  ASSUME NEW p \in Placements
  PROVE  /\ GetRowsBackend(GraphNodes(p)) = p["embd"]
         /\ Consumer(GraphNodes(p)).be = p["norm"]
         /\ CrossBackend(GraphNodes(p)) <=> p["embd"] # p["norm"]
         /\ LET row == FirstRow(p)
            IN  GetRowsBackend(row) = p["embd"] /\ Consumer(row).be = "?" /\ ~CrossBackend(row)
<1>. DEFINE g == GraphNodes(p)
<1>1. /\ DOMAIN g = 1 .. 5
      /\ \A i \in 1 .. 5 :
           g[i] = [name |-> Order[i], be |-> p[Order[i]],
                   srcs |-> [k \in DOMAIN Srcs[Order[i]] |-> SrcName(p, Order[i], k)]]
  BY FlowNames DEF GraphNodes
<1>2. g[1].be = p["embd"] /\ g[2].be = p["norm"]
  BY <1>1, FlowNames
<1>3. /\ DOMAIN g[2].srcs = {1}
      /\ g[2].srcs[1].tensor = "embd" /\ g[2].srcs[1].copy = Copied(p, "embd", "norm")
  <2>1. g[2].srcs = [k \in DOMAIN Srcs["norm"] |-> SrcName(p, "norm", k)]
    BY <1>1, FlowNames
  <2>2. DOMAIN Srcs["norm"] = {1} /\ Srcs["norm"][1] = "embd"
    BY FlowSources
  <2>. QED BY <2>1, <2>2 DEF SrcName
<1>. HIDE DEF g
<1>4. Consumer(g) = g[2]
  <2>. DEFINE after == {i \in DOMAIN g : i > 1 /\ ReadsEmbd(g, i)}
  <2>1. 2 \in after
    BY <1>1, <1>3 DEF ReadsEmbd
  <2>2. \A j \in after : j \in Nat /\ 2 <= j
    BY <1>1
  <2>. HIDE DEF after
  <2>3. \A i \in after : (\A j \in after : i <= j) <=> i = 2
    BY <2>1, <2>2
  <2>4. (CHOOSE i \in after : \A j \in after : i <= j) = 2
    BY <2>1, <2>3
  <2>. QED BY <2>1, <2>4 DEF Consumer, after
<1>5. SchedCopy(g) <=> Copied(p, "embd", "norm")
  BY <1>3, <1>4 DEF SchedCopy
<1>6. CrossBackend(g) <=> p["embd"] # p["norm"]
  <2>1. p["embd"] \in Backends /\ p["norm"] \in Backends
    BY FlowNames DEF Placements
  <2>. QED BY <1>2, <1>4, <1>5, <2>1 DEF CrossBackend, GetRowsBackend, Copied, Backends
<1>. DEFINE row == [i \in {1} |-> g[i]]
<1>7. GetRowsBackend(row) = p["embd"] /\ Consumer(row).be = "?" /\ ~CrossBackend(row)
  <2>1. row[1] = g[1] /\ DOMAIN row = {1}
    OBVIOUS
  <2>. HIDE DEF row
  <2>2. {i \in DOMAIN row : i > 1 /\ ReadsEmbd(row, i)} = {}
    BY <2>1
  <2>3. Consumer(row) = [name |-> "?", be |-> "?", srcs |-> <<>>]
    BY <2>2 DEF Consumer
  <2>4. ~SchedCopy(row)
    BY <2>3 DEF SchedCopy
  <2>. QED BY <1>2, <2>1, <2>3, <2>4 DEF CrossBackend, GetRowsBackend
<1>. QED BY <1>2, <1>4, <1>6, <1>7 DEF GetRowsBackend, g, FirstRow

LEMMA FlowLayouts ==
  ASSUME NEW l \in Layouts, NEW ph \in Phases
  PROVE  l[ph] \in Placements
BY LayoutsAssumption

LEMMA FlowFiles ==
  /\ GraphFile["prefill"] \in Files /\ GraphFile["decode"] \in Files
  /\ "get_rows_trace.txt" \in Files /\ "decode_timing.csv" \in Files
  /\ \A ph \in Phases : GraphFile[ph] \in Files
  /\ IsFiniteSet(Files)
<1>1. Files = {"prefill_graph_nodes.txt", "decode_graph_nodes.txt", "get_rows_trace.txt", "decode_timing.csv"}
  <2>1. /\ DOMAIN PullOrder = 1 .. 4
        /\ PullOrder[1] = "prefill_graph_nodes.txt" /\ PullOrder[2] = "decode_graph_nodes.txt"
        /\ PullOrder[3] = "get_rows_trace.txt" /\ PullOrder[4] = "decode_timing.csv"
    BY DEF PullOrder, GraphFile
  <2>2. \A i \in 1 .. 4 : i = 1 \/ i = 2 \/ i = 3 \/ i = 4
    OBVIOUS
  <2>3. Files = {PullOrder[i] : i \in 1 .. 4}
    BY <2>1 DEF Files
  <2>. QED BY <2>1, <2>2, <2>3
<1>2. IsFiniteSet(Files)
  <2>1. IsFiniteSet({})
    BY FS_EmptySet
  <2>2. IsFiniteSet({} \cup {"prefill_graph_nodes.txt"})
    BY <2>1, FS_AddElement
  <2>3. IsFiniteSet(({} \cup {"prefill_graph_nodes.txt"}) \cup {"decode_graph_nodes.txt"})
    BY <2>2, FS_AddElement
  <2>4. IsFiniteSet((({} \cup {"prefill_graph_nodes.txt"}) \cup {"decode_graph_nodes.txt"}) \cup {"get_rows_trace.txt"})
    BY <2>3, FS_AddElement
  <2>5. IsFiniteSet(((({} \cup {"prefill_graph_nodes.txt"}) \cup {"decode_graph_nodes.txt"}) \cup {"get_rows_trace.txt"}) \cup {"decode_timing.csv"})
    BY <2>4, FS_AddElement
  <2>6. Files = ((({} \cup {"prefill_graph_nodes.txt"}) \cup {"decode_graph_nodes.txt"}) \cup {"get_rows_trace.txt"}) \cup {"decode_timing.csv"}
    BY <1>1
  <2>. QED BY <2>5, <2>6
<1>. QED BY <1>1, <1>2 DEF Phases, GraphFile

LEMMA FlowThis ==
  ASSUME FlowTypeOK, run > 0
  PROVE  /\ This \in Pieces /\ This # None /\ This.upto = Whole
         /\ Pieces \subseteq Stamp \cup {None}
         /\ \A file \in Pieces \ {None} :
              /\ file \in Stamp /\ file.place = place /\ file.copies = copies
              /\ file.upto \in {Empty, First, Whole}
<1>1. run \in 1 .. MaxRuns
  BY FlowAssumption DEF FlowTypeOK
<1>2. \A n \in Empty .. Whole :
        /\ Came(n) \in Stamp /\ Came(n) # None /\ n \in {Empty, First, Whole}
        /\ Came(n).place = place /\ Came(n).copies = copies /\ Came(n).upto = n
  BY <1>1, NoneAssumption DEF FlowTypeOK, Came, Stamp, Empty, First, Whole
<1>3. Whole \in Empty .. Whole
  BY DEF Empty, Whole
<1>. QED BY <1>2, <1>3 DEF This, Pieces

LEMMA FlowInitInv == FlowInit => FlowInv
<1>. SUFFICES ASSUME FlowInit PROVE FlowInv
  OBVIOUS
<1>1. /\ remote \in [Files -> Stamp \cup {None}] /\ local \in [Files -> Stamp \cup {None}]
      /\ place \in Layouts /\ copies \in {0, 1} /\ pulled \subseteq Files
  BY DEF FlowInit
<1>2. 0 \in 0 .. MaxRuns /\ 0 \in 0 .. MaxFailures
  BY FlowAssumption
<1>3. FlowTypeOK
  BY <1>1, <1>2 DEF FlowInit, FlowTypeOK
<1>. QED BY <1>3 DEF FlowInit, FlowInv, PulledIsOfThisRun

LEMMA StartKeeps == ASSUME NEW p \in Layouts PROVE FlowInv /\ Start(p) => FlowInv'
<1>. SUFFICES ASSUME FlowInv, Start(p) PROVE FlowInv'
  OBVIOUS
<1>1. copies' \in NCopies(place'["decode"]) /\ copies' \in {0, 1}
  <2>1. NCopies(p["decode"]) = {1} \/ NCopies(p["decode"]) = {0, 1}
    BY DEF NCopies
  <2>. QED BY <2>1 DEF Start
<1>2. run' \in 0 .. MaxRuns /\ run' > 0
  BY FlowAssumption DEF Start, FlowInv, FlowTypeOK
<1>3. FlowTypeOK'
  BY <1>1, <1>2 DEF Start, FlowInv, FlowTypeOK
<1>. QED BY <1>1, <1>2, <1>3 DEF Start, FlowInv, PulledIsOfThisRun

LEMMA InferKeeps == FlowInv /\ Infer => FlowInv'
<1>. SUFFICES ASSUME FlowInv, Infer PROVE FlowInv'
  OBVIOUS
<1>1. /\ pc = "run" /\ pc' = "pull" /\ This' = This /\ run > 0
      /\ UNCHANGED <<place, copies, local, pulled, run>>
  BY DEF Infer, FlowInv, This, Came
<1>2. This \in Pieces /\ Pieces \subseteq Stamp \cup {None} /\ Pieces' = Pieces
  BY <1>1, FlowThis DEF FlowInv, Pieces, Came
<1>3. \/ /\ \A f \in Files : remote'[f] = This
         /\ remote' \in [Files -> Stamp \cup {None}]
         /\ UNCHANGED <<failures, clean, lost>>
      \/ /\ Fail
         /\ \/ lost' = TRUE /\ remote' = remote
            \/ /\ \A f \in Files : remote'[f] \in Pieces
               /\ remote' \in [Files -> Stamp \cup {None}]
               /\ lost' = lost
  <2>1. CASE /\ remote' = [f \in Files |-> This]
             /\ UNCHANGED <<failures, clean, lost>>
    BY <1>2, <2>1
  <2>2. CASE Fail /\ lost' = TRUE /\ UNCHANGED remote
    BY <2>2
  <2>3. CASE Fail /\ UNCHANGED lost /\ remote' \in [Files -> Pieces]
    BY <1>2, <2>3
  <2>. QED BY <2>1, <2>2, <2>3 DEF Infer
<1>4. remote' \in [Files -> Stamp \cup {None}] /\ failures' \in 0 .. MaxFailures
  <2>1. remote' \in [Files -> Stamp \cup {None}]
    BY <1>3 DEF FlowInv, FlowTypeOK
  <2>2. failures \in 0 .. MaxFailures
    BY DEF FlowInv, FlowTypeOK
  <2>3. failures' = failures \/ (failures < MaxFailures /\ failures' = failures + 1)
    BY <1>3 DEF Fail
  <2>. QED BY <2>1, <2>2, <2>3, FlowAssumption
<1>5. clean \in BOOLEAN /\ lost \in BOOLEAN /\ (clean => ~lost)
  BY DEF FlowInv, FlowTypeOK
<1>6. /\ clean' \in BOOLEAN /\ lost' \in BOOLEAN
      /\ clean' => ~lost' /\ \A f \in Files : remote'[f] = This
      /\ ~lost' => \A f \in Files : remote'[f] \in Pieces
  <2>1. CASE (\A f \in Files : remote'[f] = This) /\ clean' = clean /\ lost' = lost
    BY <1>2, <1>5, <2>1
  <2>2. CASE /\ clean' = FALSE
             /\ lost' = TRUE \/ (lost' = lost /\ \A f \in Files : remote'[f] \in Pieces)
    BY <1>5, <2>2
  <2>. QED BY <1>3, <2>1, <2>2 DEF Fail
<1>7. FlowTypeOK'
  BY <1>1, <1>4, <1>6 DEF FlowInv, FlowTypeOK
<1>. QED BY <1>1, <1>2, <1>6, <1>7 DEF FlowInv, PulledIsOfThisRun

LEMMA PullKeeps == FlowInv /\ Pull => FlowInv'
<1>. SUFFICES ASSUME FlowInv, Pull PROVE FlowInv'
  OBVIOUS
<1>. DEFINE there == {f \in Files : remote[f] # None}
<1>1. PICK broken \in SUBSET there, gone \in SUBSET there :
        /\ failures' = failures + Cardinality(broken) /\ failures' <= MaxFailures
        /\ clean' = (clean /\ broken = {})
        /\ pulled' = there \ broken
        /\ local' = [f \in Files |-> IF f \in pulled' THEN remote[f]
                                     ELSE IF f \in gone THEN None ELSE local[f]]
  BY DEF Pull
<1>2. /\ pc = "pull" /\ pc' = "parsed" /\ This' = This /\ Pieces' = Pieces /\ run > 0
      /\ UNCHANGED <<place, copies, remote, run, lost>>
  BY DEF Pull, FlowInv, This, Pieces, Came
<1>3. failures' \in 0 .. MaxFailures
  <2>1. IsFiniteSet(broken)
    BY FlowFiles, FS_Subset
  <2>2. Cardinality(broken) \in Nat
    BY <2>1, FS_CardinalityType
  <2>3. failures \in Nat
    BY FlowAssumption DEF FlowInv, FlowTypeOK
  <2>. QED BY <1>1, <2>2, <2>3, FlowAssumption
<1>4. clean' \in BOOLEAN /\ (clean' => clean /\ broken = {})
  BY <1>1
<1>5. /\ pulled' \subseteq Files
      /\ local' \in [Files -> Stamp \cup {None}]
      /\ \A f \in pulled' : local'[f] = remote[f] /\ remote[f] # None
  BY <1>1 DEF FlowInv, FlowTypeOK
<1>6. FlowTypeOK'
  BY <1>2, <1>3, <1>4, <1>5 DEF FlowInv, FlowTypeOK
<1>7. clean' => pulled' = Files /\ ~lost /\ \A f \in Files : local'[f] = This
  <2>. SUFFICES ASSUME clean' PROVE pulled' = Files /\ ~lost /\ \A f \in Files : local'[f] = This
    OBVIOUS
  <2>1. clean /\ broken = {}
    BY <1>4
  <2>2. \A f \in Files : remote[f] # None /\ remote[f] = This
    BY <1>2, <2>1, FlowThis DEF FlowInv
  <2>3. pulled' = Files
    BY <1>1, <2>1, <2>2
  <2>. QED BY <1>5, <2>1, <2>2, <2>3 DEF FlowInv
<1>8. ~lost => \A f \in pulled' : local'[f] \in Pieces \ {None}
  BY <1>2, <1>5 DEF FlowInv
<1>. QED BY <1>2, <1>6, <1>7, <1>8 DEF FlowInv, PulledIsOfThisRun

LEMMA FlowStutters == FlowInv /\ UNCHANGED flowVars => FlowInv'
<1>. SUFFICES ASSUME FlowInv, UNCHANGED flowVars PROVE FlowInv'
  OBVIOUS
<1>1. /\ UNCHANGED <<pc, place, copies, remote, local, pulled, run, failures, clean, lost>>
      /\ This' = This /\ Pieces' = Pieces
  BY DEF flowVars, This, Pieces, Came
<1>. QED BY <1>1 DEF FlowInv, FlowTypeOK, PulledIsOfThisRun

LEMMA InterruptKeeps == FlowInv /\ Interrupt => FlowInv'
<1>. SUFFICES ASSUME FlowInv, Interrupt PROVE FlowInv'
  OBVIOUS
<1>1. /\ pc \in {"run", "pull"} /\ pc' = "off" /\ run > 0
      /\ UNCHANGED <<place, copies, pulled, run, failures, clean, lost>>
  BY DEF Interrupt, FlowInv
<1>2. remote' \in [Files -> Stamp \cup {None}]
  <2>1. Pieces \subseteq Stamp \cup {None}
    BY <1>1, FlowThis DEF FlowInv
  <2>2. remote' = remote \/ remote' \in [Files -> Pieces]
    BY DEF Interrupt
  <2>. QED BY <2>1, <2>2 DEF FlowInv, FlowTypeOK
<1>3. local' \in [Files -> Stamp \cup {None}]
  <2>1. CASE pc = "run"
    BY <2>1 DEF Interrupt, FlowInv, FlowTypeOK
  <2>2. CASE pc = "pull"
    <3>1. PICK n \in DOMAIN PullOrder :
            \E part \in CutOff(remote[PullOrder[n]]) \cup {None} :
              local' = [f \in Files |->
                          IF part # None /\ f = PullOrder[n] THEN part
                          ELSE IF remote[f] # None /\ \E i \in 1 .. n - 1 : PullOrder[i] = f
                               THEN remote[f] ELSE local[f]]
      BY <2>2 DEF Interrupt
    <3>. DEFINE file == remote[PullOrder[n]]
    <3>2. file \in Stamp \cup {None}
      BY DEF FlowInv, FlowTypeOK, Files
    <3>. HIDE DEF file
    <3>3. CutOff(file) \subseteq Stamp \cup {None}
      BY <3>2 DEF CutOff, Stamp
    <3>4. PICK part \in Stamp \cup {None} :
            local' = [f \in Files |->
                        IF part # None /\ f = PullOrder[n] THEN part
                        ELSE IF remote[f] # None /\ \E i \in 1 .. n - 1 : PullOrder[i] = f
                             THEN remote[f] ELSE local[f]]
      BY <3>1, <3>3 DEF file
    <3>. QED BY <3>4 DEF FlowInv, FlowTypeOK
  <2>. QED BY <1>1, <2>1, <2>2
<1>4. FlowTypeOK'
  BY <1>1, <1>2, <1>3 DEF FlowInv, FlowTypeOK
<1>. QED BY <1>1, <1>4 DEF FlowInv, PulledIsOfThisRun

\* The files of a run, on the device and pulled, whatever earlier runs left and
\* whatever failed.
THEOREM FlowInductive == FlowSpec => []FlowInv
<1>1. FlowInv /\ [FlowNext]_flowVars => FlowInv'
  <2>1. FlowInv /\ (Finished \/ UNCHANGED flowVars) => FlowInv'
    BY FlowStutters DEF Finished
  <2>. QED BY StartKeeps, InferKeeps, PullKeeps, InterruptKeeps, <2>1 DEF FlowNext
<1>. QED BY FlowInitInv, <1>1, PTL DEF FlowSpec

\* Dumps are pulled of this run only (the rm -f before the program).
THEOREM PulledOwn == FlowSpec => []PulledIsOfThisRun
<1>1. FlowInv => PulledIsOfThisRun
  BY DEF FlowInv
<1>. QED BY FlowInductive, <1>1, PTL

\* What main() reads of a graph dump that came through, and of all files of a run
\* without failures.
LEMMA FlowRead ==
  ASSUME FlowInv, pc = "parsed", ~lost, NEW ph \in Phases
  PROVE  LET upto == local[GraphFile[ph]].upto
         IN  /\ place[ph] \in Placements
             /\ GraphFile[ph] \in pulled =>
                  /\ upto \in {Empty, First, Whole}
                  /\ upto = First => /\ GraphRead(ph) = FirstRow(place[ph])
                                     /\ GraphRead(ph) # None
                  /\ upto = Whole => GraphRead(ph) = GraphNodes(place[ph]) /\ GraphRead(ph) # None
             /\ clean => /\ GraphFile[ph] \in pulled /\ upto = Whole
                         /\ TraceRead(ph) = place[ph] /\ CopiesRead = copies
<1>1. place[ph] \in Placements
  BY FlowLayouts DEF FlowInv, FlowTypeOK
<1>2. GraphNodes(place[ph]) # None /\ FirstRow(place[ph]) # None
  BY <1>1, NoneAssumption
<1>3. Empty # First /\ First # Whole /\ Empty # Whole /\ Whole >= First /\ Whole >= Whole
  BY DEF Empty, First, Whole
<1>4. \A f \in pulled : /\ local[f] # None /\ local[f].place = place
                         /\ local[f].upto \in {Empty, First, Whole}
  BY FlowThis DEF FlowInv, PulledIsOfThisRun
<1>5. clean => \A f \in Files : /\ f \in pulled /\ local[f] # None /\ local[f].upto = Whole
                                 /\ local[f].place = place /\ local[f].copies = copies
  BY FlowThis DEF FlowInv, PulledIsOfThisRun
<1>6. GraphFile[ph] \in Files /\ "get_rows_trace.txt" \in Files /\ "decode_timing.csv" \in Files
  BY FlowFiles
<1>7. clean => TraceRead(ph) = place[ph] /\ CopiesRead = copies
  BY <1>3, <1>5, <1>6 DEF TraceRead, CopiesRead
<1>. QED BY <1>1, <1>2, <1>3, <1>4, <1>5, <1>6, <1>7 DEF GraphRead

\* In a run without failures hypothesis 2 is announced exactly if GET_ROWS ran on
\* HTP0, and hypothesis 1 whenever its result was copied there.
THEOREM MoveReported == FlowSpec => []MoveIsReported
<1>1. FlowInv => MoveIsReported
  <2>. SUFFICES ASSUME FlowInv, pc = "parsed", clean
                PROVE  /\ Reported = "2" <=> place["decode"]["embd"] = "HTP0"
                       /\ EmbdCopied => Reported = "1"
    BY DEF MoveIsReported
  <2>. DEFINE p == place["decode"]
              g == GraphRead("decode")
  <2>1. /\ p \in Placements /\ g = GraphNodes(p) /\ g # None /\ CopiesRead = copies
    BY FlowRead, FlowFiles DEF FlowInv, Phases
  <2>2. /\ GetRowsBackend(g) = p["embd"]
        /\ CrossBackend(g) <=> p["embd"] # p["norm"]
    BY <2>1, FlowConsumer
  <2>3. EmbdCopied => p["embd"] = "CPU" /\ (p["norm"] = "HTP0" \/ copies = 1)
    <3>1. SUFFICES ASSUME Copied(p, "embd", "add") PROVE copies = 1
      BY DEF EmbdCopied, Copied
    <3>2. Srcs["add"][2] = "embd" /\ 2 \in DOMAIN Srcs["add"] /\ "add" \in Nodes
      BY FlowSources, FlowNames
    <3>3. NCopies(p) = {1}
      BY <3>1, <3>2 DEF NCopies
    <3>. QED BY <3>3 DEF FlowInv
  <2>. HIDE DEF g, p
  <2>4. /\ Reported = "2" <=> p["embd"] = "HTP0"
        /\ EmbdCopied => Reported = "1"
    BY <2>1, <2>2, <2>3 DEF Reported, Verdict, g
  <2>. QED BY <2>4 DEF p
<1>. QED BY FlowInductive, <1>1, PTL

\* The column of a phase whose graph dump came through, wholly or from the GET_ROWS row
\* on, shows this run's graph, whatever the trace beside it is.
THEOREM ColumnOwn == FlowSpec => []ColumnOfOwnGraph
<1>1. FlowInv => ColumnOfOwnGraph
  <2>. SUFFICES ASSUME FlowInv, pc = "parsed", ~lost, NEW ph \in Phases, GraphFile[ph] \in pulled
                PROVE  LET upto  == local[GraphFile[ph]].upto
                           c     == Column(GraphRead(ph), TraceRead(ph))
                           cross == place[ph]["embd"] # place[ph]["norm"]
                       IN  /\ upto >= First => c.getRows = place[ph]["embd"]
                           /\ upto = First => c.consumer = "?"
                           /\ upto = Whole => c.consumer = place[ph]["norm"] /\ (cross => c.cross)
                           /\ clean => upto = Whole /\ (c.cross => cross)
    BY DEF ColumnOfOwnGraph
  <2>. DEFINE p == place[ph]
              g == GraphRead(ph)
              trace == TraceRead(ph)
              upto == local[GraphFile[ph]].upto
              c == Column(g, trace)
              cross == p["embd"] # p["norm"]
  <2>1. /\ p \in Placements /\ upto \in {Empty, First, Whole}
        /\ upto = First => g = FirstRow(p) /\ g # None
        /\ upto = Whole => g = GraphNodes(p) /\ g # None
        /\ clean => upto = Whole /\ trace = p
    BY FlowRead
  <2>2. /\ upto >= First => upto = First \/ upto = Whole
        /\ First # Whole
    BY <2>1 DEF Empty, First, Whole
  <2>. HIDE DEF g, p, trace, upto
  <2>3. upto = First => c.getRows = p["embd"] /\ c.consumer = "?"
    BY <2>1, FlowConsumer DEF Column
  <2>4. upto = Whole => /\ c.getRows = p["embd"] /\ c.consumer = p["norm"]
                        /\ cross => c.cross
    BY <2>1, FlowConsumer DEF Column
  <2>5. clean => upto = Whole /\ (c.cross => cross)
    BY <2>1, FlowConsumer DEF Column, TraceCross
  <2>. QED BY <2>2, <2>3, <2>4, <2>5 DEF g, p, trace, upto
<1>. QED BY FlowInductive, <1>1, PTL
================================================================================
