---------------------------- MODULE GetRowsPlacement ---------------------------
(***************************************************************************)
(* Who computes a GET_ROWS: the host side of patch 0001.                   *)
(*                                                                         *)
(*   supported_get_rows   the HTP backend's claim, from the types and the  *)
(*                        buffer the table is in at that moment            *)
(*   graph_compute        packs kernel_params when a graph is first seen   *)
(*                        and reuses the packed nodes when its uid returns *)
(*   op_get_rows          chooses a kernel on the DSP, from what it is     *)
(*                        handed, or refuses                               *)
(*                                                                         *)
(* The llama.cpp scheduler and loader around them are external: a tensor   *)
(* is placed once, and every graph that is split is asked about again.     *)
(***************************************************************************)
EXTENDS Integers

CONSTANTS
  ForceGetRowsHtp,  \* FORCE_GET_ROWS_HTP, a build-time switch (1 by default)
  RowLengths,       \* values of ne0
  TileCols,         \* 32: k-tile width, and the block size of Q4_0
  Uids              \* graph uids of a session

ASSUME PlacementAssumption ==
  /\ ForceGetRowsHtp \in BOOLEAN
  /\ TileCols \in Nat \ {0}
  /\ RowLengths \subseteq Nat \ {0}

Types    == {"F32", "Q4_0", "F16"}
IdxTypes == {"I32", "I64", "I16"}
DstTypes == {"F32", "F16"}
Buffers  == {"null", "CPU", "HTP0", "HTP0-REPACK"}

VARIABLES
  src0,    \* the table: type, ne0, and the buffer it is placed in
  idx,     \* type of src1
  dst,     \* type of the destination
  claim,   \* the last answer of supported_get_rows: "none", "yes", "no"
  asked,   \* the buffer src0 was in when it was given
  nodes,   \* cached graphs: uid -> the kernel_params packed for it
  result   \* outcome of the last op_get_rows: status and kernel

vars == <<src0, idx, dst, claim, asked, nodes, result>>

NotRun == [status |-> "none", kernel |-> "none", written |-> 0]

--------------------------------------------------------------------------------
\* Row lengths a type can have: a Q4_0 row is a whole number of blocks.
Rowable(type, ne0) == type = "Q4_0" => ne0 % TileCols = 0

\* Mutant of SupportedGetRows: Q4_0 is claimed whatever buffer it is in.
SupportedAnyBuffer(t, i, d) ==
  /\ i \in {"I32", "I64"}
  /\ d = "F32"
  /\ t.type = "F32" \/ (ForceGetRowsHtp /\ t.type = "Q4_0")

\* ggml_hexagon_supported_get_rows
SupportedGetRows(t, i, d) ==
  /\ i \in {"I32", "I64"}
  /\ d = "F32"
  /\ \/ t.type = "F32"
     \/ /\ ForceGetRowsHtp
        /\ t.type = "Q4_0"
        /\ t.buf \in {"null", "HTP0-REPACK"}   \* not_yet_placed || in_repack

\* Mutant of NumKTiles: rounds up past a whole number of tiles.
NumKTilesPlusOne(ne0) == ne0 \div TileCols + 1

\* hex_round_up(ne0, 32) / 32
NumKTiles(ne0) == (ne0 + TileCols - 1) \div TileCols

\* Mutant of PackParams: kernel_params of other nodes are left uninitialised.
PackParamsUninit(t) ==
  [flag    |-> IF t.type = "Q4_0" /\ t.buf = "HTP0-REPACK" THEN 1 ELSE 255,
   nKTiles |-> NumKTiles(t.ne0)]

\* kernel_params of a GET_ROWS node, zero unless the table is Q4_0 in REPACK.
PackParams(t) ==
  IF ForceGetRowsHtp /\ t.type = "Q4_0" /\ t.buf = "HTP0-REPACK"
    THEN [flag |-> 1, nKTiles |-> NumKTiles(t.ne0)]
    ELSE [flag |-> 0, nKTiles |-> 0]

\* op_get_rows: the status it returns, the kernel it ran and how many elements
\* of a destination row that kernel writes.
OpGetRows(t, i, d, kp, skip) ==
  LET tiled    == t.type = "Q4_0" /\ kp.flag = 1
      typed    == d = "F32" /\ i \in {"I32", "I64"}
      refused  == ~typed \/ (~tiled /\ t.type # "F32")
  IN  CASE refused -> [status |-> "NO_SUPPORT", kernel |-> "none", written |-> 0]
        [] ~refused /\ skip -> [status |-> "OK", kernel |-> "none", written |-> 0]
        [] ~refused /\ ~skip /\ tiled ->
             [status |-> "OK", kernel |-> "tiled", written |-> kp.nKTiles * TileCols]
        [] ~refused /\ ~skip /\ ~tiled ->
             [status |-> "OK", kernel |-> "f32", written |-> t.ne0]

--------------------------------------------------------------------------------
Init ==
  /\ src0 \in {t \in [type : Types, ne0 : RowLengths, buf : {"null"}] :
                 Rowable(t.type, t.ne0)}
  /\ idx \in IdxTypes
  /\ dst \in DstTypes
  /\ claim = "none"
  /\ asked = "null"
  /\ nodes = [u \in {} |-> 0]
  /\ result = NotRun

\* The scheduler asks whether the HTP backend takes the node.
SupportsOp ==
  /\ claim' = IF SupportedGetRows(src0, idx, dst) THEN "yes" ELSE "no"
  /\ asked' = src0.buf
  /\ UNCHANGED <<src0, idx, dst, nodes, result>>

\* The loader allocates the table (external).  Only quantised weights go to the
\* repack buffer.
Place(b) ==
  /\ src0.buf = "null"
  /\ b = "HTP0-REPACK" => src0.type = "Q4_0"
  /\ src0' = [src0 EXCEPT !.buf = b]
  /\ UNCHANGED <<idx, dst, claim, asked, nodes, result>>

\* graph_compute of a graph whose split gave the node to HTP: the claim was made
\* for this split, with the weights placed.  kernel_params are packed on a cache
\* miss, reused on a hit; the DSP then runs the node.
GraphCompute(uid, skip) ==
  LET kp == IF uid \in DOMAIN nodes THEN nodes[uid] ELSE PackParams(src0)
  IN  /\ src0.buf # "null"
      /\ claim = "yes" /\ asked = src0.buf
      /\ nodes' = [u \in DOMAIN nodes \cup {uid} |-> IF u = uid THEN kp ELSE nodes[u]]
      /\ result' = OpGetRows(src0, idx, dst, kp, skip)
      /\ UNCHANGED <<src0, idx, dst, claim, asked>>

Next ==
  \/ SupportsOp
  \/ \E b \in Buffers \ {"null"} : Place(b)
  \/ \E uid \in Uids, skip \in BOOLEAN : GraphCompute(uid, skip)

Spec == Init /\ [][Next]_vars

--------------------------------------------------------------------------------
TypeOK ==
  /\ src0 \in [type : Types, ne0 : RowLengths, buf : Buffers]
  /\ idx \in IdxTypes /\ dst \in DstTypes
  /\ claim \in {"none", "yes", "no"} /\ asked \in Buffers
  /\ DOMAIN nodes \subseteq Uids
  /\ \A u \in DOMAIN nodes : nodes[u] \in [flag : {0, 1}, nKTiles : Nat]
  /\ result \in [status : {"none", "OK", "NO_SUPPORT"},
                 kernel : {"none", "tiled", "f32"}, written : Nat]

\* The host's claim and the DSP's dispatch are two separately written type
\* checks: whatever supported_get_rows accepted, op_get_rows does not refuse,
\* also when the packed parameters come from an earlier graph.
ClaimHonoured == result.status # "NO_SUPPORT"

\* A kernel fills a destination row exactly: the tile count the host rounds up
\* never makes the DSP write past the row, nor stop short of its end.
RowFilledExactly == result.kernel # "none" => result.written = src0.ne0

\* The inductive invariant: every cached graph has the parameters that would be packed
\* now, as none is computed before the table is placed; and a claim is what would be
\* answered for the buffer it was made for.
IInv ==
  /\ TypeOK
  /\ Rowable(src0.type, src0.ne0)
  /\ src0.buf = "null" => DOMAIN nodes = {}
  /\ \A u \in DOMAIN nodes : nodes[u] = PackParams(src0)
  /\ claim = "yes" => SupportedGetRows([type |-> src0.type, ne0 |-> src0.ne0, buf |-> asked], idx, dst)
  /\ ClaimHonoured /\ RowFilledExactly
================================================================================
