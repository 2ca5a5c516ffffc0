------------------------------ MODULE MCBackendFlow ----------------------------
(***************************************************************************)
(* Every placement of GET_ROWS and of the two nodes that read its result,  *)
(* the same for prefill and decode; and, around the usual one (GET_ROWS    *)
(* and the output on the CPU), prefills that differ in a node, as a        *)
(* prefill without outputs moves its ADD to the CPU.                       *)
(***************************************************************************)
EXTENDS BackendFlow

Usual == [n \in Nodes |-> IF n \in {"embd", "output"} THEN "CPU" ELSE "HTP0"]
Other == [CPU |-> "HTP0", HTP0 |-> "CPU"]

MCLayouts ==
  {[ph \in Phases |-> p] :
     p \in {p \in Placements : \A n \in {"attn", "output"} : p[n] = Usual[n]}} \cup
  {[prefill |-> [Usual EXCEPT ![n] = Other[@]], decode |-> Usual] : n \in {"embd", "norm", "add"}}
================================================================================
