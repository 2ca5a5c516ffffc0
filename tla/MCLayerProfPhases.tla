---------------------------- MODULE MCLayerProfPhases --------------------------
(***************************************************************************)
(* HTP0 mode: the embedding lookup and the output head stay on the CPU,    *)
(* with the layers on HTP0 between them (## SPLIT #0, #1, #2 of the        *)
(* assignment logs).                                                       *)
(***************************************************************************)
EXTENDS LayerProfPhases

HtpSplits == << <<"embd">>, <<"result">> >>

\* The times of the two ops in a pass of each phase.
HtpOpUs ==
  [warmup  |-> [embd |-> {2}, result |-> {7}],
   prefill |-> [embd |-> {30}, result |-> {8}],
   decode  |-> [embd |-> {1}, result |-> {7, 8}]]
================================================================================
