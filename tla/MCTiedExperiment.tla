---------------------------- MODULE MCTiedExperiment ---------------------------
(***************************************************************************)
(* Model values for TiedExperiment.                                        *)
(***************************************************************************)
EXTENDS TiedExperiment

\* A type for each place of the embedding table.
MCBuft == [t \in Quants |-> CASE t = "Q8_0" -> "CPU" [] t = "Q4_0" -> "HTP" [] OTHER -> "other"]
================================================================================
