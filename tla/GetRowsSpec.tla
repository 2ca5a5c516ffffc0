------------------------------ MODULE GetRowsSpec ------------------------------
(***************************************************************************)
(* What GET_ROWS promises its caller, whoever computes it: the whole       *)
(* operation takes effect at once when it returns; the output row of a     *)
(* token id of the table is that row of the table, the output row of any   *)
(* other id keeps what the destination buffer held, and rows of the        *)
(* buffer beyond the request are not touched.                              *)
(***************************************************************************)
EXTENDS Integers

CONSTANTS
  Table,     \* the embedding table: a function on its row numbers
  BufRows,   \* the row numbers of the destination buffer
  Requests,  \* the id vectors a caller may pass, functions on 0..n-1
  Garbage    \* content of a destination row nobody has written

VARIABLES
  pending,   \* a request is being served
  req,       \* its ids
  dst        \* the destination buffer the caller can read

vars == <<pending, req, dst>>

Init ==
  /\ pending = FALSE
  /\ req = [i \in {} |-> 0]
  /\ dst = [i \in BufRows |-> Garbage]

Request(ids) ==
  /\ ~pending
  /\ pending' = TRUE
  /\ req' = ids
  /\ UNCHANGED dst

\* The buffer after a lookup of ids in a buffer that held d.
Lookup(ids, d) ==
  [i \in BufRows |->
     IF i \in DOMAIN ids /\ ids[i] \in DOMAIN Table THEN Table[ids[i]] ELSE d[i]]

Return ==
  /\ pending
  /\ pending' = FALSE
  /\ dst' = Lookup(req, dst)
  /\ UNCHANGED req

Next == (\E ids \in Requests : Request(ids)) \/ Return

SafetySpec == Init /\ [][Next]_vars
Spec == SafetySpec /\ WF_vars(Return)
================================================================================
