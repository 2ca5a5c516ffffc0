------------------------------ MODULE GetRowsTiled -----------------------------
(***************************************************************************)
(* The Q4_0 path of op_get_rows on the DSP (patches/0001,                  *)
(* htp/get-rows-ops.c): the caller splits the nr requested rows over       *)
(* MIN(nr, n_threads) workers, runs get_rows_thread_q4_0_tiled on each     *)
(* through the worker pool and returns when all of them have.  Workers     *)
(* interleave at the granularity of one k-tile of one row.                 *)
(*                                                                         *)
(* Operations follow each other on one destination buffer, as the prefill  *)
(* and decode steps of a session do on a reused compute buffer.            *)
(***************************************************************************)
EXTENDS TiledLayout

CONSTANTS
  NThreads,  \* octx->n_threads, the size of the worker pool
  MaxRows,   \* rows of the destination buffer: the largest request
  Ids,       \* token ids a request may hold, some of them outside the table
  IdMod,     \* 2^32: ids are compared as uint32_t
  Garbage    \* content of a destination row nobody has written

ASSUME PoolAssumption ==
  /\ NThreads \in Nat \ {0}
  /\ MaxRows \in Nat \ {0}

\* Ids are 32-bit: reinterpreted as uint32_t a negative id stays out of the
\* table, and no id wraps around into it.
ASSUME IdsAssumption ==
  /\ IdMod \in Nat \ {0}
  /\ Vocab <= IdMod
  /\ Ids \subseteq (Vocab - IdMod) .. (IdMod - 1)

Threads == 0 .. NThreads - 1
BufRows == 0 .. MaxRows - 1

\* The request vectors: prefill passes many ids, a decode step one.
Requests == UNION {[0 .. n - 1 -> Ids] : n \in 1 .. MaxRows}

VARIABLES
  running,   \* the caller is inside worker_pool_run_func
  nr,        \* rows of the current request
  ids,       \* src1: the requested ids
  out,       \* dst: per row, per k-tile block
  pc,        \* per worker: "off", "start", "run", "done"
  cur,       \* per worker: i, the row it is on
  kt,        \* per worker: kt, the next k-tile of that row
  before     \* history: dst when the current (or last) request arrived

vars == <<running, nr, ids, out, pc, cur, kt, before>>

GarbageRow == [k \in KTiles |-> Garbage]

--------------------------------------------------------------------------------
Minimum(a, b) == IF a <= b THEN a ELSE b

\* n_threads = MIN(nr, octx->n_threads)
ThreadsFor(n) == Minimum(n, NThreads)

\* tasks_per_thread = (nr + n_threads - 1) / n_threads
TasksPerThread(n) == (n + ThreadsFor(n) - 1) \div ThreadsFor(n)

Ir0(t, n) == TasksPerThread(n) * t
\* Mutant of Ir1: the slice ends one row late.
Ir1Inclusive(t, n) == Minimum(Ir0(t, n) + TasksPerThread(n) + 1, n)

Ir1(t, n) == Minimum(Ir0(t, n) + TasksPerThread(n), n)

\* for (i = ir0; i < ir1; ++i): the rows of worker t.
Slice(t, n) == Ir0(t, n) .. Ir1(t, n) - 1

\* uint32_t i01 = *(int32_t *) or (uint32_t) *(int64_t *)
AsU32(id) == id % IdMod

\* Mutant of OutOfVocab: the id is compared as a signed number.
OutOfVocabSigned(id) == id >= Vocab

OutOfVocab(id) == AsU32(id) >= Vocab

--------------------------------------------------------------------------------
Init ==
  /\ running = FALSE
  /\ nr = 0
  /\ ids = [i \in 0 .. -1 |-> 0]
  /\ out = [i \in BufRows |-> GarbageRow]
  /\ before = out
  /\ pc = [t \in Threads |-> "off"]
  /\ cur = [t \in Threads |-> 0]
  /\ kt = [t \in Threads |-> 0]

\* op_get_rows up to worker_pool_run_func: n_threads workers are released.
OpGetRows(n, req) ==
  /\ ~running
  /\ running' = TRUE
  /\ nr' = n
  /\ ids' = req
  /\ before' = out
  /\ pc' = [t \in Threads |-> IF t < ThreadsFor(n) THEN "start" ELSE "off"]
  /\ UNCHANGED <<out, cur, kt>>

\* A worker computes its slice; with ir0 >= total_tasks it has nothing to do.
ThreadStart(t) ==
  /\ pc[t] = "start"
  /\ pc' = [pc EXCEPT ![t] = IF Ir0(t, nr) >= nr THEN "done" ELSE "run"]
  /\ cur' = [cur EXCEPT ![t] = Ir0(t, nr)]
  /\ kt' = [kt EXCEPT ![t] = 0]
  /\ UNCHANGED <<running, nr, ids, out, before>>

\* Mutant of SkipRow: the loop continues without advancing i.
SkipRowStuck(t) ==
  /\ pc[t] = "run"
  /\ cur[t] < Ir1(t, nr)
  /\ OutOfVocab(ids[cur[t]])
  /\ UNCHANGED vars

\* "continue;  // out-of-vocab index, skip"
SkipRow(t) ==
  /\ pc[t] = "run"
  /\ cur[t] < Ir1(t, nr)
  /\ OutOfVocab(ids[cur[t]])
  /\ cur' = [cur EXCEPT ![t] = @ + 1]
  /\ UNCHANGED <<running, nr, ids, out, pc, kt, before>>

\* Mutant of DequantTile: the destination row is addressed by the token id.
DequantTileById(t) ==
  /\ pc[t] = "run"
  /\ cur[t] < Ir1(t, nr)
  /\ ~OutOfVocab(ids[cur[t]])
  /\ out' = [out EXCEPT ![AsU32(ids[cur[t]])][kt[t]] = DecodeBlock(AsU32(ids[cur[t]]), kt[t])]
  /\ IF kt[t] + 1 < NKTiles
       THEN /\ kt' = [kt EXCEPT ![t] = @ + 1]
            /\ UNCHANGED cur
       ELSE /\ kt' = [kt EXCEPT ![t] = 0]
            /\ cur' = [cur EXCEPT ![t] = @ + 1]
  /\ UNCHANGED <<running, nr, ids, pc, before>>

\* One iteration of the k-tile loop; the last one moves to the next row.  The ids are
\* a vector, so that the code's split of i into i10, i11 and i12 gives i, 0 and 0.
DequantTile(t) ==
  /\ pc[t] = "run"
  /\ cur[t] < Ir1(t, nr)
  /\ ~OutOfVocab(ids[cur[t]])
  /\ out' = [out EXCEPT ![cur[t]][kt[t]] = DecodeBlock(AsU32(ids[cur[t]]), kt[t])]
  /\ IF kt[t] + 1 < NKTiles
       THEN /\ kt' = [kt EXCEPT ![t] = @ + 1]
            /\ UNCHANGED cur
       ELSE /\ kt' = [kt EXCEPT ![t] = 0]
            /\ cur' = [cur EXCEPT ![t] = @ + 1]
  /\ UNCHANGED <<running, nr, ids, pc, before>>

ThreadEnd(t) ==
  /\ pc[t] = "run"
  /\ cur[t] >= Ir1(t, nr)
  /\ pc' = [pc EXCEPT ![t] = "done"]
  /\ UNCHANGED <<running, nr, ids, out, cur, kt, before>>

\* worker_pool_run_func returns when the released workers are done.
OpReturn ==
  /\ running
  /\ \A t \in Threads : t < ThreadsFor(nr) => pc[t] = "done"
  /\ running' = FALSE
  /\ pc' = [t \in Threads |-> "off"]
  /\ UNCHANGED <<nr, ids, out, cur, kt, before>>

Worker(t) == ThreadStart(t) \/ SkipRow(t) \/ DequantTile(t) \/ ThreadEnd(t)

Next ==
  \/ \E n \in 1 .. MaxRows : \E req \in [0 .. n - 1 -> Ids] : OpGetRows(n, req)
  \/ \E t \in Threads : Worker(t)
  \/ OpReturn

\* Every released worker is scheduled and the caller waits for all of them; that
\* another request follows is not assumed.
Fairness == (\A t \in Threads : WF_vars(Worker(t))) /\ WF_vars(OpReturn)

SafetySpec == Init /\ [][Next]_vars
Spec == SafetySpec /\ Fairness

--------------------------------------------------------------------------------
(***************************************************************************)
(* Properties.                                                             *)
(***************************************************************************)
Block == [Elems -> [quant : Int \X Int, scale : Int \X Int]] \cup {Garbage}

\* Types of the operation's state (op_get_rows, get_rows_thread_q4_0_tiled).
TypeOK ==
  /\ running \in BOOLEAN
  /\ nr \in 0 .. MaxRows
  /\ running => nr > 0
  /\ ids \in [0 .. nr - 1 -> Ids]
  /\ out \in [BufRows -> [KTiles -> Block]]
  /\ before \in [BufRows -> [KTiles -> Block]]
  /\ pc \in [Threads -> {"off", "start", "run", "done"}]
  /\ cur \in [Threads -> Nat]
  /\ kt \in [Threads -> KTiles]

InTable(id) == id \in Rows

\* Row i as the caller must find it: the table's row, or untouched.
Served(i) ==
  out[i] = IF i < nr /\ InTable(ids[i]) THEN TableRow(ids[i]) ELSE before[i]

Untouched(i) == out[i] = before[i]

\* When op_get_rows has returned, every row of the buffer is served, however the
\* workers interleaved and whatever the buffer held before: no row is missed,
\* none is decoded from the wrong tile, none beyond the request is written.
RowsCorrect == ~running => \A i \in BufRows : Served(i)

\* A row a worker has moved past is final: no other worker of the operation
\* writes it again (the slices [ir0, ir1) are disjoint).
PastRowsFinal ==
  [][\A t \in Threads :
       running /\ pc[t] \in {"run", "done"} =>
         \A i \in Slice(t, nr) : i < cur[t] => out'[i] = out[i]]_vars

\* Nobody reads a half-dequantised buffer as finished: every operation that is
\* started returns (workers all leave their loops, the join is reached).
OpReturns == running ~> ~running

--------------------------------------------------------------------------------
(***************************************************************************)
(* The inductive invariant behind RowsCorrect: what each worker has done   *)
(* to its slice so far.                                                    *)
(***************************************************************************)

\* Row i of worker t, whose first kt[t] k-tiles are dequantised.
InProgress(t, i) ==
  \A k \in KTiles :
    out[i][k] = IF k < kt[t] THEN TableBlock(ids[i], k) ELSE before[i][k]

SliceInv(t) ==
  /\ pc[t] = "start" => \A i \in Slice(t, nr) : Untouched(i)
  /\ pc[t] = "run" =>
       /\ Ir0(t, nr) <= cur[t] /\ cur[t] <= Ir1(t, nr)
       /\ kt[t] > 0 => cur[t] < Ir1(t, nr) /\ InTable(ids[cur[t]])
       /\ \A i \in Slice(t, nr) :
            /\ i < cur[t] => Served(i)
            /\ i = cur[t] => InProgress(t, i)
            /\ i > cur[t] => Untouched(i)
  /\ pc[t] = "done" => \A i \in Slice(t, nr) : Served(i)

WorkInv ==
  /\ \A t \in Threads : (pc[t] = "off") <=> (t >= ThreadsFor(nr))
  /\ \A t \in Threads : SliceInv(t)
  /\ \A i \in BufRows : i >= nr => Untouched(i)

IdleInv ==
  /\ \A t \in Threads : pc[t] = "off"
  /\ \A i \in BufRows : Served(i)

\* While op_get_rows runs, every worker's slice is exactly as far as its loop
\* counters say; between operations every row is served.
IInv == TypeOK /\ IF running THEN WorkInv ELSE IdleInv

--------------------------------------------------------------------------------
\* The kernel implements the abstract GET_ROWS: until it returns, the caller's
\* view of the buffer is what it was when the request arrived.
Promise == INSTANCE GetRowsSpec WITH
  Table    <- [r \in Rows |-> TableRow(r)],
  Garbage  <- GarbageRow,
  pending  <- running,
  req      <- ids,
  dst      <- IF running THEN before ELSE out

\* Each worker step is invisible, the return delivers the whole lookup at
\* once: nobody else observes a partial gather.
ImplementsPromise == Promise!SafetySpec
================================================================================
