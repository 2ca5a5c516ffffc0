--------------------------- MODULE GetRowsTiled_proofs --------------------------
(***************************************************************************)
(* Proofs about the tiled GET_ROWS kernel, for every table and tile size,  *)
(* pool size and request length:                                           *)
(*   DecodeCorrect   the address arithmetic reads the right elements;      *)
(*   Typing          the types of the operation's state;                   *)
(*   Inductive       the loop counters describe the buffer exactly;        *)
(*   RowsServed      a returned operation has served every row;            *)
(*   Finality        no worker rewrites a row another has finished;        *)
(*   Refinement      the kernel implements the one-step GET_ROWS.          *)
(***************************************************************************)
EXTENDS GetRowsTiled, TLAPS

--------------------------------------------------------------------------------
(***************************************************************************)
(* Address arithmetic.                                                     *)
(***************************************************************************)

\* A quotient and a remainder are recovered from the number they make up: how
\* a tile number, a byte offset and a column are taken apart again.
LEMMA DivModUnique ==
  ASSUME NEW a \in Int, NEW b \in Int, NEW n \in Nat \ {0}, 0 <= b, b < n
  PROVE  (a * n + b) \div n = a /\ (a * n + b) % n = b
  OBVIOUS

\* Quotient and remainder of a natural number are in range and make it up.
LEMMA DivModRange ==
  ASSUME NEW a \in Nat, NEW n \in Nat \ {0}
  PROVE  /\ a \div n \in Nat
         /\ a % n \in Nat /\ a % n < n
         /\ (a \div n) * n + (a % n) = a
  OBVIOUS

\* The kernel's tile, byte, nibble and scale addresses name exactly the elements
\* of the requested row's k-tile (the loop body of get_rows_thread_q4_0_tiled).
THEOREM DecodeCorrect ==
  ASSUME NEW r \in Rows, NEW k \in KTiles
  PROVE  DecodeBlock(r, k) = TableBlock(r, k)
<1>. DEFINE tile == TileIndex(r, k)
<1>1. /\ r \in Nat /\ k \in Nat /\ k < NKTiles
      /\ TileRows \in Nat \ {0} /\ NKTiles \in Nat \ {0} /\ TileCols \in Nat \ {0}
  BY LayoutAssumption DEF Rows, KTiles
<1>2. /\ r \div TileRows \in Nat
      /\ r % TileRows \in Nat /\ r % TileRows < TileRows
      /\ (r \div TileRows) * TileRows + (r % TileRows) = r
  BY <1>1, DivModRange
<1>3. tile \div NKTiles = r \div TileRows /\ tile % NKTiles = k
  <2>. DEFINE a == r \div TileRows
  <2>1. tile = a * NKTiles + k /\ a \in Int /\ k \in Int /\ 0 <= k
    BY <1>1, <1>2 DEF TileIndex
  <2>. HIDE DEF a, tile
  <2>2. tile \div NKTiles = a /\ tile % NKTiles = k
    BY <1>1, <2>1, DivModUnique
  <2>. QED BY <2>2 DEF a
<1>4. ScaleCell(tile, RowInTile(r)) = <<r, k>>
  BY <1>2, <1>3 DEF ScaleCell, RowInTile
<1>5. ASSUME NEW e \in Elems
      PROVE  QuantCell(tile, QuantByte(r, e), QuantNibble(e)) = <<r, k * TileCols + e>>
  <2>1. e \in Nat /\ e \div 2 \in Nat /\ e % 2 \in Nat /\ (e \div 2) * 2 + (e % 2) = e
    BY DivModRange DEF Elems
  <2>2. /\ QuantByte(r, e) % TileRows = r % TileRows
        /\ QuantByte(r, e) \div TileRows = e \div 2
    <3>. DEFINE a == e \div 2
                b == r % TileRows
    <3>1. /\ QuantByte(r, e) = a * TileRows + b
          /\ a \in Int /\ b \in Int /\ 0 <= b /\ b < TileRows
      BY <1>2, <2>1 DEF QuantByte, RowInTile
    <3>. HIDE DEF a, b, tile
    <3>2. QuantByte(r, e) % TileRows = b /\ QuantByte(r, e) \div TileRows = a
      <4>1. (a * TileRows + b) \div TileRows = a /\ (a * TileRows + b) % TileRows = b
        BY <1>1, <3>1, DivModUnique
      <4>. QED BY <3>1, <4>1
    <3>. QED BY <3>2 DEF a, b
  <2>3. k * TileCols \in Nat
    BY <1>1
  <2>. QED
    BY <1>2, <1>3, <2>1, <2>2, <2>3 DEF QuantCell, QuantNibble
<1>. QED
  BY <1>4, <1>5 DEF DecodeBlock, TableBlock

\* Read as a uint32_t, an id passes the kernel's bound check exactly when it is a
\* row of the table, and is then that row: no 32-bit id wraps around into it.
LEMMA AsU32InTable ==
  ASSUME NEW id \in Ids
  PROVE  IF InTable(id) THEN AsU32(id) = id /\ ~OutOfVocab(id) ELSE OutOfVocab(id)
  BY LayoutAssumption, IdsAssumption DEF InTable, AsU32, OutOfVocab, Rows

--------------------------------------------------------------------------------
(***************************************************************************)
(* The split of a request into slices.                                     *)
(***************************************************************************)

\* n_threads and tasks_per_thread: at least one worker, none without a place in
\* the pool, and enough tasks each to cover the request.
LEMMA SplitSizes ==
  ASSUME NEW n \in Nat \ {0}
  PROVE  /\ ThreadsFor(n) \in 1 .. NThreads
         /\ TasksPerThread(n) \in Nat \ {0}
         /\ n <= ThreadsFor(n) * TasksPerThread(n)
<1>. DEFINE m == ThreadsFor(n)
<1>1. m \in Nat \ {0} /\ m <= NThreads /\ m <= n
  BY PoolAssumption DEF ThreadsFor, Minimum
<1>2. /\ (n + m - 1) \div m \in Nat
      /\ (n + m - 1) % m \in Nat /\ (n + m - 1) % m < m
      /\ ((n + m - 1) \div m) * m + ((n + m - 1) % m) = n + m - 1
  <2>1. n + m - 1 \in Nat
    BY <1>1
  <2>. HIDE DEF m
  <2>. QED BY <1>1, <2>1, DivModRange
<1>3. (n + m - 1) \div m # 0
  <2>. HIDE DEF m
  <2>. QED BY <1>1, <1>2
<1>4. n <= m * ((n + m - 1) \div m)
  <2>. HIDE DEF m
  <2>. QED BY <1>1, <1>2
<1>. QED
  BY <1>1, <1>2, <1>3, <1>4, PoolAssumption DEF TasksPerThread

\* A slice lies within the request.
LEMMA SliceBounds ==
  ASSUME NEW n \in Nat \ {0}, NEW t \in Threads
  PROVE  Ir0(t, n) \in Nat /\ Ir1(t, n) \in Nat /\ Ir1(t, n) <= n
<1>1. TasksPerThread(n) \in Nat /\ t \in Nat
  BY SplitSizes DEF Threads
<1>2. TasksPerThread(n) * t \in Nat
  BY <1>1
<1>. QED
  BY <1>1, <1>2 DEF Ir0, Ir1, Minimum

\* A row of a slice is a row of the destination buffer.
LEMMA SliceInBuf ==
  ASSUME NEW n \in 1 .. MaxRows, NEW t \in Threads, NEW i \in Slice(t, n)
  PROVE  i \in BufRows
<1>1. n \in Nat \ {0} /\ n <= MaxRows /\ MaxRows \in Nat
  BY PoolAssumption
<1>2. Ir0(t, n) \in Nat /\ Ir1(t, n) \in Nat /\ Ir1(t, n) <= n
  BY <1>1, SliceBounds
<1>. QED
  BY <1>1, <1>2 DEF Slice, BufRows

\* Slices of different workers are disjoint.
LEMMA SlicesDisjoint ==
  ASSUME NEW n \in Nat \ {0}, NEW t \in Threads, NEW u \in Threads, t # u,
         NEW i \in Slice(t, n)
  PROVE  i \notin Slice(u, n)
<1>. DEFINE d == TasksPerThread(n)
<1>1. d \in Nat \ {0} /\ t \in Nat /\ u \in Nat /\ n \in Nat
  BY SplitSizes DEF Threads
<1>2. d * t \in Nat /\ d * u \in Nat
  BY <1>1
<1>3. ASSUME NEW x \in Nat, NEW y \in Nat, x < y
      PROVE  d * x + d <= d * y
  <2>1. d * (x + 1) <= d * y
    <3>. HIDE DEF d
    <3>. QED BY <1>1, <1>3
  <2>. HIDE DEF d
  <2>. QED BY <1>1, <2>1
<1>4. i \in Int /\ d * t <= i /\ i < d * t + d
  <2>. HIDE DEF d
  <2>. QED BY <1>1, <1>2 DEF Slice, Ir0, Ir1, Minimum, d
<1>5. i < d * u \/ d * u + d <= i
  <2>1. CASE t < u
    BY <2>1, <1>1, <1>2, <1>3, <1>4
  <2>2. CASE u < t
    BY <2>2, <1>1, <1>2, <1>3, <1>4
  <2>. QED BY <2>1, <2>2, <1>1
<1>. QED
  BY <1>1, <1>2, <1>4, <1>5 DEF Slice, Ir0, Ir1, Minimum

\* Every requested row is in the slice of a released worker.
LEMMA SlicesCover ==
  ASSUME NEW n \in Nat \ {0}, NEW i \in 0 .. n - 1
  PROVE  \E t \in Threads : t < ThreadsFor(n) /\ i \in Slice(t, n)
<1>. DEFINE d == TasksPerThread(n)
            t == i \div d
<1>1. d \in Nat \ {0} /\ ThreadsFor(n) \in 1 .. NThreads /\ n <= ThreadsFor(n) * d
  BY SplitSizes
<1>2. t \in Nat /\ d * t <= i /\ i < d * t + d
  <2>. HIDE DEF d
  <2>. QED BY <1>1, DivModRange
<1>3. t < ThreadsFor(n)
  <2>1. SUFFICES ASSUME ThreadsFor(n) <= t PROVE FALSE
    BY <1>1, <1>2
  <2>. DEFINE m == ThreadsFor(n)
  <2>2. m * d <= d * t
    <3>. HIDE DEF d, t, m
    <3>. QED BY <1>1, <1>2, <2>1 DEF m
  <2>. HIDE DEF d, t, m
  <2>. QED BY <1>1, <1>2, <2>2 DEF m
<1>4. t \in Threads /\ i \in Slice(t, n)
  <2>. HIDE DEF t
  <2>. QED BY <1>1, <1>2, <1>3, PoolAssumption DEF Threads, Slice, Ir0, Ir1, Minimum
<1>. QED
  BY <1>3, <1>4

--------------------------------------------------------------------------------
(***************************************************************************)
(* The inductive invariant.                                                *)
(***************************************************************************)

\* The k-tile a worker writes is a block of the buffer's type.
LEMMA BlockType ==
  ASSUME NEW r \in Rows, NEW k \in KTiles
  PROVE  TableBlock(r, k) \in Block
<1>1. r \in Int /\ k \in Int /\ TileCols \in Int
  BY LayoutAssumption DEF Rows, KTiles
<1>2. \A e \in Elems : k * TileCols + e \in Int
  BY <1>1 DEF Elems
<1>. QED
  BY <1>1, <1>2 DEF TableBlock, Block

\* A step of a worker keeps the types.
LEMMA TypeWorker ==
  ASSUME TypeOK, running, NEW t \in Threads, Worker(t)
  PROVE  TypeOK'
<1>1. CASE ThreadStart(t)
  <2>1. Ir0(t, nr) \in Nat
    BY SliceBounds DEF TypeOK
  <2>2. 0 \in KTiles
    BY LayoutAssumption DEF KTiles
  <2>. QED
    BY <1>1, <2>1, <2>2 DEF ThreadStart, TypeOK
<1>2. CASE SkipRow(t)
  BY <1>2 DEF SkipRow, TypeOK
<1>3. CASE DequantTile(t)
  <2>1. kt[t] \in KTiles /\ cur[t] \in Nat
    BY <1>3 DEF TypeOK
  <2>2. cur[t] \in 0 .. nr - 1
    BY <1>3, <2>1, SliceBounds DEF DequantTile, TypeOK
  <2>3. ids[cur[t]] \in Ids
    BY <2>2 DEF TypeOK
  <2>4. DecodeBlock(AsU32(ids[cur[t]]), kt[t]) \in Block
    BY <1>3, <2>1, <2>3, AsU32InTable, BlockType, DecodeCorrect
       DEF DequantTile, InTable
  <2>5. out' \in [BufRows -> [KTiles -> Block]]
    BY <1>3, <2>4 DEF DequantTile, TypeOK
  <2>6. kt' \in [Threads -> KTiles] /\ cur' \in [Threads -> Nat]
    <3>1. /\ kt \in [Threads -> KTiles] /\ cur \in [Threads -> Nat]
          /\ 0 \in KTiles /\ cur[t] + 1 \in Nat
          /\ kt[t] + 1 < NKTiles => kt[t] + 1 \in KTiles
      BY <2>1, LayoutAssumption DEF TypeOK, KTiles
    <3>2. CASE kt[t] + 1 < NKTiles
      BY <1>3, <3>1, <3>2 DEF DequantTile
    <3>3. CASE ~(kt[t] + 1 < NKTiles)
      BY <1>3, <3>1, <3>3 DEF DequantTile
    <3>. QED BY <3>2, <3>3
  <2>. QED
    BY <1>3, <2>5, <2>6 DEF DequantTile, TypeOK
<1>4. CASE ThreadEnd(t)
  BY <1>4 DEF ThreadEnd, TypeOK
<1>. QED
  BY <1>1, <1>2, <1>3, <1>4 DEF Worker

\* The initial state has the right types.
LEMMA InitType == Init => TypeOK
<1>. SUFFICES ASSUME Init PROVE TypeOK
  OBVIOUS
<1>1. ids \in [0 .. nr - 1 -> Ids] /\ nr \in 0 .. MaxRows
  <2>1. nr = 0 /\ 0 .. nr - 1 = {} /\ 0 .. -1 = {}
    BY DEF Init
  <2>. QED BY <2>1, PoolAssumption DEF Init
<1>2. out \in [BufRows -> [KTiles -> Block]] /\ before = out
  BY DEF Init, GarbageRow, Block
<1>3. 0 \in KTiles
  BY LayoutAssumption DEF KTiles
<1>. QED BY <1>1, <1>2, <1>3 DEF Init, TypeOK

\* Types of the operation's state, in every reachable state.
THEOREM Typing == SafetySpec => []TypeOK
<1>1. Init => TypeOK
  BY InitType
<1>. DEFINE Inv == TypeOK /\ (~running => \A t \in Threads : pc[t] = "off")
<1>2. Init => Inv
  BY <1>1 DEF Init
<1>3. Inv /\ [Next]_vars => Inv'
  <2>. SUFFICES ASSUME Inv, [Next]_vars PROVE Inv'
    OBVIOUS
  <2>1. ASSUME NEW n \in 1 .. MaxRows, NEW req \in [0 .. n - 1 -> Ids],
               OpGetRows(n, req)
        PROVE  Inv'
    BY <2>1 DEF OpGetRows, TypeOK
  <2>2. ASSUME NEW t \in Threads, Worker(t)
        PROVE  Inv'
    <3>1. running /\ running' = running
      BY <2>2 DEF Worker, ThreadStart, SkipRow, DequantTile, ThreadEnd, TypeOK
    <3>. QED BY <2>2, <3>1, TypeWorker
  <2>3. CASE OpReturn
    BY <2>3 DEF OpReturn, TypeOK
  <2>4. CASE UNCHANGED vars
    BY <2>4 DEF vars, TypeOK
  <2>. QED BY <2>1, <2>2, <2>3, <2>4 DEF Next
<1>. QED
  BY <1>2, <1>3, PTL DEF SafetySpec

\* Rows of the buffer are functions on the k-tiles: equal when equal tile by tile.
LEMMA RowExt ==
  ASSUME NEW f \in [KTiles -> Block], NEW g \in [KTiles -> Block],
         \A k \in KTiles : f[k] = g[k]
  PROVE  f = g
  OBVIOUS

\* A worker that has not reached a row that is past the table, or that skips it,
\* leaves it served: what it holds is what it held before.
LEMMA SkippedServed ==
  ASSUME NEW i \in BufRows, Untouched(i), i < nr => ~InTable(ids[i])
  PROVE  Served(i)
  BY DEF Untouched, Served

\* Worker t's own step keeps its slice as far as its loop counters say.
LEMMA OwnSlice ==
  ASSUME IInv, running, NEW t \in Threads, t < ThreadsFor(nr), Worker(t)
  PROVE  SliceInv(t)' /\ pc'[t] # "off"
<1>. TypeOK /\ SliceInv(t) /\ TypeOK' /\ nr \in Nat \ {0} /\ t \in Threads
  BY TypeWorker DEF IInv, WorkInv, TypeOK
<1>1. /\ Ir0(t, nr) \in Nat /\ Ir1(t, nr) \in Nat /\ Ir1(t, nr) <= nr
      /\ \A i \in Slice(t, nr) : i \in Nat /\ i < nr /\ i \in BufRows
  BY SliceBounds, PoolAssumption DEF Slice, TypeOK, BufRows
<1>2. CASE ThreadStart(t)
  <2>1. /\ nr' = nr /\ out' = out /\ before' = before /\ ids' = ids
        /\ cur'[t] = Ir0(t, nr) /\ kt'[t] = 0
        /\ pc'[t] = IF Ir0(t, nr) >= nr THEN "done" ELSE "run"
        /\ \A i \in Slice(t, nr) : out[i] = before[i]
    BY <1>2 DEF ThreadStart, TypeOK, SliceInv, Untouched
  <2>2. CASE Ir0(t, nr) >= nr
    <3>1. Slice(t, nr) = {}
      BY <1>1, <2>2 DEF Slice
    <3>. QED BY <2>1, <2>2, <3>1 DEF SliceInv
  <2>3. CASE Ir0(t, nr) < nr
    <3>1. Ir0(t, nr) <= Ir1(t, nr)
      BY <1>1, <2>3, SplitSizes DEF Ir1, Minimum
    <3>2. \A k \in KTiles : ~(k < 0)
      BY DEF KTiles
    <3>3. pc'[t] = "run"
      BY <1>1, <2>1, <2>3
    <3>4. \A i \in Slice(t, nr) : ~(i < Ir0(t, nr))
      BY <1>1 DEF Slice
    <3>. QED
      BY <1>1, <2>1, <3>1, <3>2, <3>3, <3>4 DEF SliceInv, InProgress, Untouched, Slice, Ir0, Ir1, TasksPerThread
  <2>. QED BY <1>1, <2>2, <2>3
<1>3. CASE SkipRow(t)
  <2>. DEFINE c == cur[t]
  <2>1. /\ nr' = nr /\ out' = out /\ before' = before /\ ids' = ids /\ kt' = kt
        /\ pc' = pc /\ pc[t] = "run" /\ cur'[t] = c + 1 /\ c < Ir1(t, nr)
        /\ Ir0(t, nr) <= c /\ c \in Nat
        /\ OutOfVocab(ids[c])
    BY <1>3 DEF SkipRow, TypeOK, SliceInv
  <2>2. c \in Slice(t, nr) /\ c < nr /\ c \in BufRows /\ ids[c] \in Ids
    BY <1>1, <2>1 DEF Slice, TypeOK
  <2>3. ~InTable(ids[c])
    BY <2>1, <2>2, AsU32InTable
  <2>4. kt[t] = 0
    BY <2>1, <2>3 DEF SliceInv, TypeOK, KTiles
  <2>5. \A i \in Slice(t, nr) : i = c => Untouched(i)
    <3>1. \A k \in KTiles : out[c][k] = before[c][k]
      BY <2>1, <2>2, <2>4 DEF SliceInv, InProgress, KTiles
    <3>2. out[c] \in [KTiles -> Block] /\ before[c] \in [KTiles -> Block]
      BY <2>2 DEF TypeOK
    <3>. QED BY <3>1, <3>2, RowExt DEF Untouched
  <2>6. \A i \in Slice(t, nr) : i < c + 1 => Served(i)
    BY <1>1, <2>1, <2>2, <2>3, <2>5, SkippedServed DEF SliceInv
  <2>7. \A i \in Slice(t, nr) : i >= c + 1 => Untouched(i)
    BY <1>1, <2>1 DEF SliceInv
  <2>8. \A i \in Slice(t, nr) : i >= c + 1 => InProgress(t, i)
    BY <2>4, <2>7 DEF InProgress, Untouched, KTiles
  <2>9. \A i \in Slice(t, nr) : (Served(i) <=> Served(i)') /\ (Untouched(i) <=> Untouched(i)')
                                /\ (InProgress(t, i) <=> InProgress(t, i)')
    BY <2>1 DEF Served, Untouched, InProgress
  <2>10. Slice(t, nr)' = Slice(t, nr) /\ Ir0(t, nr)' = Ir0(t, nr) /\ Ir1(t, nr)' = Ir1(t, nr)
    BY <2>1 DEF Slice, Ir0, Ir1
  <2>11. /\ Ir0(t, nr) <= c + 1 /\ c + 1 <= Ir1(t, nr)
         /\ \A i \in Slice(t, nr) : (i = c + 1 \/ i > c + 1) => i >= c + 1
    BY <1>1, <2>1
  <2>. HIDE DEF c
  <2>. QED
    BY <2>1, <2>4, <2>6, <2>7, <2>8, <2>9, <2>10, <2>11 DEF SliceInv
<1>4. CASE DequantTile(t)
  <2>. DEFINE c == cur[t]
              k0 == kt[t]
  <2>1. /\ nr' = nr /\ before' = before /\ ids' = ids
        /\ pc' = pc /\ pc[t] = "run" /\ c < Ir1(t, nr)
        /\ Ir0(t, nr) <= c /\ c \in Nat /\ k0 \in KTiles
        /\ ~OutOfVocab(ids[c])
        /\ out' = [out EXCEPT ![c][k0] = DecodeBlock(AsU32(ids[c]), k0)]
        /\ IF k0 + 1 < NKTiles THEN kt'[t] = k0 + 1 /\ cur'[t] = c
                                ELSE kt'[t] = 0 /\ cur'[t] = c + 1
    BY <1>4 DEF DequantTile, TypeOK, SliceInv
  <2>2. c \in Slice(t, nr) /\ c < nr /\ c \in BufRows /\ ids[c] \in Ids
    BY <1>1, <2>1 DEF Slice, TypeOK
  <2>3. InTable(ids[c]) /\ AsU32(ids[c]) = ids[c]
    BY <2>1, <2>2, AsU32InTable
  <2>4. DecodeBlock(AsU32(ids[c]), k0) = TableBlock(ids[c], k0)
    BY <2>1, <2>3, DecodeCorrect DEF InTable
  <2>5. /\ \A i \in BufRows : i # c => out'[i] = out[i]
        /\ \A k \in KTiles : out'[c][k] = IF k = k0 THEN TableBlock(ids[c], k) ELSE out[c][k]
    BY <2>1, <2>2, <2>4 DEF TypeOK
  <2>6. \A k \in KTiles : out'[c][k] = IF k < k0 + 1 THEN TableBlock(ids[c], k) ELSE before[c][k]
    <3>1. \A k \in KTiles : out[c][k] = IF k < k0 THEN TableBlock(ids[c], k) ELSE before[c][k]
      BY <2>1, <2>2 DEF SliceInv, InProgress
    <3>. QED BY <2>1, <2>5, <3>1 DEF KTiles
  <2>7. \A i \in Slice(t, nr) : (i < c => Served(i)') /\ (i > c => Untouched(i)')
    <3>1. \A i \in Slice(t, nr) : i # c => out'[i] = out[i]
      BY <1>1, <2>5
    <3>. QED BY <1>1, <2>1, <3>1 DEF SliceInv, Served, Untouched
  <2>8. Slice(t, nr)' = Slice(t, nr) /\ Ir0(t, nr)' = Ir0(t, nr) /\ Ir1(t, nr)' = Ir1(t, nr)
    BY <2>1 DEF Slice, Ir0, Ir1
  <2>9. CASE k0 + 1 < NKTiles
    <3>1. \A i \in Slice(t, nr) : i = c => InProgress(t, i)'
      BY <2>1, <2>6, <2>9 DEF InProgress
    <3>2. cur'[t] = c /\ kt'[t] = k0 + 1 /\ ids' = ids
      BY <2>1, <2>9
    <3>. HIDE DEF c, k0
    <3>. QED
      BY <1>1, <2>1, <2>2, <2>3, <2>7, <2>8, <3>1, <3>2 DEF SliceInv, InTable
  <2>10. CASE ~(k0 + 1 < NKTiles)
    <3>1. out'[c] = TableRow(ids[c])
      <4>1. \A k \in KTiles : out'[c][k] = TableBlock(ids[c], k)
        BY <2>1, <2>6, <2>10, LayoutAssumption DEF KTiles
      <4>2. out'[c] \in [KTiles -> Block]
        BY <2>2 DEF TypeOK
      <4>. QED BY <4>1, <4>2 DEF TableRow
    <3>2. \A i \in Slice(t, nr) : i = c => Served(i)'
      BY <1>1, <2>1, <2>2, <2>3, <3>1 DEF Served, InTable
    <3>3. cur'[t] = c + 1 /\ kt'[t] = 0
      BY <2>1, <2>10
    <3>4. \A i \in Slice(t, nr) : i < c + 1 => Served(i)'
      BY <1>1, <2>1, <2>7, <3>2
    <3>5. \A i \in Slice(t, nr) : i >= c + 1 => Untouched(i)' /\ i > c
      BY <1>1, <2>1, <2>7
    <3>6. \A i \in Slice(t, nr) : i >= c + 1 => InProgress(t, i)'
      BY <2>1, <3>3, <3>5 DEF InProgress, Untouched, KTiles
    <3>7. /\ Ir0(t, nr) <= c + 1 /\ c + 1 <= Ir1(t, nr)
          /\ \A i \in Slice(t, nr) : (i = c + 1 \/ i > c + 1) => i >= c + 1
      BY <1>1, <2>1
    <3>. HIDE DEF c, k0
    <3>. QED
      BY <2>1, <2>8, <3>3, <3>4, <3>5, <3>6, <3>7 DEF SliceInv
  <2>. QED BY <2>9, <2>10
<1>5. CASE ThreadEnd(t)
  <2>1. /\ nr' = nr /\ out' = out /\ before' = before /\ ids' = ids
        /\ pc[t] = "run" /\ pc'[t] = "done" /\ cur[t] >= Ir1(t, nr) /\ cur[t] \in Nat
    BY <1>5 DEF ThreadEnd, TypeOK
  <2>2. \A i \in Slice(t, nr) : i < cur[t]
    BY <1>1, <2>1 DEF Slice
  <2>. QED
    BY <2>1, <2>2 DEF SliceInv, Served, Slice, Ir0, Ir1
<1>. QED
  BY <1>2, <1>3, <1>4, <1>5 DEF Worker

\* A worker's step changes no row outside its slice and no other worker's counters.
LEMMA StepIsLocal ==
  ASSUME IInv, running, NEW t \in Threads, t < ThreadsFor(nr), Worker(t)
  PROVE  /\ running' = running /\ nr' = nr /\ ids' = ids /\ before' = before
         /\ \A i \in BufRows : i \notin Slice(t, nr) => out'[i] = out[i]
         /\ \A i \in BufRows : i < cur[t] /\ pc[t] = "run" => out'[i] = out[i]
         /\ \A u \in Threads : u # t =>
              pc'[u] = pc[u] /\ cur'[u] = cur[u] /\ kt'[u] = kt[u]
<1>. TypeOK /\ SliceInv(t) /\ nr \in Nat \ {0}
  BY DEF IInv, WorkInv, TypeOK
<1>1. CASE DequantTile(t)
  <2>1. /\ Ir0(t, nr) <= cur[t] /\ cur[t] < Ir1(t, nr)
        /\ Ir0(t, nr) \in Nat /\ Ir1(t, nr) \in Nat /\ cur[t] \in Nat
    BY <1>1, SliceBounds DEF DequantTile, SliceInv, TypeOK
  <2>2. cur[t] \in Slice(t, nr)
    BY <2>1 DEF Slice
  <2>3. \A i \in BufRows : i # cur[t] => out'[i] = out[i]
    BY <1>1 DEF DequantTile, TypeOK
  <2>4. \A i \in BufRows : i < cur[t] => i # cur[t]
    BY <2>1
  <2>. QED
    BY <1>1, <2>2, <2>3, <2>4 DEF DequantTile, TypeOK
<1>2. CASE ThreadStart(t) \/ SkipRow(t) \/ ThreadEnd(t)
  BY <1>2 DEF ThreadStart, SkipRow, ThreadEnd, TypeOK
<1>. QED
  BY <1>1, <1>2 DEF Worker

\* A worker's step keeps the invariant.
LEMMA WorkerInv ==
  ASSUME IInv, running, NEW t \in Threads, Worker(t)
  PROVE  IInv'
<1>. TypeOK /\ WorkInv /\ nr \in Nat \ {0}
  BY DEF IInv, TypeOK
<1>. ThreadsFor(nr) \in Nat
  BY SplitSizes
<1>1. t < ThreadsFor(nr) /\ t \in Nat
  <2>1. pc[t] # "off"
    BY DEF Worker, ThreadStart, SkipRow, DequantTile, ThreadEnd
  <2>2. t \in Nat
    BY DEF Threads
  <2>. QED BY <2>1, <2>2 DEF WorkInv
<1>2. SliceInv(t)' /\ pc'[t] # "off"
  BY <1>1, OwnSlice
<1>3. /\ running' = running /\ nr' = nr /\ ids' = ids /\ before' = before
      /\ \A i \in BufRows : i \notin Slice(t, nr) => out'[i] = out[i]
      /\ \A u \in Threads : u # t =>
           pc'[u] = pc[u] /\ cur'[u] = cur[u] /\ kt'[u] = kt[u]
  BY <1>1, StepIsLocal
<1>4. ASSUME NEW u \in Threads, u # t
      PROVE  SliceInv(u)'
  <2>1. \A i \in Slice(u, nr) : i \in BufRows /\ out'[i] = out[i]
    <3>1. \A i \in Slice(u, nr) : i \in BufRows /\ i \notin Slice(t, nr)
      <4>1. nr \in 1 .. MaxRows
        BY PoolAssumption DEF TypeOK
      <4>. QED BY <1>4, <4>1, SlicesDisjoint, SliceInBuf
    <3>. QED BY <1>3, <3>1
  <2>2. \A i \in Slice(u, nr) :
          /\ Served(i) <=> Served(i)'
          /\ Untouched(i) <=> Untouched(i)'
          /\ InProgress(u, i) <=> InProgress(u, i)'
    BY <1>3, <1>4, <2>1 DEF Served, Untouched, InProgress
  <2>3. /\ Slice(u, nr)' = Slice(u, nr) /\ Ir0(u, nr)' = Ir0(u, nr) /\ Ir1(u, nr)' = Ir1(u, nr)
        /\ pc'[u] = pc[u] /\ cur'[u] = cur[u] /\ kt'[u] = kt[u] /\ ids' = ids /\ nr' = nr
    BY <1>3, <1>4 DEF Slice, Ir0, Ir1
  <2>4. SliceInv(u)
    BY DEF WorkInv
  <2>. QED
    BY <2>2, <2>3, <2>4 DEF SliceInv
<1>5. \A u \in Threads : (pc'[u] = "off") <=> (u >= ThreadsFor(nr)')
  BY <1>1, <1>2, <1>3 DEF WorkInv, ThreadsFor, Threads
<1>6. \A i \in BufRows : i >= nr' => Untouched(i)'
  <2>1. \A i \in BufRows : i >= nr => i \notin Slice(t, nr)
    BY SliceBounds DEF Slice, BufRows
  <2>. QED BY <1>3, <2>1 DEF WorkInv, Untouched
<1>7. SliceInv(t)' /\ (\A u \in Threads : u # t => SliceInv(u)')
  BY <1>2, <1>4
<1>8. WorkInv'
  BY <1>5, <1>6, <1>7 DEF WorkInv
<1>. QED
  BY <1>3, <1>8, TypeWorker DEF IInv

\* The invariant holds in every reachable state: while the operation runs each
\* slice is as far as its worker's counters say, afterwards all rows are served.
THEOREM Inductive == SafetySpec => []IInv
<1>1. Init => IInv
  <2>. SUFFICES ASSUME Init, TypeOK PROVE IInv
    BY InitType
  <2>. QED
    BY DEF Init, IInv, IdleInv, Served, BufRows
<1>2. IInv /\ [Next]_vars => IInv'
  <2>. SUFFICES ASSUME IInv, [Next]_vars PROVE IInv'
    OBVIOUS
  <2>1. ASSUME NEW n \in 1 .. MaxRows, NEW req \in [0 .. n - 1 -> Ids],
               OpGetRows(n, req)
        PROVE  IInv'
    <3>1. TypeOK'
      BY <2>1 DEF OpGetRows, TypeOK, IInv
    <3>2. \A t \in Threads : pc'[t] = IF t < ThreadsFor(n) THEN "start" ELSE "off"
      BY <2>1 DEF OpGetRows
    <3>3. n \in Nat \ {0} /\ ThreadsFor(n) \in Nat
      BY SplitSizes
    <3>4. \A t \in Threads : (pc'[t] = "off") <=> (t >= ThreadsFor(n))
      BY <3>2, <3>3 DEF Threads
    <3>5. \A i \in BufRows : Untouched(i)'
      BY <2>1 DEF OpGetRows, Untouched
    <3>6. \A t \in Threads : SliceInv(t)'
      <4>1. \A t \in Threads : \A i \in Slice(t, n) : i \in BufRows
        BY SliceInBuf
      <4>. QED
        BY <2>1, <3>2, <3>5, <4>1 DEF OpGetRows, SliceInv, Slice, Ir0, Ir1
    <3>7. nr' = n /\ running'
      BY <2>1 DEF OpGetRows
    <3>8. WorkInv'
      BY <3>4, <3>5, <3>6, <3>7 DEF WorkInv, ThreadsFor
    <3>. QED
      BY <3>1, <3>7, <3>8 DEF IInv
  <2>2. ASSUME NEW t \in Threads, Worker(t)
        PROVE  IInv'
    <3>1. running
      BY <2>2 DEF Worker, ThreadStart, SkipRow, DequantTile, ThreadEnd, IInv, IdleInv, TypeOK
    <3>. QED BY <2>2, <3>1, WorkerInv
  <2>3. CASE OpReturn
    <3>1. /\ TypeOK /\ WorkInv /\ running /\ nr \in Nat \ {0}
          /\ out' = out /\ before' = before /\ ids' = ids /\ nr' = nr /\ running' = FALSE
          /\ \A t \in Threads : t < ThreadsFor(nr) => pc[t] = "done"
          /\ pc' = [t \in Threads |-> "off"]
      BY <2>3 DEF OpReturn, IInv, TypeOK
    <3>2. TypeOK'
      BY <2>3, <3>1 DEF OpReturn, TypeOK
    <3>3. ASSUME NEW i \in BufRows PROVE Served(i)
      <4>1. CASE i < nr
        <5>1. PICK t \in Threads : t < ThreadsFor(nr) /\ i \in Slice(t, nr)
          BY <3>1, <4>1, SlicesCover DEF BufRows
        <5>. QED BY <3>1, <5>1 DEF WorkInv, SliceInv
      <4>2. CASE ~(i < nr)
        BY <3>1, <4>2 DEF WorkInv, Untouched, Served, BufRows
      <4>. QED BY <4>1, <4>2
    <3>4. \A i \in BufRows : Served(i)'
      BY <3>1, <3>3 DEF Served
    <3>. QED
      BY <3>1, <3>2, <3>4 DEF IInv, IdleInv
  <2>4. CASE UNCHANGED vars
    BY <2>4 DEF vars, IInv, TypeOK, WorkInv, IdleInv, SliceInv, Served, Untouched, InProgress,
                ThreadsFor, Slice, Ir0, Ir1
  <2>. QED BY <2>1, <2>2, <2>3, <2>4 DEF Next
<1>. QED
  BY <1>1, <1>2, PTL DEF SafetySpec

\* When op_get_rows has returned, every row of the destination buffer is served:
\* no row is missed, decoded from the wrong tile, or written beyond the request.
THEOREM RowsServed == SafetySpec => []RowsCorrect
<1>1. IInv => RowsCorrect
  BY DEF IInv, IdleInv, RowsCorrect
<1>. QED
  BY <1>1, Inductive, PTL

\* No worker rewrites a row that a worker has moved past.
THEOREM Finality == SafetySpec => PastRowsFinal
<1>. DEFINE Past == \A t \in Threads :
              running /\ pc[t] \in {"run", "done"} =>
                \A i \in Slice(t, nr) : i < cur[t] => out'[i] = out[i]
<1>1. IInv /\ [Next]_vars => Past
  <2>. SUFFICES ASSUME IInv, [Next]_vars, running,
                       NEW t \in Threads, pc[t] \in {"run", "done"},
                       NEW i \in Slice(t, nr), i < cur[t]
                PROVE  out'[i] = out[i]
    OBVIOUS
  <2>1. TypeOK /\ WorkInv /\ nr \in Nat \ {0} /\ nr \in 1 .. MaxRows
    BY PoolAssumption DEF IInv, TypeOK
  <2>. i \in BufRows
    BY <2>1, SliceInBuf
  <2>2. ASSUME NEW u \in Threads, Worker(u)
        PROVE  out'[i] = out[i]
    <3>1. u < ThreadsFor(nr)
      <4>1. ThreadsFor(nr) \in Nat /\ u \in Nat
        BY <2>1, SplitSizes DEF Threads
      <4>2. pc[u] # "off"
        BY <2>2 DEF Worker, ThreadStart, SkipRow, DequantTile, ThreadEnd
      <4>. QED BY <2>1, <4>1, <4>2 DEF WorkInv
    <3>2. CASE u # t
      BY <2>1, <2>2, <3>1, <3>2, SlicesDisjoint, StepIsLocal
    <3>3. CASE u = t /\ pc[t] = "run"
      BY <2>1, <2>2, <3>1, <3>3, StepIsLocal
    <3>4. CASE u = t /\ pc[t] = "done"
      BY <2>2, <3>4 DEF Worker, ThreadStart, SkipRow, DequantTile, ThreadEnd
    <3>. QED BY <3>2, <3>3, <3>4
  <2>3. CASE ~ \E u \in Threads : Worker(u)
    BY <2>3 DEF Next, OpGetRows, OpReturn, vars
  <2>. QED BY <2>2, <2>3
<1>2. IInv /\ [Next]_vars => [Past]_vars
  BY <1>1
<1>. QED
  BY <1>2, Inductive, PTL DEF SafetySpec, PastRowsFinal

\* The kernel implements the one-step GET_ROWS: worker steps stutter, and the
\* return delivers the whole lookup.
THEOREM Refinement == SafetySpec => ImplementsPromise
<1>1. Init => Promise!Init
  <2>. SUFFICES ASSUME Init PROVE Promise!Init
    OBVIOUS
  <2>1. 0 .. -1 = {}
    OBVIOUS
  <2>. QED BY <2>1 DEF Init, Promise!Init
<1>2. IInv /\ IInv' /\ [Next]_vars => [Promise!Next]_(Promise!vars)
  <2>. SUFFICES ASSUME IInv, IInv', [Next]_vars PROVE [Promise!Next]_(Promise!vars)
    OBVIOUS
  <2>1. ASSUME NEW n \in 1 .. MaxRows, NEW req \in [0 .. n - 1 -> Ids],
               OpGetRows(n, req)
        PROVE  Promise!Next
    <3>1. req \in Requests
      BY DEF Requests
    <3>2. Promise!Request(req)
      BY <2>1 DEF OpGetRows, Promise!Request
    <3>. QED BY <3>1, <3>2 DEF Promise!Next
  <2>2. ASSUME NEW t \in Threads, Worker(t)
        PROVE  UNCHANGED Promise!vars
    <3>1. running
      BY <2>2 DEF Worker, ThreadStart, SkipRow, DequantTile, ThreadEnd, IInv, IdleInv, TypeOK
    <3>2. running' = running /\ ids' = ids /\ before' = before
      BY <2>2 DEF Worker, ThreadStart, SkipRow, DequantTile, ThreadEnd
    <3>. QED BY <3>1, <3>2 DEF Promise!vars
  <2>3. CASE OpReturn
    <3>1. /\ running /\ running' = FALSE /\ out' = out /\ ids' = ids /\ nr' = nr /\ before' = before
          /\ TypeOK /\ nr \in Nat \ {0}
      BY <2>3 DEF OpReturn, IInv, TypeOK
    <3>2. \A i \in BufRows : Served(i)
      BY <3>1 DEF IInv, IdleInv, Served
    <3>3. out = [i \in BufRows |->
                   IF i \in DOMAIN ids /\ ids[i] \in Rows THEN TableRow(ids[i]) ELSE before[i]]
      BY <3>1, <3>2 DEF Served, TypeOK, InTable, BufRows
    <3>. QED
      BY <3>1, <3>3 DEF Promise!Next, Promise!Return, Promise!Lookup
  <2>4. CASE UNCHANGED vars
    BY <2>4 DEF vars, Promise!vars
  <2>. QED BY <2>1, <2>2, <2>3, <2>4 DEF Next
<1>. QED
  BY <1>1, <1>2, Inductive, PTL DEF SafetySpec, ImplementsPromise, Promise!SafetySpec
================================================================================
