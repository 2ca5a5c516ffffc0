---------------------------- MODULE LayerProf_proofs ---------------------------
(***************************************************************************)
(* The instrumented thread pool, for any number of threads, nodes and      *)
(* graph executions, every fusion, every set of empty nodes and an abort   *)
(* at any node.                                                            *)
(***************************************************************************)
EXTENDS LayerProf, TLAPS

--------------------------------------------------------------------------------
(***************************************************************************)
(* What the invariant says of one state.                                   *)
(***************************************************************************)
LEMMA Constants ==
  /\ NThreads \in Nat \ {0} /\ NNodes \in Nat \ {0} /\ MaxCalls \in Nat \ {0}
  /\ 0 \in Threads
  /\ \A t \in Threads : t \in Nat
  /\ \A n \in Nodes : n \in Nat /\ n < NNodes
  /\ \A n \in Nat : n < NNodes => n \in Nodes
BY LayerProfAssumption DEF Threads, Nodes

\* A group of fused nodes ends inside the graph.
LEMMA GroupInside ==
  ASSUME TypeOK, NEW n \in Nodes
  PROVE  fuse[n] \in 0 .. 1 /\ n + fuse[n] \in Nodes
BY Constants DEF TypeOK, Fusions

LEMMA AtByPlace ==
  ASSUME NEW t \in Threads
  PROVE  /\ pc[t] = "out" => At(t) = 0
         /\ pc[t] \in {"wait", "log"} => At(t) = node[t] + 1
         /\ pc[t] \in {"top", "work", "end"} => At(t) = node[t]
BY DEF At

\* No thread is beyond the end of the graph.
LEMMA AtRange ==
  ASSUME TypeOK, NEW t \in Threads, ThreadInv(t)
  PROVE  At(t) \in 0 .. NNodes
<1>1. /\ pc[t] \in {"out", "top", "work", "wait", "log", "end"}
      /\ node[t] \in 0 .. NNodes /\ first[t] \in Nodes
  BY DEF TypeOK
<1>2. CASE pc[t] \in {"wait", "log"}
  <2>1. node[t] \in Nodes
    BY <1>1, <1>2, GroupInside DEF ThreadInv
  <2>. QED BY <1>2, <2>1, AtByPlace, Constants
<1>3. CASE pc[t] \notin {"wait", "log"}
  BY <1>1, <1>3, AtByPlace, Constants
<1>. QED BY <1>2, <1>3

\* Both nodes of a group, or its only one, have work if its first has.
LEMMA GroupWorks ==
  ASSUME TypeOK, GroupsHaveWork, NEW n \in Nodes, n \notin empty,
         NEW m \in n .. n + fuse[n]
  PROVE  m \in Nodes /\ m \notin empty
<1>1. fuse[n] \in 0 .. 1 /\ n + fuse[n] \in Nodes /\ n \in Nat
  BY GroupInside, Constants
<1>2. m = n \/ (fuse[n] > 0 /\ m = n + 1 /\ n + fuse[n] = m)
  BY <1>1
<1>. QED BY <1>1, <1>2 DEF GroupsHaveWork

\* A thread that is not at a barrier is the last of all, and no thread has
\* work left before the node it is at, unless that is behind the last group.
LEMMA NobodyBefore ==
  ASSUME IInv, NEW t \in Threads, pc[t] # "wait", At(t) < NNodes,
         NEW u \in Threads, NEW m \in Nodes, m < At(t), m \notin empty
  PROVE  m < At(u) /\ u \in did[m]
<1>1. TypeOK /\ ThreadInv(t) /\ ThreadInv(u) /\ PairInv(t, u) /\ PairInv(u, t)
  BY DEF IInv
<1>2. At(t) \in Nat /\ At(u) \in Nat /\ bar[t] \in Nat /\ bar[u] \in Nat /\ m \in Nat
  BY <1>1, AtRange, Constants DEF TypeOK
<1>3. bar[u] = bar[t] \/ bar[u] = bar[t] + 1
  BY <1>1, <1>2 DEF PairInv, OneBehind
<1>4. m < At(u)
  <2>1. CASE bar[u] = bar[t]
    <3>1. AllEmpty(At(u), At(t))
      BY <1>1, <1>2, <2>1 DEF PairInv, SameStretch
    <3>. QED BY <1>2, <3>1 DEF AllEmpty
  <2>2. CASE bar[u] = bar[t] + 1
    <3>1. pc[u] = "wait" /\ At(t) <= first[u]
      BY <1>1, <2>2 DEF PairInv, OneBehind
    <3>2. first[u] \in Nat /\ node[u] = first[u] + fuse[first[u]] /\ fuse[first[u]] \in Nat
      <4>1. first[u] \in Nodes
        BY <1>1 DEF TypeOK
      <4>2. node[u] = first[u] + fuse[first[u]]
        BY <1>1, <3>1 DEF ThreadInv
      <4>. QED BY <1>1, <4>1, <4>2, GroupInside, Constants
    <3>. QED BY <1>2, <3>1, <3>2, AtByPlace
  <2>. QED BY <1>3, <2>1, <2>2
<1>. QED BY <1>1, <1>4 DEF ThreadInv

\* Where the others are while a thread works on a group: with as many barriers
\* they are not behind the group, unless it is the last; with one more they wait
\* behind the same group.
LEMMA WhileWorking ==
  ASSUME IInv, NEW t \in Threads, pc[t] = "work", NEW u \in Threads
  PROVE  LET s == node[t]
         IN  /\ s \in Nodes /\ s \notin empty /\ At(t) = s
             /\ bar[u] = bar[t] \/ bar[u] = bar[t] + 1
             /\ bar[u] = bar[t] =>
                  \/ At(u) <= s /\ AllEmpty(At(u), s)
                  \/ At(u) = NNodes /\ s + fuse[s] + 1 = NNodes
             /\ bar[u] = bar[t] + 1 =>
                  pc[u] = "wait" /\ first[u] = s /\ At(u) = s + fuse[s] + 1 /\ At(u) < NNodes
<1>. DEFINE s == node[t]
<1>1. TypeOK /\ ThreadInv(t) /\ ThreadInv(u) /\ PairInv(t, u) /\ PairInv(u, t)
  BY DEF IInv
<1>2. s \in Nodes /\ s \notin empty /\ At(t) = s /\ first[u] \in Nodes
  BY <1>1, AtByPlace DEF ThreadInv, TypeOK
<1>3. /\ At(t) \in Nat /\ At(u) \in 0 .. NNodes /\ bar[t] \in Nat /\ bar[u] \in Nat
      /\ s \in Nat /\ s < NNodes /\ first[u] \in Nat
  BY <1>1, <1>2, AtRange, Constants DEF TypeOK
<1>4. bar[u] = bar[t] \/ bar[u] = bar[t] + 1
  BY <1>1, <1>3 DEF PairInv, OneBehind
<1>5. ASSUME bar[u] = bar[t]
      PROVE  \/ At(u) <= s /\ AllEmpty(At(u), s)
             \/ At(u) = NNodes /\ s + fuse[s] + 1 = NNodes
  <2>1. AllEmpty(At(u), s)
    BY <1>1, <1>2, <1>3, <1>5, Constants DEF PairInv, SameStretch
  <2>2. CASE AllEmpty(s, At(u))
    BY <1>2, <1>3, <2>1, <2>2 DEF AllEmpty
  <2>3. CASE At(u) = NNodes /\ FinalFrom(s)
    <3>1. PICK m \in Nodes : /\ s <= m /\ m \notin empty /\ m + fuse[m] + 1 = NNodes
                             /\ AllEmpty(s, m)
      BY <2>3 DEF FinalFrom
    <3>2. m = s
      BY <1>2, <1>3, <3>1, Constants DEF AllEmpty
    <3>. QED BY <2>3, <3>1, <3>2
  <2>. QED BY <1>1, <1>2, <1>5, <2>2, <2>3 DEF PairInv, SameStretch
<1>6. ASSUME bar[u] = bar[t] + 1
      PROVE  pc[u] = "wait" /\ first[u] = s /\ At(u) = s + fuse[s] + 1 /\ At(u) < NNodes
  <2>1. pc[u] = "wait" /\ s <= first[u] /\ AllEmpty(s, first[u])
    BY <1>1, <1>2, <1>6 DEF PairInv, OneBehind
  <2>2. first[u] = s
    BY <1>2, <1>3, <2>1 DEF AllEmpty
  <2>. QED BY <1>1, <2>1, <2>2, AtByPlace DEF ThreadInv
<1>. QED BY <1>2, <1>4, <1>5, <1>6

--------------------------------------------------------------------------------
(***************************************************************************)
(* What a step leaves alone.                                               *)
(***************************************************************************)
LEMMA OtherThread ==
  ASSUME NEW u \in Threads, ThreadInv(u),
         pc'[u] = pc[u], node'[u] = node[u], first'[u] = first[u], bar'[u] = bar[u],
         empty' = empty, fuse' = fuse, active' = active,
         pc[u] = "end" /\ node[u] = abort => node[u] = NNodes \/ node[u] = abort',
         \A m \in Nodes : u \in did[m] => u \in did'[m]
  PROVE  ThreadInv(u)' /\ At(u)' = At(u)
<1>1. At(u)' = At(u)
  BY DEF At
<1>. QED BY <1>1 DEF ThreadInv

\* Threads that stay between the same nodes and barriers keep their distance; only
\* one that no other is behind may leave its barrier.
LEMMA SamePlaces ==
  ASSUME IInv, empty' = empty, fuse' = fuse, bar' = bar,
         \A u \in Threads : At(u)' = At(u),
         \A t, u \in Threads :
           bar[u] = bar[t] + 1 => pc'[u] = pc[u] /\ first'[u] = first[u]
  PROVE  \A t, u \in Threads : PairInv(t, u)'
<1>. SUFFICES ASSUME NEW t \in Threads, NEW u \in Threads PROVE PairInv(t, u)'
  OBVIOUS
<1>1. PairInv(t, u) /\ At(t)' = At(t) /\ At(u)' = At(u)
  BY DEF IInv
<1>2. SameStretch(t, u)' <=> SameStretch(t, u)
  BY <1>1 DEF SameStretch, AllEmpty, FinalFrom
<1>3. bar[u] = bar[t] + 1 /\ OneBehind(t, u) => OneBehind(t, u)'
  BY <1>1 DEF OneBehind, AllEmpty
<1>. QED BY <1>1, <1>2, <1>3 DEF PairInv

\* No thread comes nearer to the node of the abort flag without a step there.
LEMMA SameAbort ==
  ASSUME AbortInv, abort' = abort,
         \A u \in Threads : At(u)' = At(u),
         \A u \in Threads : pc'[u] = "work" => pc[u] = "work" /\ node'[u] = node[u]
  PROVE  AbortInv'
BY Constants DEF AbortInv

\* A step without a line leaves the lines as they are.
LEMMA SameLines ==
  ASSUME log' = log, gcall' = gcall, calls' = calls, active' = active,
         pc'[0] = "out" <=> pc[0] = "out"
  PROVE  CounterInv => CounterInv'
BY DEF CounterInv, Lines

LEMMA SameClock ==
  ASSUME log' = log, opened' = opened
  PROVE  ClockInv => ClockInv'
BY DEF ClockInv, Lines

--------------------------------------------------------------------------------
(***************************************************************************)
(* The actions.                                                            *)
(***************************************************************************)
LEMMA InitInv == Init => IInv
<1>. SUFFICES ASSUME Init PROVE IInv
  OBVIOUS
<1>1. TypeOK
  <2>1. fuse \in Fusions
    BY Constants DEF Init, Fusions
  <2>. QED BY <2>1, Constants DEF Init, TypeOK, Nodes
<1>2. GroupsHaveWork /\ AbortInv
  BY Constants DEF Init, GroupsHaveWork, AbortInv, Nodes
<1>3. Lines = {}
  BY DEF Init, Lines
<1>4. CounterInv /\ ClockInv
  BY <1>3 DEF Init, CounterInv, ClockInv
<1>5. \A t \in Threads : At(t) = 0 /\ bar[t] = 0 /\ pc[t] = "out"
  BY AtByPlace DEF Init
<1>6. \A t \in Threads : ThreadInv(t)
  BY <1>5, Constants DEF ThreadInv
<1>7. \A t, u \in Threads : PairInv(t, u)
  BY <1>5, Constants DEF PairInv, SameStretch, AllEmpty
<1>. QED BY <1>1, <1>2, <1>4, <1>6, <1>7 DEF IInv

LEMMA GraphComputeKeeps == IInv /\ GraphCompute => IInv'
<1>. SUFFICES ASSUME IInv, GraphCompute PROVE IInv'
  OBVIOUS
<1>1. TypeOK'
  <2>1. empty' \subseteq Nodes /\ fuse' \in Fusions
    BY DEF GraphCompute
  <2>2. calls' \in 0 .. MaxCalls
    BY Constants DEF GraphCompute, IInv, TypeOK
  <2>. QED BY <2>1, <2>2, Constants DEF GraphCompute, IInv, TypeOK
<1>2. GroupsHaveWork' /\ AbortInv'
  BY Constants DEF GraphCompute, GroupsHaveWork, AbortInv, Nodes
<1>3. CounterInv' /\ ClockInv'
  <2>1. gcall = calls
    BY DEF GraphCompute, IInv, CounterInv
  <2>2. gcall' = calls' - 1 /\ active' /\ pc'[0] = "out"
    BY <2>1, Constants DEF GraphCompute, IInv, TypeOK
  <2>3. Lines' = Lines /\ opened' = opened
    BY DEF GraphCompute, Lines
  <2>. QED BY <2>2, <2>3 DEF IInv, CounterInv, ClockInv
<1>4. \A t \in Threads : At(t)' = 0 /\ bar'[t] = 0 /\ pc'[t] = "out"
  BY DEF GraphCompute, At
<1>5. \A t \in Threads : ThreadInv(t)'
  BY <1>4, Constants DEF ThreadInv
<1>6. \A t, u \in Threads : PairInv(t, u)'
  BY <1>4, Constants DEF PairInv, SameStretch, AllEmpty
<1>. QED BY <1>1, <1>2, <1>3, <1>5, <1>6 DEF IInv

LEMMA EnterKeeps == ASSUME NEW t \in Threads PROVE IInv /\ Enter(t) => IInv'
<1>. SUFFICES ASSUME IInv, Enter(t) PROVE IInv'
  OBVIOUS
<1>1. /\ gcall' \in 0 .. MaxCalls
      /\ CounterInv'
  <2>1. pc[0] = "out" => gcall = calls - 1
    BY DEF IInv, CounterInv, Enter
  <2>2. gcall' = IF active' /\ pc'[0] = "out" THEN calls' - 1 ELSE calls'
    BY <2>1, Constants DEF IInv, CounterInv, Enter, TypeOK
  <2>3. gcall' \in 0 .. MaxCalls
    BY <2>1, Constants DEF IInv, TypeOK, Enter
  <2>. QED BY <2>2, <2>3 DEF IInv, CounterInv, Enter, Lines
<1>2. TypeOK'
  BY <1>1, Constants DEF Enter, IInv, TypeOK
<1>3. \A u \in Threads : u # t => ThreadInv(u)' /\ At(u)' = At(u)
  BY OtherThread DEF Enter, IInv, TypeOK
<1>4. At(t) = 0 /\ At(t)' = 0
  BY DEF Enter, At, IInv, TypeOK
<1>5. ThreadInv(t)'
  BY <1>4, Constants DEF Enter, IInv, TypeOK, ThreadInv
<1>6. \A v, u \in Threads : bar[u] = bar[v] + 1 => pc'[u] = pc[u] /\ first'[u] = first[u]
  <2>1. \A u \in Threads : pc[u] = "wait" => pc'[u] = pc[u]
    BY DEF Enter, IInv, TypeOK
  <2>. QED BY <2>1 DEF Enter, IInv, PairInv, OneBehind
<1>7. \A v, u \in Threads : PairInv(v, u)'
  BY <1>3, <1>4, <1>6, SamePlaces DEF Enter
<1>8. AbortInv'
  BY <1>3, <1>4, Constants DEF Enter, IInv, TypeOK, AbortInv
<1>. QED BY <1>1, <1>2, <1>3, <1>5, <1>7, <1>8, SameClock DEF IInv, Enter, GroupsHaveWork

LEMMA SkipEmptyKeeps == ASSUME NEW t \in Threads PROVE IInv /\ SkipEmpty(t) => IInv'
<1>. SUFFICES ASSUME IInv, SkipEmpty(t) PROVE IInv'
  OBVIOUS
<1>. DEFINE h == node[t]
<1>1. h \in Nodes /\ h \in empty /\ abort # h /\ pc[t] = "top"
  BY Constants DEF SkipEmpty, InLoop, IInv, TypeOK
<1>2. TypeOK'
  BY <1>1, Constants DEF SkipEmpty, IInv, TypeOK
<1>3. At(t) = h /\ At(t)' = h + 1
  BY <1>1, AtByPlace DEF SkipEmpty, At, IInv, TypeOK
<1>4. \A u \in Threads : u # t => ThreadInv(u)' /\ At(u)' = At(u)
  BY OtherThread DEF SkipEmpty, IInv, TypeOK
<1>5. ThreadInv(t)'
  <2>1. \A m \in Nodes : m < h + 1 => m < h \/ m = h
    BY <1>1, Constants
  <2>2. \A m \in Nodes : m < h + 1 => m \in empty \/ t \in did[m]
    BY <1>1, <1>3, <2>1 DEF IInv, ThreadInv
  <2>3. bar[t] <= h + 1
    BY <1>1, <1>3, Constants DEF IInv, TypeOK, ThreadInv
  <2>. QED BY <1>1, <1>3, <2>2, <2>3 DEF SkipEmpty, ThreadInv, IInv
<1>6. AbortInv'
  <2>. SUFFICES ASSUME abort \in Nodes PROVE AbortInv'
    BY DEF SkipEmpty, AbortInv
  <2>1. t # 0
    BY <1>1, <1>3 DEF IInv, AbortInv
  <2>2. h + 1 <= abort
    BY <1>1, <1>3, Constants DEF IInv, AbortInv
  <2>. QED BY <1>1, <1>3, <1>4, <2>1, <2>2, Constants DEF SkipEmpty, IInv, AbortInv, TypeOK
<1>7. \A v, u \in Threads : PairInv(v, u)'
  <2>. SUFFICES ASSUME NEW v \in Threads, NEW u \in Threads PROVE PairInv(v, u)'
    OBVIOUS
  <2>1. PairInv(v, u) /\ At(v) \in Nat /\ At(u) \in Nat /\ h \in Nat /\ h < NNodes
    BY <1>1, AtRange, Constants DEF IInv
  <2>2. ASSUME SameStretch(v, u) PROVE SameStretch(v, u)'
    <3>1. CASE AllEmpty(At(v), At(u))
      <4>1. AllEmpty(At(v)', At(u)')
        BY <1>1, <1>3, <1>4, <2>1, <3>1, Constants DEF AllEmpty
      <4>. QED BY <4>1 DEF SameStretch, AllEmpty, SkipEmpty
    <3>2. CASE At(u) = NNodes /\ FinalFrom(At(v))
      <4>1. At(u)' = NNodes
        BY <1>3, <1>4, <2>1, <3>2
      <4>2. PICK m \in Nodes : /\ At(v) <= m /\ m \notin empty /\ m + fuse[m] + 1 = NNodes
                               /\ AllEmpty(At(v), m)
        BY <3>2 DEF FinalFrom
      <4>3. At(v)' <= m /\ AllEmpty(At(v)', m)
        BY <1>1, <1>3, <1>4, <2>1, <4>2, Constants DEF AllEmpty
      <4>4. FinalFrom(At(v)')
        BY <4>2, <4>3 DEF FinalFrom
      <4>. QED BY <4>1, <4>4 DEF SameStretch, FinalFrom, AllEmpty, SkipEmpty
    <3>. QED BY <2>2, <3>1, <3>2 DEF SameStretch
  <2>3. ASSUME bar[u] = bar[v] + 1, OneBehind(v, u) PROVE OneBehind(v, u)'
    <3>1. u # t /\ first[u] \notin empty /\ first[u] \in Nodes
      BY <1>1, <2>3 DEF IInv, TypeOK, OneBehind, ThreadInv
    <3>2. At(v)' <= first[u]
      BY <1>1, <1>3, <1>4, <2>1, <2>3, <3>1, Constants DEF OneBehind
    <3>3. AllEmpty(At(v)', first[u])
      BY <1>3, <1>4, <2>1, <2>3, Constants DEF OneBehind, AllEmpty
    <3>. QED BY <2>3, <3>2, <3>3 DEF OneBehind, AllEmpty, SkipEmpty
  <2>. QED BY <2>1, <2>2, <2>3 DEF PairInv, SkipEmpty
<1>8. CounterInv' /\ ClockInv'
  BY SameLines, SameClock DEF SkipEmpty, IInv
<1>. QED BY <1>2, <1>4, <1>5, <1>6, <1>7, <1>8 DEF IInv, SkipEmpty, GroupsHaveWork

LEMMA BeginNodeKeeps == ASSUME NEW t \in Threads PROVE IInv /\ BeginNode(t) => IInv'
<1>. SUFFICES ASSUME IInv, BeginNode(t) PROVE IInv'
  OBVIOUS
<1>. DEFINE s == node[t]
<1>1. s \in Nodes /\ s \notin empty /\ abort # s /\ pc[t] = "top"
  BY Constants DEF BeginNode, InLoop, IInv, TypeOK
<1>2. opened' = {}
  <2>1. CASE t = 0
    <3>1. At(0) = s /\ s < NNodes /\ s \in Nat
      BY <1>1, <2>1, AtByPlace, Constants
    <3>2. ASSUME NEW m \in 0 .. s - 1, m \notin empty PROVE did[m] = Threads
      <4>1. m \in Nodes /\ m < s
        BY <3>1, Constants
      <4>2. \A u \in Threads : u \in did[m]
        BY <1>1, <2>1, <3>1, <3>2, <4>1, NobodyBefore
      <4>. QED BY <4>1, <4>2 DEF IInv, TypeOK
    <3>3. Unfinished(s) = {}
      BY <3>2 DEF Unfinished
    <3>. QED BY <2>1, <3>3 DEF BeginNode
  <2>2. CASE t # 0
    BY <2>2 DEF BeginNode, IInv, ClockInv
  <2>. QED BY <2>1, <2>2
<1>3. TypeOK'
  BY <1>1, <1>2, Constants DEF BeginNode, IInv, TypeOK
<1>4. At(t) = s /\ At(t)' = s /\ pc'[t] = "work"
  BY <1>1, AtByPlace DEF BeginNode, At, IInv, TypeOK
<1>5. \A u \in Threads : u # t => ThreadInv(u)' /\ At(u)' = At(u)
  BY OtherThread DEF BeginNode, IInv, TypeOK
<1>6. ThreadInv(t)'
  BY <1>1, <1>4 DEF BeginNode, IInv, TypeOK, ThreadInv
<1>7. AbortInv'
  <2>. SUFFICES ASSUME abort \in Nodes PROVE AbortInv'
    BY DEF BeginNode, AbortInv
  <2>1. t # 0
    BY <1>1, <1>4 DEF IInv, AbortInv
  <2>2. s < abort
    BY <1>1, <1>4, Constants DEF IInv, AbortInv
  <2>. QED BY <1>4, <1>5, <2>1, <2>2, Constants DEF BeginNode, IInv, AbortInv, TypeOK
<1>8. \A v, u \in Threads : bar[u] = bar[v] + 1 => pc'[u] = pc[u] /\ first'[u] = first[u]
  <2>1. \A u \in Threads : pc[u] = "wait" => pc'[u] = pc[u] /\ first'[u] = first[u]
    BY <1>1 DEF BeginNode, IInv, TypeOK
  <2>. QED BY <2>1 DEF IInv, PairInv, OneBehind
<1>9. \A v, u \in Threads : PairInv(v, u)'
  BY <1>4, <1>5, <1>8, SamePlaces DEF BeginNode
<1>10. CounterInv'
  BY <1>1, <1>4, SameLines DEF BeginNode, IInv, TypeOK
<1>11. ClockInv'
  BY <1>2 DEF BeginNode, IInv, ClockInv, Lines
<1>. QED BY <1>3, <1>5, <1>6, <1>7, <1>9, <1>10, <1>11 DEF IInv, BeginNode, GroupsHaveWork

LEMMA PassBarrierKeeps == ASSUME NEW t \in Threads PROVE IInv /\ PassBarrier(t) => IInv'
<1>. SUFFICES ASSUME IInv, PassBarrier(t) PROVE IInv'
  OBVIOUS
<1>1. TypeOK'
  BY DEF PassBarrier, IInv, TypeOK
<1>2. \A u \in Threads : At(u)' = At(u)
  BY DEF PassBarrier, At, IInv, TypeOK
<1>3. \A u \in Threads : u # t => ThreadInv(u)'
  BY OtherThread DEF PassBarrier, IInv, TypeOK
<1>4. ThreadInv(t)'
  BY <1>2 DEF PassBarrier, IInv, TypeOK, ThreadInv
<1>5. AbortInv'
  BY <1>2, SameAbort DEF PassBarrier, IInv, TypeOK
<1>6. \A v, u \in Threads : bar[u] = bar[v] + 1 => pc'[u] = pc[u] /\ first'[u] = first[u]
  <2>. SUFFICES ASSUME NEW v \in Threads, NEW u \in Threads, bar[u] = bar[v] + 1
                PROVE  u # t /\ first'[u] = first[u]
    BY DEF PassBarrier, IInv, TypeOK
  <2>1. bar[t] \in Nat /\ bar[u] \in Nat /\ bar[v] \in Nat /\ bar[v] >= bar[t]
    BY Constants DEF PassBarrier, IInv, TypeOK
  <2>. QED BY <2>1 DEF PassBarrier
<1>7. \A v, u \in Threads : PairInv(v, u)'
  BY <1>2, <1>6, SamePlaces DEF PassBarrier
<1>8. CounterInv' /\ ClockInv'
  BY SameLines, SameClock DEF PassBarrier, IInv, TypeOK
<1>. QED BY <1>1, <1>3, <1>4, <1>5, <1>7, <1>8 DEF IInv, PassBarrier, GroupsHaveWork

LEMMA LeaveLoopKeeps == ASSUME NEW t \in Threads PROVE IInv /\ LeaveLoop(t) => IInv'
<1>. SUFFICES ASSUME IInv, LeaveLoop(t) PROVE IInv'
  OBVIOUS
<1>1. TypeOK'
  BY DEF LeaveLoop, IInv, TypeOK
<1>2. \A u \in Threads : At(u)' = At(u)
  BY DEF LeaveLoop, At, IInv, TypeOK
<1>3. \A u \in Threads : u # t => ThreadInv(u)'
  BY OtherThread DEF LeaveLoop, IInv, TypeOK
<1>4. ThreadInv(t)'
  <2>1. node[t] = NNodes \/ node[t] = abort
    BY Constants DEF LeaveLoop, InLoop, IInv, TypeOK
  <2>. QED BY <1>2, <2>1 DEF LeaveLoop, IInv, TypeOK, ThreadInv
<1>5. AbortInv'
  BY <1>2, SameAbort DEF LeaveLoop, IInv, TypeOK
<1>6. \A v, u \in Threads : bar[u] = bar[v] + 1 => pc'[u] = pc[u] /\ first'[u] = first[u]
  <2>1. \A u \in Threads : pc[u] = "wait" => pc'[u] = pc[u]
    BY DEF LeaveLoop, IInv, TypeOK
  <2>. QED BY <2>1 DEF LeaveLoop, IInv, PairInv, OneBehind
<1>7. \A v, u \in Threads : PairInv(v, u)'
  BY <1>2, <1>6, SamePlaces DEF LeaveLoop
<1>8. CounterInv' /\ ClockInv'
  BY SameLines, SameClock DEF LeaveLoop, IInv, TypeOK
<1>. QED BY <1>1, <1>3, <1>4, <1>5, <1>7, <1>8 DEF IInv, LeaveLoop, GroupsHaveWork

LEMMA LogNodeKeeps == ASSUME NEW t \in Threads PROVE IInv /\ LogNode(t) => IInv'
<1>. SUFFICES ASSUME IInv, LogNode(t) PROVE IInv'
  OBVIOUS
<1>. DEFINE s == first[t]
            line == [g |-> gcall, dst |-> s, nf |-> fuse[s], call |-> calls,
                     final |-> node[t] + 1 = NNodes,
                     complete |-> \A n \in s .. node[t] : did[n] = Threads,
                     spill |-> opened]
<1>1. /\ pc[t] = "log" /\ s \in Nodes /\ s \notin empty /\ active
      /\ node[t] = s + fuse[s] /\ node[t] \in Nodes /\ fuse[s] \in 0 .. 1
  BY GroupInside DEF LogNode, IInv, TypeOK, ThreadInv
<1>2. At(t) = node[t] + 1 /\ At(t)' = At(t) /\ node[t] + 1 \in 0 .. NNodes
  <2>1. At(t) = node[t] + 1
    BY <1>1, AtByPlace
  <2>2. pc'[t] = "top" /\ node'[t] = node[t] + 1
    BY DEF LogNode, IInv, TypeOK
  <2>3. node[t] + 1 \in 0 .. NNodes
    BY <1>1, Constants
  <2>. QED BY <2>1, <2>2, <2>3 DEF At
<1>3. \A u \in Threads : u # t => ThreadInv(u)' /\ At(u)' = At(u)
  BY OtherThread DEF LogNode, IInv, TypeOK
<1>4. ThreadInv(t)'
  BY <1>1, <1>2 DEF LogNode, IInv, TypeOK, ThreadInv
<1>5. AbortInv'
  BY <1>2, <1>3, SameAbort DEF LogNode, IInv, TypeOK
<1>6. \A v, u \in Threads : bar[u] = bar[v] + 1 => pc'[u] = pc[u] /\ first'[u] = first[u]
  <2>1. \A u \in Threads : pc[u] = "wait" => pc'[u] = pc[u]
    BY <1>1 DEF LogNode, IInv, TypeOK
  <2>. QED BY <2>1 DEF LogNode, IInv, PairInv, OneBehind
<1>7. \A v, u \in Threads : PairInv(v, u)'
  BY <1>2, <1>3, <1>6, SamePlaces DEF LogNode
<1>8. /\ log' \in Seq(Line)
      /\ Lines' \subseteq Lines \cup {line}
      /\ t # 0 => Lines' = Lines
  <2>1. CASE t # 0
    BY <2>1 DEF LogNode, IInv, TypeOK, Lines
  <2>2. CASE t = 0
    <3>1. log' = Append(log, line)
      BY <2>2 DEF LogNode
    <3>2. line \in Line
      BY <1>1, Constants DEF IInv, TypeOK, Line
    <3>3. log \in Seq(Line)
      BY DEF IInv, TypeOK
    <3>. HIDE DEF line
    <3>. QED BY <2>2, <3>1, <3>2, <3>3 DEF Lines
  <2>. QED BY <2>1, <2>2
<1>9. TypeOK'
  BY <1>1, <1>2, <1>8 DEF LogNode, IInv, TypeOK
<1>10. CounterInv'
  <2>1. t = 0 => gcall = calls
    BY <1>1 DEF IInv, CounterInv
  <2>2. \A r \in Lines' : r.g = r.call
    BY <1>8, <2>1 DEF IInv, CounterInv
  <2>3. pc'[0] = "out" <=> pc[0] = "out"
    BY <1>1 DEF LogNode, IInv, TypeOK
  <2>. QED BY <2>2, <2>3 DEF LogNode, IInv, CounterInv
<1>11. ClockInv'
  <2>1. ASSUME t = 0, node[t] + 1 # NNodes, NEW n \in s .. node[t] PROVE did[n] = Threads
    <3>1. n \in Nodes /\ n \notin empty /\ n < At(t) /\ At(t) < NNodes
      BY <1>1, <1>2, <2>1, GroupWorks, Constants DEF IInv
    <3>2. \A u \in Threads : u \in did[n]
      BY <1>1, <3>1, NobodyBefore
    <3>. QED BY <3>1, <3>2 DEF IInv, TypeOK
  <2>2. t = 0 => line.spill = {} /\ (~line.final => line.complete)
    BY <2>1 DEF IInv, ClockInv
  <2>. HIDE DEF line
  <2>3. \A r \in Lines' : r.spill = {} /\ (~r.final => r.complete)
    BY <1>8, <2>2 DEF IInv, ClockInv
  <2>. QED BY <2>3 DEF LogNode, IInv, ClockInv
<1>. QED BY <1>3, <1>4, <1>5, <1>7, <1>9, <1>10, <1>11 DEF IInv, LogNode, GroupsHaveWork

LEMMA ComputeNodeKeeps == ASSUME NEW t \in Threads PROVE IInv /\ ComputeNode(t) => IInv'
<1>. SUFFICES ASSUME IInv, ComputeNode(t) PROVE IInv'
  OBVIOUS
<1>. DEFINE s == node[t]
            last == s + fuse[s]
<1>1. /\ pc[t] = "work" /\ s \in Nodes /\ s \notin empty /\ s = first[t] /\ At(t) = s
      /\ s \in Nat /\ s < NNodes /\ fuse[s] \in 0 .. 1 /\ last \in Nodes /\ last + 1 \in 0 .. NNodes
      /\ bar[t] \in 0 .. NNodes /\ bar[t] <= s /\ active
  <2>1. pc[t] = "work"
    BY DEF ComputeNode
  <2>2. TypeOK /\ ThreadInv(t)
    BY DEF IInv
  <2>3. first[t] \in Nodes /\ bar[t] \in 0 .. NNodes
    BY <2>2 DEF TypeOK
  <2>4. s = first[t] /\ s \notin empty /\ active /\ At(t) = s /\ bar[t] <= s
    BY <2>1, <2>2, AtByPlace DEF ThreadInv
  <2>5. fuse[s] \in 0 .. 1 /\ last \in Nodes
    BY <2>2, <2>3, <2>4, GroupInside
  <2>6. last + 1 \in 0 .. NNodes
    BY <2>5, Constants
  <2>. QED BY <2>1, <2>3, <2>4, <2>5, <2>6, Constants
<1>2. /\ did' = [n \in Nodes |-> IF n \in s .. last THEN did[n] \cup {t} ELSE did[n]]
      /\ node' = [node EXCEPT ![t] = last]
      /\ abort' = abort \/ (t = 0 /\ abort' = last + 1)
      /\ UNCHANGED <<active, empty, fuse, first, gcall, log, calls, opened>>
  BY DEF ComputeNode
<1>3. \/ /\ last + 1 < NNodes /\ pc' = [pc EXCEPT ![t] = "wait"]
         /\ bar' = [bar EXCEPT ![t] = @ + 1]
      \/ /\ last + 1 = NNodes /\ pc' = [pc EXCEPT ![t] = "log"] /\ bar' = bar
  BY <1>1, Constants DEF ComputeNode
<1>. HIDE DEF last
<1>4. /\ \A u \in Threads : u # t => pc'[u] = pc[u] /\ bar'[u] = bar[u] /\ node'[u] = node[u]
      /\ pc'[t] \in {"wait", "log"} /\ node'[t] = last
      /\ bar'[t] \in 0 .. NNodes /\ bar'[t] <= last + 1
  <2>1. pc \in [Threads -> {"out", "top", "work", "wait", "log", "end"}]
        /\ node \in [Threads -> 0 .. NNodes] /\ bar \in [Threads -> 0 .. NNodes]
    BY DEF IInv, TypeOK
  <2>2. /\ \A u \in Threads : u # t => pc'[u] = pc[u] /\ bar'[u] = bar[u] /\ node'[u] = node[u]
        /\ pc'[t] \in {"wait", "log"} /\ node'[t] = last
        /\ bar'[t] = bar[t] \/ (last + 1 < NNodes /\ bar'[t] = bar[t] + 1)
    BY <1>2, <1>3, <2>1
  <2>3. last \in Nat /\ s <= last /\ last < NNodes /\ NNodes \in Nat
    BY <1>1, Constants DEF last
  <2>4. bar[t] \in Nat /\ bar[t] <= s
    BY <1>1
  <2>5. bar'[t] \in 0 .. NNodes /\ bar'[t] <= last + 1
    BY <1>1, <2>2, <2>3, <2>4
  <2>. QED BY <2>2, <2>5
<1>5. At(t)' = last + 1
  BY <1>4 DEF At
<1>6. TypeOK'
  <2>1. did' \in [Nodes -> SUBSET Threads]
    BY <1>2 DEF IInv, TypeOK
  <2>2. abort' \in -1 .. NNodes
    BY <1>1, <1>2, Constants DEF IInv, TypeOK
  <2>3. node' \in [Threads -> 0 .. NNodes]
    BY <1>1, <1>2, Constants DEF IInv, TypeOK
  <2>4. /\ pc' \in [Threads -> {"out", "top", "work", "wait", "log", "end"}]
        /\ bar' \in [Threads -> 0 .. NNodes]
    BY <1>3, <1>4 DEF IInv, TypeOK
  <2>. QED BY <1>2, <2>1, <2>2, <2>3, <2>4 DEF IInv, TypeOK
<1>7. \A u \in Threads : u # t => ThreadInv(u)' /\ At(u)' = At(u)
  <2>. SUFFICES ASSUME NEW u \in Threads, u # t PROVE ThreadInv(u)' /\ At(u)' = At(u)
    OBVIOUS
  <2>1. pc[u] = "end" /\ node[u] = abort => node[u] = NNodes \/ node[u] = abort'
    <3>1. abort \in Nodes => t # 0
      BY <1>1 DEF IInv, AbortInv
    <3>2. node[u] \in 0 .. NNodes
      BY DEF IInv, TypeOK
    <3>. QED BY <1>2, <3>1, <3>2, Constants
  <2>2. \A m \in Nodes : u \in did[m] => u \in did'[m]
    BY <1>2
  <2>. QED BY <1>2, <1>4, <2>1, <2>2, OtherThread DEF IInv
<1>8. ThreadInv(t)'
  <2>1. ASSUME NEW m \in Nodes, m < last + 1 PROVE m \in empty \/ t \in did'[m]
    <3>1. CASE m < s
      BY <1>1, <1>2, <3>1 DEF IInv, ThreadInv
    <3>2. CASE s <= m
      <4>1. m \in s .. last
        BY <1>1, <2>1, <3>2, Constants
      <4>. QED BY <1>2, <4>1
    <3>. QED BY <1>1, <3>1, <3>2, Constants
  <2>. QED BY <1>1, <1>2, <1>3, <1>4, <1>5, <2>1 DEF ThreadInv, IInv, TypeOK, last
<1>9. AbortInv'
  <2>. SUFFICES ASSUME abort' \in Nodes PROVE AbortInv'
    BY DEF AbortInv
  \* The flag is set: nobody is past the barrier after the group.
  <2>1. CASE t = 0 /\ abort' = last + 1
    <3>1. last + 1 < NNodes /\ At(0)' = abort' /\ pc'[0] # "work"
      BY <1>4, <1>5, <2>1, Constants
    <3>2. ASSUME NEW u \in Threads, u # t
          PROVE  At(u)' <= abort' /\ (pc'[u] = "work" => node'[u] < abort')
      <4>1. At(u) \in Nat /\ At(u)' = At(u) /\ (pc[u] = "work" => node[u] = At(u))
        BY <1>7, <3>2, AtRange, AtByPlace DEF IInv
      <4>2. CASE bar[u] = bar[t]
        <5>1. At(u) <= s /\ s < last + 1
          BY <1>1, <3>1, <4>2, WhileWorking DEF last
        <5>. QED BY <1>1, <1>4, <2>1, <3>2, <4>1, <5>1
      <4>3. CASE bar[u] = bar[t] + 1
        <5>1. At(u) = last + 1 /\ pc[u] = "wait"
          BY <1>1, <4>3, WhileWorking DEF last
        <5>. QED BY <1>4, <2>1, <3>2, <4>1, <5>1
      <4>. QED BY <1>1, <4>2, <4>3, WhileWorking
    <3>. QED BY <1>4, <2>1, <3>1, <3>2, Constants DEF AbortInv
  \* It was set before: thread 0 waits behind this group, or farther on.
  <2>2. CASE abort' = abort
    <3>1. t # 0 /\ At(0) = abort /\ At(0)' = abort /\ pc'[0] # "work" /\ s < abort
      BY <1>1, <1>4, <1>7, <2>2, Constants DEF IInv, AbortInv
    <3>2. last + 1 <= abort
      <4>1. CASE bar[0] = bar[t]
        BY <1>1, <2>2, <3>1, <4>1, WhileWorking, Constants
      <4>2. CASE bar[0] = bar[t] + 1
        <5>1. At(0) = last + 1
          BY <1>1, <4>2, WhileWorking, Constants DEF last
        <5>. QED BY <1>1, <3>1, <5>1, Constants
      <4>. QED BY <1>1, <4>1, <4>2, WhileWorking, Constants
    <3>. QED BY <1>4, <1>5, <1>7, <2>2, <3>1, <3>2 DEF IInv, AbortInv
  <2>. QED BY <1>2, <2>1, <2>2
<1>10. \A v, u \in Threads : PairInv(v, u)'
  <2>. SUFFICES ASSUME NEW v \in Threads, NEW u \in Threads PROVE PairInv(v, u)'
    OBVIOUS
  <2>1. CASE v # t /\ u # t
    BY <1>2, <1>4, <1>7, <2>1
       DEF IInv, PairInv, SameStretch, OneBehind, AllEmpty, FinalFrom
  <2>2. CASE v = t /\ u = t
    BY <1>1, <1>4, <1>5, <2>2, Constants DEF PairInv, SameStretch, AllEmpty
  \* t has done the group: the other has it still to do, or waits behind it.
  <2>3. CASE v = t /\ u # t
    <3>1. At(u) \in 0 .. NNodes /\ At(u)' = At(u) /\ bar'[u] = bar[u] /\ bar[u] \in Nat
      BY <1>4, <1>7, <2>3, AtRange, Constants DEF IInv, TypeOK
    <3>2. CASE bar[u] = bar[t]
      <4>1. CASE last + 1 < NNodes
        BY <1>1, <1>3, <2>3, <3>1, <3>2, <4>1 DEF PairInv, IInv, TypeOK
      <4>2. CASE last + 1 = NNodes
        <5>1. AllEmpty(At(t), At(u))'
          BY <1>5, <3>1, <4>2, Constants DEF AllEmpty
        <5>. QED BY <1>1, <1>3, <2>3, <3>1, <3>2, <4>2, <5>1
                 DEF PairInv, SameStretch, AllEmpty
      <4>. QED BY <1>3, <4>1, <4>2
    <3>3. CASE bar[u] = bar[t] + 1
      <4>1. At(u) = last + 1 /\ last + 1 < NNodes
        BY <1>1, <3>3, WhileWorking DEF last
      <4>2. bar'[t] = bar[t] + 1
        BY <1>1, <1>3, <4>1 DEF IInv, TypeOK
      <4>3. SameStretch(v, u)'
        BY <1>1, <1>5, <2>3, <3>1, <4>1, Constants DEF SameStretch, AllEmpty
      <4>. QED BY <1>1, <2>3, <3>1, <3>3, <4>2, <4>3 DEF PairInv
    <3>. QED BY <1>1, <3>2, <3>3, WhileWorking
  <2>4. CASE v # t /\ u = t
    <3>1. At(v) \in 0 .. NNodes /\ At(v)' = At(v) /\ bar'[v] = bar[v] /\ bar[v] \in Nat
      BY <1>4, <1>7, <2>4, AtRange, Constants DEF IInv, TypeOK
    <3>2. CASE bar[v] = bar[t]
      <4>1. CASE last + 1 < NNodes
        <5>1. At(v) <= s /\ AllEmpty(At(v), s)
          BY <1>1, <3>2, <4>1, WhileWorking DEF last
        <5>2. bar'[t] = bar[t] + 1 /\ pc'[t] = "wait" /\ first'[t] = s
          BY <1>1, <1>2, <1>3, <4>1 DEF IInv, TypeOK
        <5>3. OneBehind(v, u)'
          BY <1>2, <2>4, <3>1, <5>1, <5>2 DEF OneBehind, AllEmpty
        <5>. QED BY <1>1, <2>4, <3>1, <3>2, <5>2, <5>3 DEF PairInv
      <4>2. CASE last + 1 = NNodes
        <5>1. CASE At(v) <= s /\ AllEmpty(At(v), s)
          <6>1. FinalFrom(At(v))
            BY <1>1, <4>2, <5>1 DEF FinalFrom, last
          <6>. QED BY <1>1, <1>2, <1>3, <1>5, <2>4, <3>1, <3>2, <4>2, <6>1
                   DEF PairInv, SameStretch, AllEmpty, FinalFrom
        <5>2. CASE At(v) = NNodes
          BY <1>1, <1>2, <1>3, <1>5, <2>4, <3>1, <3>2, <4>2, <5>2, Constants
             DEF PairInv, SameStretch, AllEmpty
        <5>. QED BY <1>1, <3>2, <5>1, <5>2, WhileWorking
      <4>. QED BY <1>3, <4>1, <4>2
    <3>3. CASE bar[v] = bar[t] + 1
      <4>1. At(v) = last + 1 /\ last + 1 < NNodes
        BY <1>1, <3>3, WhileWorking DEF last
      <4>2. bar'[t] = bar[t] + 1
        BY <1>1, <1>3, <4>1 DEF IInv, TypeOK
      <4>3. SameStretch(v, u)'
        BY <1>1, <1>5, <2>4, <3>1, <4>1, Constants DEF SameStretch, AllEmpty
      <4>. QED BY <1>1, <2>4, <3>1, <3>3, <4>2, <4>3 DEF PairInv
    <3>. QED BY <1>1, <3>2, <3>3, WhileWorking
  <2>. QED BY <2>1, <2>2, <2>3, <2>4
<1>11. CounterInv' /\ ClockInv'
  <2>1. pc'[0] = "out" <=> pc[0] = "out"
    BY <1>1, <1>4, Constants
  <2>. QED BY <1>2, <2>1, SameLines, SameClock DEF IInv
<1>. QED BY <1>2, <1>6, <1>7, <1>8, <1>9, <1>10, <1>11 DEF IInv, GroupsHaveWork

LEMMA GraphDoneKeeps == IInv /\ GraphDone => IInv'
<1>. SUFFICES ASSUME IInv, GraphDone PROVE IInv'
  OBVIOUS
<1>1. \A u \in Threads : pc[u] = "end" /\ At(u)' = At(u) /\ pc'[u] = pc[u]
  BY DEF GraphDone, At
<1>2. TypeOK'
  BY DEF GraphDone, IInv, TypeOK
<1>3. \A u \in Threads : ThreadInv(u)'
  BY <1>1 DEF GraphDone, IInv, ThreadInv
<1>4. \A v, u \in Threads : PairInv(v, u)'
  BY <1>1, SamePlaces DEF GraphDone
<1>5. AbortInv'
  BY <1>1, SameAbort DEF GraphDone, IInv
<1>6. CounterInv' /\ ClockInv'
  BY <1>1, Constants, SameClock DEF GraphDone, IInv, CounterInv, Lines
<1>. QED BY <1>2, <1>3, <1>4, <1>5, <1>6 DEF IInv, GraphDone, GroupsHaveWork

--------------------------------------------------------------------------------
(***************************************************************************)
(* The theorems.                                                           *)
(***************************************************************************)

\* How far the threads can be apart, what is behind each of them, and what the
\* abort flag and the execution counter say, at every moment of every execution.
THEOREM Inductive == SafetySpec => []IInv
<1>1. IInv /\ [Next]_vars => IInv'
  <2>. SUFFICES ASSUME IInv, [Next]_vars PROVE IInv'
    OBVIOUS
  <2>1. CASE GraphCompute
    BY <2>1, GraphComputeKeeps
  <2>2. ASSUME NEW t \in Threads, Thread(t) PROVE IInv'
    BY <2>2, EnterKeeps, SkipEmptyKeeps, BeginNodeKeeps, ComputeNodeKeeps,
       PassBarrierKeeps, LogNodeKeeps, LeaveLoopKeeps DEF Thread
  <2>3. CASE GraphDone
    BY <2>3, GraphDoneKeeps
  <2>4. CASE UNCHANGED vars
    <3>1. \A u \in Threads : At(u)' = At(u)
      BY <2>4 DEF vars, At
    <3>2. \A u \in Threads : ThreadInv(u)'
      BY <2>4, <3>1 DEF vars, IInv, ThreadInv
    <3>3. \A v, u \in Threads : PairInv(v, u)'
      BY <2>4, <3>1, SamePlaces DEF vars
    <3>. QED BY <2>4, <3>1, <3>2, <3>3, SameAbort, SameLines, SameClock
             DEF vars, IInv, TypeOK, GroupsHaveWork
  <2>. QED BY <2>1, <2>2, <2>3, <2>4 DEF Next, Finished
<1>. QED BY InitInv, <1>1, PTL DEF SafetySpec

\* A time that a barrier ends covers all threads' work on the node and the nodes
\* fused with it (the barrier before the patch's printf).
THEOREM TimesComplete == SafetySpec => []TimingComplete
<1>1. IInv => TimingComplete
  BY DEF IInv, ClockInv, TimingComplete
<1>. QED BY Inductive, <1>1, PTL

\* No thread works on an earlier node when lp_t0 is taken.
THEOREM TimesExclusive == SafetySpec => []TimingExclusive
<1>1. IInv => TimingExclusive
  BY DEF IInv, ClockInv, TimingExclusive
<1>. QED BY Inductive, <1>1, PTL

\* Lines have the same g exactly if the same graph execution printed them.
THEOREM GroupsTellCalls == SafetySpec => []GroupsAreCalls
<1>1. IInv => GroupsAreCalls
  BY DEF IInv, CounterInv, GroupsAreCalls
<1>. QED BY Inductive, <1>1, PTL

\* The abort flag is one node for all; a thread one barrier ahead still waits.
LEMMA Leaving == IInv => LeaveTogether
<1>. SUFFICES ASSUME IInv, NEW t \in Threads, NEW u \in Threads, pc[t] = "end"
              PROVE  /\ pc[u] = "end" => node[t] = node[u]
                     /\ pc[u] = "wait" => bar[u] <= bar[t]
  BY DEF LeaveTogether
<1>1. node[t] \in 0 .. NNodes /\ At(t) = node[t] /\ (node[t] = NNodes \/ node[t] = abort)
  BY AtByPlace DEF IInv, TypeOK, ThreadInv
<1>2. abort \in Nodes => At(t) <= abort /\ At(u) <= abort
  BY DEF IInv, AbortInv
<1>3. ASSUME pc[u] = "end" PROVE node[t] = node[u]
  <2>1. node[u] \in 0 .. NNodes /\ At(u) = node[u] /\ (node[u] = NNodes \/ node[u] = abort)
    BY <1>3, AtByPlace DEF IInv, TypeOK, ThreadInv
  <2>. QED BY <1>1, <1>2, <2>1, Constants
<1>4. ASSUME pc[u] = "wait", ~(bar[u] <= bar[t]) PROVE FALSE
  <2>1. bar[u] = bar[t] + 1
    BY <1>4, Constants DEF IInv, TypeOK, PairInv
  <2>2. node[t] <= first[u]
    BY <1>1, <2>1 DEF IInv, PairInv, OneBehind
  <2>3. first[u] \in Nodes /\ fuse[first[u]] \in 0 .. 1 /\ At(u) = first[u] + fuse[first[u]] + 1
    BY <1>4, AtByPlace, GroupInside DEF IInv, TypeOK, ThreadInv
  <2>. QED BY <1>1, <1>2, <2>2, <2>3, Constants
<1>. QED BY <1>3, <1>4

\* With or without an abort, all threads leave the loop at the same node, and
\* none of them waits at a barrier that one that has left did not arrive at.
THEOREM LeavingTogether == SafetySpec => []LeaveTogether
BY Inductive, Leaving, PTL

\* While a graph is executed, all threads have left the loop or one is in it that
\* no barrier holds.
SomeoneRuns ==
  active => \/ \A t \in Threads : pc[t] = "end"
            \/ \E t \in Threads : /\ pc[t] # "end"
                                  /\ pc[t] = "wait" => \A u \in Threads : bar[u] >= bar[t]

\* The pool never stands still, however many threads it has: of two barriers
\* threads can wait at, the earlier one is open.
THEOREM NoStandstill == SafetySpec => []SomeoneRuns
<1>1. IInv => SomeoneRuns
  <2>. SUFFICES ASSUME IInv, NEW t \in Threads, pc[t] # "end",
                       \A v \in Threads : pc[v] # "end" =>
                         pc[v] = "wait" /\ \E u \in Threads : ~(bar[u] >= bar[v])
                PROVE  FALSE
    BY DEF SomeoneRuns
  <2>1. \A v \in Threads : bar[v] \in Nat
    BY Constants DEF IInv, TypeOK
  <2>2. PICK u \in Threads : ~(bar[u] >= bar[t])
    OBVIOUS
  <2>3. bar[t] = bar[u] + 1 /\ pc[t] = "wait"
    BY <2>1, <2>2 DEF IInv, PairInv
  <2>4. pc[u] # "end"
    BY <2>1, <2>3, Leaving DEF LeaveTogether
  <2>5. PICK v \in Threads : ~(bar[v] >= bar[u])
    BY <2>4
  <2>6. bar[t] <= bar[v] + 1
    BY DEF IInv, PairInv
  <2>. QED BY <2>1, <2>3, <2>5, <2>6
<1>. QED BY Inductive, <1>1, PTL
================================================================================
