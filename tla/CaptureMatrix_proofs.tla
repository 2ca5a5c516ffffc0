-------------------------- MODULE CaptureMatrix_proofs -------------------------
(***************************************************************************)
(* A session of capture_layer_profile.sh that ran to its end leaves only   *)
(* its own logs: for every order of configurations and modes, any number   *)
(* of sessions, failures and interruptions.                                *)
(***************************************************************************)
EXTENDS CaptureMatrix, TLAPS

\* The pairs of the order.
LEMMA PairsOfOrder ==
  /\ DOMAIN OrderFwd = 1 .. Len(OrderFwd) /\ Len(OrderFwd) \in Nat \ {0}
  /\ \A j \in DOMAIN OrderFwd : OrderFwd[j] \in Pairs /\ OrderFwd[j].mode \in {"CPU", "HTP0"}
  /\ \A p \in Pairs : p.mode \in {"CPU", "HTP0"} /\ \E j \in DOMAIN OrderFwd : OrderFwd[j] = p
<1>1. Pairs = {OrderFwd[j] : j \in DOMAIN OrderFwd}
  BY DEF Pairs, ToSet
<1>2. DOMAIN OrderFwd = 1 .. Len(OrderFwd) /\ Len(OrderFwd) \in Nat \ {0}
  BY CaptureAssumption
<1>3. ASSUME NEW j \in DOMAIN OrderFwd PROVE OrderFwd[j].mode \in {"CPU", "HTP0"}
  <2>. DEFINE P == [cfg : STRING, mode : {"CPU", "HTP0"}]
  <2>1. OrderFwd \in Seq(P)
    BY CaptureAssumption
  <2>2. OrderFwd[j] \in P
    <3>. HIDE DEF P
    <3>. QED BY <1>2, <2>1
  <2>. QED BY <2>2
<1>. QED BY <1>1, <1>2, <1>3

LEMMA InitIInv == Init => IInv
<1>. SUFFICES ASSUME Init PROVE IInv
  OBVIOUS
<1>1. TypeOK
  <2>1. 1 \in DOMAIN OrderFwd /\ MaxSessions \in Nat /\ MaxFailures \in Nat
    BY PairsOfOrder, CaptureAssumption
  <2>2. raw \in [Kinds \X Pairs -> Content]
    BY DEF Init, Content
  <2>3. measured \in [Pairs -> SUBSET {1, 2}]
    BY DEF Init
  <2>4. step \in Kinds
    BY DEF Init, Kinds
  <2>5. /\ pc = "off" /\ pass = 1 /\ i = 1 /\ session = 0 /\ env = 0 /\ failures = 0
        /\ whole = FALSE
    BY DEF Init
  <2>6. session \in 0 .. MaxSessions /\ env \in 0 .. MaxSessions /\ failures \in 0 .. MaxFailures
    BY <2>1, <2>5
  <2>. QED BY <2>1, <2>2, <2>3, <2>4, <2>5, <2>6 DEF TypeOK
<1>2. \A p \in Pairs : raw[<<"htpprof", p>>] = None
  BY DEF Init, Kinds
<1>. QED BY <1>1, <1>2 DEF Init, IInv, WholeIsFresh

--------------------------------------------------------------------------------
(***************************************************************************)
(* One lemma per action.                                                   *)
(***************************************************************************)
LEMMA StartSessionKeeps ==
  ASSUME IInv, StartSession PROVE IInv'
<1>. USE DEF StartSession, IInv
<1>1. TypeOK'
  <2>1. 1 \in DOMAIN OrderFwd /\ MaxSessions \in Nat
    BY PairsOfOrder, CaptureAssumption
  <2>2. measured' \in [Pairs -> SUBSET {1, 2}]
    OBVIOUS
  <2>3. step' \in Kinds
    BY DEF Kinds
  <2>4. raw' \in [Kinds \X Pairs -> Content] /\ session' \in 0 .. MaxSessions
    BY <2>1 DEF TypeOK
  <2>. QED BY <2>1, <2>2, <2>3, <2>4 DEF TypeOK
<1>2. AtStep'
  BY DEF AtStep, TypeOK, Position
<1>3. ASSUME NEW k \in Kinds, NEW j \in DOMAIN OrderFwd, Behind(k, j)' PROVE FALSE
  BY <1>3, PairsOfOrder DEF Behind, Position, Kinds
<1>. QED BY <1>1, <1>2, <1>3 DEF WholeIsFresh

LEMMA InterruptKeeps ==
  ASSUME IInv, Interrupt PROVE IInv'
<1>1. TypeOK'
  BY DEF IInv, Interrupt, TypeOK, Content
<1>. QED BY <1>1 DEF IInv, Interrupt, AtStep, WholeIsFresh

LEMMA FinishedKeeps ==
  ASSUME IInv, UNCHANGED vars PROVE IInv'
BY DEF IInv, vars, TypeOK, Content, AtStep, Pair, Behind, Fresh, WholeIsFresh

\* A command writes its session into the log.
LEMMA BeginCaptureKeeps ==
  ASSUME IInv, BeginCapture PROVE IInv'
<1>. DEFINE mine == [session |-> session, pass |-> pass, good |-> FALSE]
<1>. USE DEF BeginCapture, IInv
<1>1. Pair \in Pairs /\ step \in Kinds /\ i \in DOMAIN OrderFwd
  BY PairsOfOrder DEF Pair, TypeOK
<1>2. mine \in Content
  BY DEF AtStep, TypeOK, Content
<1>3. \A f \in Kinds \X Pairs : raw'[f] = IF f = <<step, Pair>> THEN mine ELSE raw[f]
  BY <1>1 DEF TypeOK
<1>4. TypeOK'
  BY <1>2, <1>3 DEF TypeOK
<1>5. AtStep'
  BY <1>1, <1>3 DEF AtStep, Pair, TypeOK
<1>6. ASSUME NEW p \in Pairs, p.mode = "CPU" PROVE raw'[<<"htpprof", p>>] = None
  <2>1. <<"htpprof", p>> # <<step, Pair>>
    BY <1>6 DEF AtStep
  <2>. QED BY <1>3, <1>6, <2>1 DEF Kinds
<1>7. ASSUME NEW k \in Kinds, NEW j \in DOMAIN OrderFwd, Behind(k, j)'
      PROVE  Fresh(k, OrderFwd[j])'
  <2>1. Behind(k, j) /\ OrderFwd[j] \in Pairs
    BY <1>7, PairsOfOrder DEF Behind
  <2>. QED BY <1>3, <2>1 DEF Fresh
<1>. QED BY <1>4, <1>5, <1>6, <1>7 DEF WholeIsFresh

LEMMA EndCaptureKeeps ==
  ASSUME IInv, NEW good \in BOOLEAN, EndCapture(good) PROVE IInv'
<1>. DEFINE mine == [session |-> session, pass |-> pass, good |-> good]
<1>. USE DEF EndCapture, IInv
<1>1. Pair \in Pairs /\ step \in Kinds /\ i \in DOMAIN OrderFwd
  BY PairsOfOrder DEF Pair, TypeOK
<1>2. mine \in Content
  BY DEF AtStep, TypeOK, Content
<1>3. \A f \in Kinds \X Pairs : raw'[f] = IF f = <<step, Pair>> THEN mine ELSE raw[f]
  <2>1. raw[<<step, Pair>>] \in [session : {session}, pass : {pass}, good : {FALSE}]
    BY DEF AtStep
  <2>2. raw[<<step, Pair>>] = [session |-> session, pass |-> pass, good |-> FALSE]
    BY <2>1
  <2>3. [raw[<<step, Pair>>] EXCEPT !.good = good] = mine
    BY <2>2
  <2>. QED BY <1>1, <2>3 DEF TypeOK, Kinds
<1>4. TypeOK'
  <2>1. pass' \in {1, 2} /\ i' \in DOMAIN OrderFwd /\ step' \in Kinds /\ pc' \in {"begin", "move"}
    BY <1>1, PairsOfOrder DEF NextStep, TypeOK, AtStep, Position, StepAfter, LastStep, Kinds
  <2>2. raw' \in [Kinds \X Pairs -> Content]
    BY <1>2, <1>3 DEF TypeOK
  <2>3. failures' \in 0 .. MaxFailures
    BY CaptureAssumption DEF TypeOK
  <2>4. measured' \in [Pairs -> SUBSET {1, 2}]
    BY <1>1 DEF TypeOK
  <2>. QED BY <2>1, <2>2, <2>3, <2>4 DEF TypeOK
<1>5. AtStep'
  <2>1. step' \in DOMAIN Position /\ (pass' = 2 => step' = "bench") /\ (pc' = "move" => pass' = 2)
    BY DEF AtStep, NextStep, TypeOK, Position, StepAfter, LastStep
  <2>2. step' = "htpprof" => Pair'.mode = "HTP0"
    BY DEF AtStep, NextStep, TypeOK, Position, StepAfter, LastStep, Pair
  <2>3. session' > 0 /\ ~whole' /\ pc' # "busy"
    BY DEF AtStep, NextStep
  <2>. QED BY <2>1, <2>2, <2>3 DEF AtStep
<1>6. ASSUME NEW p \in Pairs, p.mode = "CPU" PROVE raw'[<<"htpprof", p>>] = None
  <2>1. <<"htpprof", p>> # <<step, Pair>>
    BY <1>6 DEF AtStep
  <2>. QED BY <1>3, <1>6, <2>1 DEF Kinds
<1>7. ASSUME NEW k \in Kinds, NEW j \in DOMAIN OrderFwd, Behind(k, j)'
      PROVE  Fresh(k, OrderFwd[j])'
  <2>. DEFINE p == OrderFwd[j]
  <2>1. p \in Pairs /\ p.mode \in {"CPU", "HTP0"}
    BY PairsOfOrder
  <2>2. CASE Behind(k, j)
    BY <1>3, <2>1, <2>2 DEF Fresh
  <2>3. CASE k = step /\ p = Pair
    BY <1>1, <1>3, <2>3 DEF Fresh
  <2>4. CASE k = "htpprof" /\ p.mode = "CPU"
    BY <1>6, <2>1, <2>4 DEF Fresh
  <2>5. Behind(k, j) \/ (k = step /\ p = Pair) \/ (k = "htpprof" /\ p.mode = "CPU")
    BY <1>1, <1>7, <2>1, PairsOfOrder
    DEF Behind, NextStep, TypeOK, AtStep, Position, StepAfter, LastStep, Kinds, Pair
  <2>. QED BY <2>2, <2>3, <2>4, <2>5
<1>8. pc' # "off"
  BY DEF NextStep
<1>. QED BY <1>4, <1>5, <1>6, <1>7, <1>8 DEF WholeIsFresh

LEMMA MovePass2Keeps ==
  ASSUME IInv, MovePass2 PROVE IInv'
<1>. USE DEF MovePass2, IInv
<1>1. Pair \in Pairs /\ i \in DOMAIN OrderFwd /\ pass = 2 /\ step = "bench"
  BY PairsOfOrder DEF Pair, TypeOK, AtStep
<1>2. \A f \in Kinds \X Pairs :
        raw'[f] = IF f = <<"bench", Pair>> THEN None
                  ELSE IF f = <<"bench_pass2", Pair>> THEN raw[<<"bench", Pair>>] ELSE raw[f]
  BY <1>1 DEF TypeOK, Kinds
<1>3. raw[<<"bench", Pair>>] \in Content /\ None \in Content
  BY <1>1 DEF TypeOK, Content, Kinds
<1>4. TypeOK'
  <2>1. raw' \in [Kinds \X Pairs -> Content]
    BY <1>2, <1>3 DEF TypeOK
  <2>2. i' \in DOMAIN OrderFwd
    BY <1>1, PairsOfOrder
  <2>. QED BY <2>1, <2>2 DEF TypeOK
<1>5. \A p \in Pairs : p.mode = "CPU" => raw'[<<"htpprof", p>>] = None
  BY <1>2 DEF Kinds, TypeOK
<1>6. ASSUME NEW k \in Kinds, NEW j \in DOMAIN OrderFwd, k = "bench_pass2" => i <= j
      PROVE  Fresh(k, OrderFwd[j])'
  <2>. DEFINE p == OrderFwd[j]
  <2>1. p \in Pairs /\ <<k, p>> \in Kinds \X Pairs
    BY PairsOfOrder
  <2>2. Fresh("bench", Pair)
    BY <1>1 DEF Behind, Pair, Kinds
  <2>3. CASE p = Pair /\ k \in {"bench", "bench_pass2"}
    BY <1>2, <2>1, <2>2, <2>3 DEF Fresh
  <2>4. CASE ~(p = Pair /\ k \in {"bench", "bench_pass2"})
    <3>1. Behind(k, j)
      BY <1>1, <1>6, <2>4, PairsOfOrder DEF Behind, Pair
    <3>2. Fresh(k, p)
      BY <3>1
    <3>3. raw'[<<k, p>>] = raw[<<k, p>>] \/ raw'[<<k, p>>] = None
      BY <1>2, <2>1, <2>4
    <3>. QED BY <3>2, <3>3 DEF Fresh
  <2>. QED BY <2>3, <2>4
<1>7. CASE i > 1
  <2>1. AtStep'
    BY <1>1, <1>7 DEF AtStep
  <2>2. ASSUME NEW k \in Kinds, NEW j \in DOMAIN OrderFwd, Behind(k, j)'
        PROVE  Fresh(k, OrderFwd[j])'
    BY <1>1, <1>6, <1>7, <2>2, PairsOfOrder DEF Behind
  <2>. QED BY <1>4, <1>5, <1>7, <2>1, <2>2 DEF WholeIsFresh
<1>8. CASE ~(i > 1)
  <2>1. \A k \in Kinds : \A j \in DOMAIN OrderFwd : Fresh(k, OrderFwd[j])'
    BY <1>1, <1>6, <1>8, PairsOfOrder
  <2>2. ASSUME NEW f \in Kinds \X Pairs, raw'[f] # None PROVE raw'[f].session = env'
    <3>1. PICK k \in Kinds, j \in DOMAIN OrderFwd : f = <<k, OrderFwd[j]>>
      BY PairsOfOrder
    <3>. QED BY <2>1, <2>2, <3>1 DEF Fresh
  <2>. QED BY <1>4, <1>5, <1>8, <2>2 DEF WholeIsFresh
<1>. QED BY <1>7, <1>8

--------------------------------------------------------------------------------
(***************************************************************************)
(* The theorems.                                                           *)
(***************************************************************************)
\* IInv is inductive: at every moment of a session, whatever failed or was
\* interrupted before, the logs behind the script are of this session.
THEOREM Inductive == Spec => []IInv
<1>1. IInv /\ [Next]_vars => IInv'
  BY StartSessionKeeps, BeginCaptureKeeps, EndCaptureKeeps, MovePass2Keeps,
     InterruptKeeps, FinishedKeeps
  DEF Next, Finished
<1>. QED BY InitIInv, <1>1, PTL DEF Spec

\* A session that ran to its end leaves no log of an earlier session in the raw
\* directory, for any order of pairs and however many sessions were cut short.
THEOREM OneSession == Spec => []WholeIsFresh
<1>1. IInv => WholeIsFresh
  BY DEF IInv
<1>. QED BY Inductive, <1>1, PTL
================================================================================
