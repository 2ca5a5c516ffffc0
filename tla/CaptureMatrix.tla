------------------------------ MODULE CaptureMatrix -----------------------------
(***************************************************************************)
(* The experiment matrix of scripts/layer_profile/capture_layer_profile.sh *)
(* and which of its logs parse_layer_profile.py then reads.                *)
(*                                                                         *)
(* A session walks the (configuration, mode) pairs forward, capturing      *)
(* several logs of each, then backward to measure the benchmark again.     *)
(* Every log is the redirected output of an adb command: it is emptied     *)
(* when the command starts.  Commands fail without stopping the script     *)
(* (no set -e), the operator may interrupt it at any moment and run it     *)
(* again; the raw directory is never cleaned.                              *)
(***************************************************************************)
EXTENDS Integers, Sequences, SequencesExt

CONSTANTS
  OrderFwd,     \* ORDER_FWD: the pairs [cfg, mode], in pass-1 order
  MaxSessions,  \* bound: runs of the script
  MaxFailures,  \* bound: adb commands that fail, over all sessions
  None          \* a file that does not exist

ASSUME CaptureAssumption ==
  /\ OrderFwd \in Seq([cfg : STRING, mode : {"CPU", "HTP0"}]) /\ Len(OrderFwd) > 0
  /\ MaxSessions \in Nat \ {0}
  /\ MaxFailures \in Nat

Pairs == ToSet(OrderFwd)
Kinds == {"assign", "bench", "bench_pass2", "cpuprof", "htpprof"}

VARIABLES
  pc,        \* "off", "begin" (a command is to start), "busy", "move"
  pass,      \* 1 or 2
  i,         \* index into OrderFwd
  step,      \* the log being captured
  session,   \* sessions started
  raw,       \* the files of $RAW: <<kind, pair>> -> who wrote it, and whether it is good
  env,       \* the session that wrote environment.txt
  failures,  \* commands that failed
  whole,     \* history: the last session ran to its end
  measured   \* history: per pair, the good benchmark measurements of the session

vars == <<pc, pass, i, step, session, raw, env, failures, whole, measured>>

Pair == OrderFwd[i]

\* run_one: the captures of a pair in their order; [ "$2" = HTP0 ] && cap_htp_prof.
Position == [assign |-> 1, bench |-> 2, cpuprof |-> 3, htpprof |-> 4]

StepAfter == [assign |-> "bench", bench |-> "cpuprof", cpuprof |-> "htpprof"]

LastStep(pair) == IF pair.mode = "HTP0" THEN "htpprof" ELSE "cpuprof"

--------------------------------------------------------------------------------
Init ==
  /\ pc = "off" /\ pass = 1 /\ i = 1 /\ step = "assign"
  /\ session = 0
  /\ raw = [f \in Kinds \X Pairs |-> None]
  /\ env = 0
  /\ failures = 0
  /\ whole = FALSE
  /\ measured = [p \in Pairs |-> {}]

\* Mutant of StartSession: environment.txt is kept when it is there, as prompt_255.txt is.
StartKeepsEnv ==
  /\ pc = "off" /\ session < MaxSessions
  /\ session' = session + 1
  /\ env' = IF env = 0 THEN session + 1 ELSE env
  /\ pc' = "begin" /\ pass' = 1 /\ i' = 1 /\ step' = "assign"
  /\ whole' = FALSE
  /\ measured' = [p \in Pairs |-> {}]
  /\ UNCHANGED <<raw, failures>>

\* The operator starts the script; environment.txt is rewritten first.
StartSession ==
  /\ pc = "off" /\ session < MaxSessions
  /\ session' = session + 1
  /\ env' = session + 1
  /\ pc' = "begin" /\ pass' = 1 /\ i' = 1 /\ step' = "assign"
  /\ whole' = FALSE
  /\ measured' = [p \in Pairs |-> {}]
  /\ UNCHANGED <<raw, failures>>

\* ADB shell ... > "$f": the log is emptied, the command runs.
BeginCapture ==
  /\ pc = "begin"
  /\ pc' = "busy"
  /\ raw' = [raw EXCEPT ![<<step, Pair>>] = [session |-> session, pass |-> pass, good |-> FALSE]]
  /\ UNCHANGED <<pass, i, step, session, env, failures, whole, measured>>

\* Where the script goes after a finished capture.
NextStep ==
  IF pass = 2 THEN pc' = "move" /\ UNCHANGED <<pass, i, step>>
  ELSE /\ pc' = "begin"
       /\ IF step # LastStep(Pair)
            THEN step' = StepAfter[step] /\ UNCHANGED <<pass, i>>
            ELSE IF i < Len(OrderFwd)
              THEN step' = "assign" /\ i' = i + 1 /\ UNCHANGED pass
              ELSE step' = "bench" /\ pass' = 2 /\ UNCHANGED i

\* The command ends; a failed one (adb lost, crash on the device) has left an
\* error text in the log, and the script goes on all the same.
EndCapture(good) ==
  /\ pc = "busy"
  /\ good \/ failures < MaxFailures
  /\ failures' = IF good THEN failures ELSE failures + 1
  /\ raw' = [raw EXCEPT ![<<step, Pair>>].good = good]
  /\ measured' = IF step = "bench" /\ good
                   THEN [measured EXCEPT ![Pair] = @ \cup {pass}] ELSE measured
  /\ NextStep
  /\ UNCHANGED <<session, env, whole>>

\* Mutant of MovePass2: cap_bench ... && mv: a failed measurement is not moved.
MoveIfGood ==
  /\ pc = "move"
  /\ raw' = IF raw[<<"bench", Pair>>].good
              THEN [raw EXCEPT ![<<"bench_pass2", Pair>>] = raw[<<"bench", Pair>>], ![<<"bench", Pair>>] = None]
              ELSE raw
  /\ IF i > 1 THEN pc' = "begin" /\ i' = i - 1 /\ UNCHANGED whole
              ELSE pc' = "off" /\ whole' = TRUE /\ UNCHANGED i
  /\ UNCHANGED <<pass, step, session, env, failures, measured>>

\* mv bench_c_m.log bench_c_m_pass2.log; after the first pair of the order the
\* session is over.
MovePass2 ==
  /\ pc = "move"
  /\ raw' = [raw EXCEPT ![<<"bench_pass2", Pair>>] = raw[<<"bench", Pair>>], ![<<"bench", Pair>>] = None]
  /\ IF i > 1 THEN pc' = "begin" /\ i' = i - 1 /\ UNCHANGED whole
              ELSE pc' = "off" /\ whole' = TRUE /\ UNCHANGED i
  /\ UNCHANGED <<pass, step, session, env, failures, measured>>

\* The operator interrupts the script.
Interrupt ==
  /\ pc # "off"
  /\ pc' = "off"
  /\ UNCHANGED <<pass, i, step, session, raw, env, failures, whole, measured>>

Finished == pc = "off" /\ session = MaxSessions /\ UNCHANGED vars

Next ==
  \/ StartSession \/ BeginCapture \/ (\E good \in BOOLEAN : EndCapture(good))
  \/ MovePass2 \/ Interrupt \/ Finished

Spec == Init /\ [][Next]_vars

--------------------------------------------------------------------------------
(***************************************************************************)
(* The parser: glob bench_{cfg}_{mode}*.log, keep the files with a         *)
(* throughput line.                                                        *)
(***************************************************************************)
BenchReadings(p) ==
  {raw[<<k, p>>] : k \in {k \in {"bench", "bench_pass2"} : raw[<<k, p>>] # None /\ raw[<<k, p>>].good}}

--------------------------------------------------------------------------------
Content == [session : 1 .. MaxSessions, pass : {1, 2}, good : BOOLEAN] \cup {None}

TypeOK ==
  /\ pc \in {"off", "begin", "busy", "move"}
  /\ pass \in {1, 2} /\ i \in DOMAIN OrderFwd /\ step \in Kinds
  /\ session \in 0 .. MaxSessions /\ env \in 0 .. MaxSessions
  /\ raw \in [Kinds \X Pairs -> Content]
  /\ failures \in 0 .. MaxFailures /\ whole \in BOOLEAN
  /\ measured \in [Pairs -> SUBSET {1, 2}]

\* A session that ran to its end leaves nothing of an earlier one behind: every
\* log the parser can find, and environment.txt beside it, is of that session,
\* whatever was interrupted or failed before it or in it.
WholeIsFresh ==
  pc = "off" /\ whole =>
    \A f \in Kinds \X Pairs : raw[f] # None => raw[f].session = env

(***************************************************************************)
(* The inductive invariant of WholeIsFresh: a session has left its own log *)
(* wherever it has been.                                                   *)
(***************************************************************************)
Fresh(k, p) == raw[<<k, p>>] # None => raw[<<k, p>>].session = session

\* This session has captured the log k of the j-th pair, or renamed it in pass 2.
Behind(k, j) ==
  IF k = "bench_pass2" THEN pass = 2 /\ i < j
  ELSE pass = 2 \/ j < i \/ (j = i /\ Position[k] < Position[step])

\* Where a running script stands.
AtStep ==
  /\ session > 0 /\ ~whole
  /\ pc = "move" => pass = 2
  /\ IF pass = 2 THEN step = "bench"
                 ELSE step \in DOMAIN Position /\ (step = "htpprof" => Pair.mode = "HTP0")
  /\ pc = "busy" => raw[<<step, Pair>>] \in [session : {session}, pass : {pass}, good : {FALSE}]

\* Everything behind a running script is its own, a finished session's logs all are,
\* and there is no HTP profile of a CPU run.
IInv ==
  /\ TypeOK
  /\ env = session
  /\ \A p \in Pairs : p.mode = "CPU" => raw[<<"htpprof", p>>] = None
  /\ pc # "off" =>
       /\ AtStep
       /\ \A k \in Kinds : \A j \in DOMAIN OrderFwd : Behind(k, j) => Fresh(k, OrderFwd[j])
  /\ WholeIsFresh

\* The benchmark is measured a second time, in reverse order, to even out the
\* thermal bias: after a whole session whose two measurements of a pair succeeded
\* the parser sees both.
BothPassesRead ==
  pc = "off" /\ whole =>
    \A p \in Pairs : measured[p] = {1, 2} =>
      {r.pass : r \in BenchReadings(p)} = {1, 2}
================================================================================
