--------------------------- MODULE BenchmarkProofs ---------------------------
(***************************************************************************)
(* Theorems about a benchmark run, for every set of requests, every number *)
(* of repetitions and every queue: what it leaves behind, what it writes,  *)
(* what becomes of a cancellation, and that it ends.                       *)
(***************************************************************************)
EXTENDS Benchmark, FiniteSetTheorems, TLAPS

Phases == {"new", "waiting", "serving", "done"}
Answers == (Statuses \ {"REJECTED"}) \cup {"none"}

\* The main task, the gate, the sampler and the cancellation move in step.
MainMatches ==
    /\ main \in {"gather", "teardown"} => gate = "open"
    /\ main \in {"close", "leave", "done"} => gate = "shut"
    /\ sampler = "on" => main \notin {"leave", "done"}
    /\ sampler = "stopping" => main = "leave"
    /\ main \in {"ready", "leave", "done"} => stop # "asked"
    /\ main \in {"ready", "gather"} => fate = "ok"
    /\ main = "teardown" => fate # "ok"
    /\ stop = "thrown" => fate # "ok"
    /\ stop = "swallowed" => main \in {"leave", "done"}
    /\ written => main = "done" /\ fate = "ok"

\* Nothing waits behind a shut gate, and only what is being served has a
\* backend task that lives.
CallsMatch ==
    /\ gate = "shut" => \A r \in Reqs : phase[r] # "waiting"
    /\ \A r \in Reqs : CallLive(r) => phase[r] = "serving"
    /\ main \in {"leave", "done"} => \A r \in Reqs : phase[r] # "serving"

\* A submission is over before the queue is closed. Unless the main task is
\* cancelled, it is cancelled at most once, and its request is over with it.
TasksMatch ==
    /\ main \in {"close", "leave", "done"} => \A r \in Reqs : TaskOver(r)
    /\ main = "close" /\ stop # "thrown" => \A r \in Reqs : phase[r] # "serving"
    /\ stop = "no" /\ main \in {"gather", "teardown"} =>
          \A r \in Reqs : /\ task[r] = "early" => phase[r] = "new"
                          /\ task[r] = "drain" => r \notin asked
                          /\ TaskOver(r) => phase[r] \in {"new", "done"}
    /\ stop = "no" /\ main = "gather" =>
          asked = {} /\ \A r \in Reqs : task[r] # "drain"

\* As long as nothing has gone wrong, every repetition so far has its records.
RecordsMatch ==
    /\ main = "gather" => rep >= 1 /\ \A n \in 1 .. rep - 1, r \in Reqs : <<n, r>> \in records
    /\ main \notin {"gather", "teardown"} /\ fate = "ok"
       => \A n \in 1 .. rep, r \in Reqs : <<n, r>> \in records
    /\ main \in {"leave", "done"} /\ fate = "ok" => rep = Repetitions

BenchInv == TypeOK /\ MainMatches /\ CallsMatch /\ TasksMatch /\ RecordsMatch

-----------------------------------------------------------------------------
(* What the operations of the queue do to it.                              *)

\* The contract settles the waiting list: only requests that wait, and those of
\* w and `over', change.
LEMMA SettleShape ==
    ASSUME TypeOK, NEW w \in SUBSET Reqs, NEW over \in SUBSET Reqs, NEW late, NEW start,
           Queue!Settle(w, over, late, start), w \cap over = {}
    PROVE  /\ phase' \in [Reqs -> Phases] /\ answer' \in [Reqs -> Answers]
           /\ \A q \in Reqs : /\ q \notin w \cup over => phase'[q] = phase[q]
                              /\ q \in over => phase'[q] = "done"
                              /\ q \in w => phase'[q] \in {"waiting", "serving", "done"}
<1>1. /\ late \cup start \subseteq w
      /\ phase' = [q \in Reqs |-> CASE q \in w \ (late \cup start) -> "waiting"
                                    [] q \in start -> "serving"
                                    [] q \in late \cup over -> "done"
                                    [] OTHER -> phase[q]]
  BY DEF Queue!Settle
<1>2. PICK f \in [over -> {"SUCCESS", "ERROR", "TIMEOUT", "CANCELLED"}] :
         answer' = [q \in Reqs |-> CASE q \in over -> f[q]
                                     [] q \in late -> "TIMEOUT"
                                     [] OTHER -> answer[q]]
  BY DEF Queue!Settle
<1>3. \A q \in Reqs : /\ q \in w => phase'[q] \in {"waiting", "serving", "done"}
                      /\ q \in over => phase'[q] = "done"
                      /\ q \notin w \cup over => phase'[q] = phase[q]
  BY <1>1
<1>4. phase' \in [Reqs -> Phases]
  BY <1>1 DEF TypeOK, Phases
<1>5. answer' \in [Reqs -> Answers]
  BY <1>2 DEF TypeOK, Answers, Statuses
<1>. QED  BY <1>3, <1>4, <1>5

LEMMA AcceptShape ==
    ASSUME TypeOK, NEW r \in Reqs, Queue!Accept(r)
    PROVE  /\ gate = "open" /\ gate' = gate /\ phase[r] = "new"
           /\ phase' \in [Reqs -> Phases] /\ answer' \in [Reqs -> Answers]
           /\ \A q \in Reqs :
                 /\ q # r /\ phase[q] # "waiting" => phase'[q] = phase[q]
                 /\ q = r \/ phase[q] = "waiting"
                    => phase'[q] \in {"waiting", "serving", "done"}
<1>1. PICK late, start : Queue!Settle(Queue!In("waiting") \cup {r}, {}, late, start)
  BY DEF Queue!Accept
<1>2. /\ Queue!In("waiting") \cup {r} \in SUBSET Reqs
      /\ \A q \in Reqs : q \in Queue!In("waiting") <=> phase[q] = "waiting"
  BY DEF Queue!In
<1>. QED  BY <1>1, <1>2, SettleShape DEF Queue!Accept

LEMMA FinishShape ==
    ASSUME TypeOK, NEW r \in Reqs, Queue!Finish(r)
    PROVE  /\ gate' = gate /\ phase[r] = "serving" /\ phase'[r] = "done"
           /\ phase' \in [Reqs -> Phases] /\ answer' \in [Reqs -> Answers]
           /\ \A q \in Reqs :
                 /\ q # r /\ phase[q] # "waiting" => phase'[q] = phase[q]
                 /\ phase[q] = "waiting" => phase'[q] \in {"waiting", "serving", "done"}
<1>1. PICK late, start : Queue!Settle(Queue!In("waiting"), {r}, late, start)
  BY DEF Queue!Finish
<1>2. /\ Queue!In("waiting") \in SUBSET Reqs
      /\ \A q \in Reqs : q \in Queue!In("waiting") <=> phase[q] = "waiting"
      /\ Queue!In("waiting") \cap {r} = {}
  BY DEF Queue!In, Queue!Finish
<1>. QED  BY <1>1, <1>2, SettleShape DEF Queue!Finish

LEMMA GiveUpShape ==
    ASSUME TypeOK, NEW r \in Reqs, Queue!GiveUp(r)
    PROVE  /\ gate' = gate /\ phase[r] = "waiting"
           /\ phase' = [phase EXCEPT ![r] = "done"]
           /\ phase' \in [Reqs -> Phases] /\ answer' \in [Reqs -> Answers]
<1>1. gate' = gate /\ phase[r] = "waiting"
  BY DEF Queue!GiveUp, Queue!In
<1>2. phase \in [Reqs -> Phases] /\ answer \in [Reqs -> Answers]
  BY DEF TypeOK, Phases, Answers
<1>3. PICK status \in {"TIMEOUT", "CANCELLED"} : Queue!Drop({r}, status)
  BY DEF Queue!GiveUp
<1>4. "done" \in Phases /\ status \in Answers
  BY DEF Phases, Answers, Statuses
<1>5. phase' = [phase EXCEPT ![r] = "done"]
  BY <1>2, <1>3 DEF Queue!Drop
<1>6. answer' = [q \in Reqs |-> IF q = r THEN status ELSE answer[q]]
  BY <1>3 DEF Queue!Drop
<1>. QED  BY <1>1, <1>2, <1>4, <1>5, <1>6

LEMMA ShutShape ==
    ASSUME TypeOK, Queue!Shut
    PROVE  /\ gate' = "shut"
           /\ phase' \in [Reqs -> Phases] /\ answer' \in [Reqs -> Answers]
           /\ \A q \in Reqs : phase'[q] = IF phase[q] = "waiting" THEN "done" ELSE phase[q]
BY DEF Queue!Shut, Queue!Drop, Queue!In, TypeOK, Phases, Answers, Statuses
-----------------------------------------------------------------------------
(* The invariant is inductive.                                             *)

\* The backend tasks after a step of the queue: new ones where a request has got
\* a slot.
LEMMA CallsShape ==
    ASSUME NEW c \in [Reqs -> CallStates], Calls(c)
    PROVE  /\ call' \in [Reqs -> CallStates]
           /\ \A q \in Reqs : IF phase'[q] = "serving" /\ phase[q] # "serving"
                             THEN call'[q] = "new" ELSE call'[q] = c[q]
BY DEF Calls, CallStates

LEMMA CutShape ==
    \A c \in CallStates : /\ Cut(c) \in CallStates
                          /\ Cut(c) \in {"new", "doomed", "open", "stopping"}
                             => c \in {"new", "doomed", "open", "stopping"}
BY DEF Cut, CallStates

\* A step of anything but the main task and the sampler.
LEMMA SideStep ==
    ASSUME BenchInv, TypeOK', CallsMatch', TasksMatch', UNCHANGED <<gate, runVars>>
    PROVE  BenchInv'
BY DEF BenchInv, MainMatches, RecordsMatch, runVars

LEMMA CallStepKeeps ==
    ASSUME BenchInv, NEW r \in Reqs, CallStep(r)
    PROVE  BenchInv'
<1>1. PICK from \in {"new", "doomed", "open", "stopping"}, to \in CallStates :
         CallGoes(r, from, to)
  BY DEF CallStep, CallStarts, CallSpeaks, CallEnds, CallStops, CallStates
<1>2. /\ call' = [call EXCEPT ![r] = to] /\ call[r] = from
      /\ UNCHANGED <<queueVars, task, asked, runVars>>
  BY <1>1 DEF CallGoes
<1>3. telemetry' \in [Reqs -> Telemetry]
  <2>1. CASE CallStarts(r)
    <3>1. [of |-> rep, spoke |-> FALSE] \in [of : 0 .. Repetitions, spoke : BOOLEAN]
      BY DEF BenchInv, TypeOK
    <3>. QED  BY <2>1, <3>1 DEF CallStarts, BenchInv, TypeOK, Telemetry
  <2>2. CASE CallSpeaks(r)
    <3>1. telemetry[r] \in [of : 0 .. Repetitions, spoke : BOOLEAN]
      BY DEF BenchInv, TypeOK, Telemetry
    <3>2. [telemetry[r] EXCEPT !.spoke = TRUE] \in [of : 0 .. Repetitions, spoke : BOOLEAN]
      BY <3>1
    <3>3. telemetry' = [telemetry EXCEPT ![r] = [telemetry[r] EXCEPT !.spoke = TRUE]]
      BY <2>2 DEF CallSpeaks
    <3>. QED  BY <3>2, <3>3 DEF BenchInv, TypeOK, Telemetry
  <2>3. CASE CallEnds(r) \/ CallStops(r)
    BY <2>3 DEF CallEnds, CallStops, BenchInv, TypeOK
  <2>. QED  BY <2>1, <2>2, <2>3 DEF CallStep
<1>4. TypeOK'
  BY <1>2, <1>3 DEF BenchInv, TypeOK, queueVars, runVars
<1>5. CallsMatch'
  BY <1>2 DEF BenchInv, TypeOK, CallsMatch, CallLive, queueVars, runVars
<1>6. TasksMatch'
  BY <1>2 DEF BenchInv, TasksMatch, TaskOver, queueVars, runVars
<1>. QED  BY <1>2, <1>4, <1>5, <1>6, SideStep DEF queueVars

LEMMA QueueFinishesKeeps ==
    ASSUME BenchInv, NEW r \in Reqs, QueueFinishes(r)
    PROVE  BenchInv'
<1>1. /\ gate' = gate /\ phase[r] = "serving" /\ phase'[r] = "done"
      /\ phase' \in [Reqs -> Phases] /\ answer' \in [Reqs -> Answers]
      /\ \A q \in Reqs :
            /\ q # r /\ phase[q] # "waiting" => phase'[q] = phase[q]
            /\ phase[q] = "waiting" => phase'[q] \in {"waiting", "serving", "done"}
  BY FinishShape DEF QueueFinishes, BenchInv
<1>2. ~CallLive(r) /\ UNCHANGED <<telemetry, task, asked, runVars>>
  BY DEF QueueFinishes
<1>3. /\ call' \in [Reqs -> CallStates]
      /\ \A q \in Reqs : IF phase'[q] = "serving" /\ phase[q] # "serving"
                        THEN call'[q] = "new" ELSE call'[q] = call[q]
  BY CallsShape DEF QueueFinishes, BenchInv, TypeOK
<1>4. TypeOK'
  BY <1>1, <1>2, <1>3 DEF BenchInv, TypeOK, Phases, Answers, runVars
<1>5. CallsMatch'
  BY <1>1, <1>2, <1>3 DEF BenchInv, CallsMatch, CallLive, runVars
<1>6. TasksMatch'
  BY <1>1, <1>2 DEF BenchInv, MainMatches, CallsMatch, TasksMatch, TaskOver, runVars
<1>. QED  BY <1>1, <1>2, <1>4, <1>5, <1>6, SideStep

LEMMA QueueTimesOutKeeps ==
    ASSUME BenchInv, NEW r \in Reqs, QueueTimesOut(r)
    PROVE  BenchInv'
<1>1. UNCHANGED <<telemetry, task, asked, runVars>>
  BY DEF QueueTimesOut
<1>2. CASE Queue!GiveUp(r) /\ UNCHANGED call
  <2>1. /\ gate' = gate /\ phase[r] = "waiting" /\ phase' = [phase EXCEPT ![r] = "done"]
        /\ phase' \in [Reqs -> Phases] /\ answer' \in [Reqs -> Answers]
    BY <1>2, GiveUpShape DEF BenchInv
  <2>2. TypeOK'
    BY <1>1, <1>2, <2>1 DEF BenchInv, TypeOK, Phases, Answers, runVars
  <2>3. CallsMatch'
    BY <1>1, <1>2, <2>1 DEF BenchInv, TypeOK, CallsMatch, CallLive, runVars
  <2>4. TasksMatch'
    BY <1>1, <1>2, <2>1 DEF BenchInv, TypeOK, TasksMatch, TaskOver, runVars
  <2>. QED  BY <1>1, <2>1, <2>2, <2>3, <2>4, SideStep
<1>3. CASE /\ phase[r] = "serving" /\ UNCHANGED queueVars
           /\ call' = [call EXCEPT ![r] = Cut(@)]
  <2>2. TypeOK'
    BY <1>1, <1>3, CutShape DEF BenchInv, TypeOK, queueVars, runVars
  <2>3. CallsMatch'
    BY <1>1, <1>3 DEF BenchInv, TypeOK, CallsMatch, CallLive, queueVars, runVars
  <2>4. TasksMatch'
    BY <1>1, <1>3 DEF BenchInv, TasksMatch, TaskOver, queueVars, runVars
  <2>. QED  BY <1>1, <1>3, <2>2, <2>3, <2>4, SideStep DEF queueVars
<1>. QED  BY <1>2, <1>3 DEF QueueTimesOut

\* A submission that only moves on: its request and its call stay as they are.
LEMMA TaskMoves ==
    ASSUME BenchInv, NEW r \in Reqs, NEW from \in TaskStates, NEW to \in TaskStates,
           TaskGoes(r, from, to), UNCHANGED <<queueVars, call>>, asked' \subseteq asked,
           from \notin {"returned", "failed", "cancelled"},
           to \notin {"drain", "early"},
           from = "drain" \/ from = "early" \/ phase[r] \in {"new", "done"},
           from = "drain" /\ stop = "no" => phase[r] = "done"
    PROVE  BenchInv'
<1>1. /\ task' = [task EXCEPT ![r] = to] /\ task[r] = from
      /\ UNCHANGED <<queueVars, call, telemetry, runVars>>
  BY DEF TaskGoes
<1>2. TypeOK'
  BY <1>1 DEF BenchInv, TypeOK, queueVars, runVars
<1>3. CallsMatch'
  BY <1>1 DEF BenchInv, CallsMatch, CallLive, queueVars, runVars
<1>4. main \in {"close", "leave", "done"} => \A q \in Reqs : task[q] \in {"returned", "failed", "cancelled"}
  BY DEF BenchInv, TasksMatch, TaskOver
<1>5. TasksMatch'
  BY <1>1, <1>4 DEF BenchInv, TypeOK, TasksMatch, TaskOver, queueVars, runVars
<1>. QED  BY <1>1, <1>2, <1>3, <1>5, SideStep DEF queueVars

LEMMA SubmitKeeps ==
    ASSUME BenchInv, NEW r \in Reqs, Submit(r)
    PROVE  BenchInv'
<1>1. CASE TaskGoes(r, "early", "returned") /\ UNCHANGED <<queueVars, call, asked>>
  BY <1>1, TaskMoves DEF TaskStates
<1>2. CASE /\ TaskGoes(r, "early", "inside") /\ Queue!Accept(r) /\ Calls(call)
           /\ UNCHANGED asked
  <2>1. /\ gate = "open" /\ gate' = gate /\ phase[r] = "new"
        /\ phase' \in [Reqs -> Phases] /\ answer' \in [Reqs -> Answers]
        /\ \A q \in Reqs :
              /\ q # r /\ phase[q] # "waiting" => phase'[q] = phase[q]
              /\ q = r \/ phase[q] = "waiting"
                 => phase'[q] \in {"waiting", "serving", "done"}
    BY <1>2, AcceptShape DEF BenchInv
  <2>2. /\ task' = [task EXCEPT ![r] = "inside"] /\ task[r] = "early"
        /\ UNCHANGED <<telemetry, asked, runVars>>
    BY <1>2 DEF TaskGoes
  <2>3. /\ call' \in [Reqs -> CallStates]
        /\ \A q \in Reqs : IF phase'[q] = "serving" /\ phase[q] # "serving"
                          THEN call'[q] = "new" ELSE call'[q] = call[q]
    BY <1>2, CallsShape DEF BenchInv, TypeOK
  <2>4. TypeOK'
    BY <2>1, <2>2, <2>3 DEF BenchInv, TypeOK, TaskStates, Phases, Answers, runVars
  <2>5. main \notin {"close", "leave", "done"}
    BY <2>1 DEF BenchInv, MainMatches
  <2>6. CallsMatch'
    BY <2>1, <2>2, <2>3, <2>5 DEF BenchInv, CallsMatch, CallLive, runVars
  <2>7. TasksMatch'
    BY <2>1, <2>2, <2>5 DEF BenchInv, TypeOK, TasksMatch, TaskOver, runVars
  <2>. QED  BY <2>1, <2>2, <2>4, <2>6, <2>7, SideStep
<1>. QED  BY <1>1, <1>2 DEF Submit

LEMMA SubmissionCancelledKeeps ==
    ASSUME BenchInv, NEW r \in Reqs, SubmissionCancelled(r)
    PROVE  BenchInv'
<1>0. r \in asked /\ asked' = asked \ {r}
  BY DEF SubmissionCancelled
<1>1. CASE /\ TaskGoes(r, "early", "cancelled") /\ UNCHANGED <<queueVars, call>>
  BY <1>0, <1>1, TaskMoves DEF TaskStates
<1>2. CASE /\ phase[r] = "done" /\ TaskGoes(r, "inside", "cancelled")
           /\ UNCHANGED <<queueVars, call>>
  BY <1>0, <1>2, TaskMoves DEF TaskStates
<1>3. CASE /\ phase[r] = "waiting" /\ TaskGoes(r, "inside", "cancelled")
           /\ Queue!GiveUp(r) /\ UNCHANGED call
  <2>1. /\ gate' = gate /\ phase[r] = "waiting" /\ phase' = [phase EXCEPT ![r] = "done"]
        /\ phase' \in [Reqs -> Phases] /\ answer' \in [Reqs -> Answers]
    BY <1>3, GiveUpShape DEF BenchInv
  <2>2. /\ task' = [task EXCEPT ![r] = "cancelled"] /\ task[r] = "inside"
        /\ UNCHANGED <<telemetry, runVars>>
    BY <1>3 DEF TaskGoes
  <2>3. TypeOK'
    BY <1>0, <1>3, <2>1, <2>2 DEF BenchInv, TypeOK, TaskStates, Phases, Answers, runVars
  <2>4. CallsMatch'
    BY <1>3, <2>1, <2>2 DEF BenchInv, TypeOK, CallsMatch, CallLive, runVars
  <2>5. TasksMatch'
    BY <1>0, <1>3, <2>1, <2>2 DEF BenchInv, TypeOK, TasksMatch, TaskOver, runVars
  <2>. QED  BY <2>1, <2>2, <2>3, <2>4, <2>5, SideStep
<1>4. CASE /\ phase[r] = "serving" /\ TaskGoes(r, "inside", "drain")
           /\ call' = [call EXCEPT ![r] = Cut(@)] /\ UNCHANGED queueVars
  <2>1. /\ task' = [task EXCEPT ![r] = "drain"] /\ task[r] = "inside"
        /\ UNCHANGED <<telemetry, runVars>>
    BY <1>4 DEF TaskGoes
  <2>2. TypeOK'
    BY <1>0, <1>4, <2>1, CutShape DEF BenchInv, TypeOK, TaskStates, queueVars, runVars
  <2>3. CallsMatch'
    BY <1>4, <2>1 DEF BenchInv, TypeOK, CallsMatch, CallLive, queueVars, runVars
  <2>4. TasksMatch'
    BY <1>0, <1>4, <2>1 DEF BenchInv, TypeOK, TasksMatch, TaskOver, queueVars, runVars
  <2>. QED  BY <1>4, <2>1, <2>2, <2>3, <2>4, SideStep DEF queueVars
<1>5. CASE TaskGoes(r, "drain", "cancelled") /\ UNCHANGED <<queueVars, call>>
  <2>1. /\ task' = [task EXCEPT ![r] = "cancelled"] /\ task[r] = "drain"
        /\ UNCHANGED <<queueVars, call, telemetry, runVars>>
    BY <1>5 DEF TaskGoes
  <2>2. TypeOK' /\ CallsMatch'
    BY <1>0, <2>1 DEF BenchInv, TypeOK, TaskStates, CallsMatch, CallLive, queueVars, runVars
  <2>3. TasksMatch'
    BY <1>0, <2>1 DEF BenchInv, TypeOK, TasksMatch, TaskOver, queueVars, runVars
  <2>. QED  BY <2>1, <2>2, <2>3, SideStep DEF queueVars
<1>. QED  BY <1>1, <1>2, <1>3, <1>4, <1>5 DEF SubmissionCancelled

LEMMA TaskStepKeeps ==
    ASSUME BenchInv, NEW r \in Reqs, TaskStep(r) \/ SubmissionFails(r)
    PROVE  BenchInv'
<1>1. CASE SubmissionReturns(r)
  BY <1>1, TaskMoves DEF SubmissionReturns, TaskStates
<1>2. CASE SubmissionDrained(r)
  BY <1>2, TaskMoves DEF SubmissionDrained, TaskStates
<1>3. CASE SubmissionFails(r)
  BY <1>3, TaskMoves DEF SubmissionFails, TaskStates
<1>. QED  BY <1>1, <1>2, <1>3, SubmitKeeps, SubmissionCancelledKeeps DEF TaskStep

LEMMA BeginRepetitionKeeps ==
    ASSUME BenchInv, BeginRepetition
    PROVE  BenchInv'
<1>1. /\ main = "ready" /\ main' = "gather" /\ rep < Repetitions /\ rep' = rep + 1
      /\ gate' = "open" /\ asked' = {}
      /\ phase' = [r \in Reqs |-> "new"] /\ answer' = [r \in Reqs |-> "none"]
      /\ call' = [r \in Reqs |-> "none"] /\ task' = [r \in Reqs |-> "early"]
      /\ UNCHANGED <<telemetry, stop, fate, sampler, records, written>>
  BY DEF BeginRepetition
<1>2. rep \in 0 .. Repetitions /\ Repetitions \in Nat
  BY BenchmarkAssumption DEF BenchInv, TypeOK
<1>3. rep' \in 0 .. Repetitions /\ rep' >= 1 /\ 1 .. rep' - 1 = 1 .. rep
  BY <1>1, <1>2
<1>4. TypeOK'
  BY <1>1, <1>3 DEF BenchInv, TypeOK, CallStates, TaskStates
<1>5. MainMatches'
  BY <1>1 DEF BenchInv, MainMatches
<1>6. CallsMatch' /\ TasksMatch'
  BY <1>1 DEF CallsMatch, CallLive, TasksMatch, TaskOver
<1>7. \A n \in 1 .. rep, r \in Reqs : <<n, r>> \in records
  BY <1>1 DEF BenchInv, MainMatches, RecordsMatch
<1>8. RecordsMatch'
  BY <1>1, <1>3, <1>7 DEF RecordsMatch
<1>. QED  BY <1>4, <1>5, <1>6, <1>8 DEF BenchInv

\* Closing the queue, by itself: what it needs, and what it leaves.
LEMMA CloseQueueShape ==
    ASSUME BenchInv, CloseQueue, UNCHANGED <<telemetry, task, asked, rep, sampler, written>>,
           \A r \in Reqs : TaskOver(r), main \in {"gather", "teardown"},
           stop' \in {"no", "asked", "thrown", "swallowed"},
           fate' \in {"ok", "failed", "cancelled"},
           records' \subseteq (1 .. Repetitions) \X Reqs,
           stop' # "thrown" => \A r \in Reqs : phase[r] # "serving"
    PROVE  TypeOK' /\ CallsMatch' /\ TasksMatch'
<1>1. /\ gate' = "shut"
      /\ phase' \in [Reqs -> Phases] /\ answer' \in [Reqs -> Answers]
      /\ \A q \in Reqs : phase'[q] = IF phase[q] = "waiting" THEN "done" ELSE phase[q]
  BY ShutShape DEF CloseQueue, BenchInv
<1>2. /\ main' = "close"
      /\ call' = [r \in Reqs |-> IF phase[r] = "serving" THEN Cut(call[r]) ELSE call[r]]
  BY DEF CloseQueue
<1>3. call' \in [Reqs -> CallStates]
  BY <1>2, CutShape DEF BenchInv, TypeOK
<1>4. TypeOK'
  BY <1>1, <1>2, <1>3 DEF BenchInv, TypeOK, Phases, Answers
<1>5. CallsMatch'
  BY <1>1, <1>2 DEF BenchInv, CallsMatch, CallLive
<1>6. TasksMatch'
  BY <1>1, <1>2 DEF TasksMatch, TaskOver
<1>. QED  BY <1>4, <1>5, <1>6

LEMMA JoinKeeps ==
    ASSUME BenchInv, Join
    PROVE  BenchInv'
<1>1. /\ main = "gather" /\ stop = "no" /\ main' = "close" /\ gate' = "shut"
      /\ UNCHANGED <<telemetry, task, asked, stop, rep, sampler, written>>
  BY ShutShape DEF Join, CloseQueue, BenchInv
<1>2. \A r \in Reqs : TaskOver(r)
  BY DEF Join, TaskOver
<1>3. \A r \in Reqs : phase[r] # "serving"
  BY <1>1, <1>2 DEF BenchInv, TasksMatch
<1>4. /\ rep \in 1 .. Repetitions /\ fate = "ok"
      /\ \A n \in 1 .. rep - 1, r \in Reqs : <<n, r>> \in records
  BY <1>1, BenchmarkAssumption DEF BenchInv, TypeOK, MainMatches, RecordsMatch
<1>5. \/ records' = records \cup {<<rep, r>> : r \in Reqs} /\ fate' = fate
      \/ fate' = "failed" /\ records' = records
  BY DEF Join, Joined
<1>6. /\ fate' \in {"ok", "failed", "cancelled"}
      /\ records' \subseteq (1 .. Repetitions) \X Reqs
  BY <1>4, <1>5 DEF BenchInv, TypeOK
<1>7. TypeOK' /\ CallsMatch' /\ TasksMatch'
  BY <1>1, <1>2, <1>3, <1>6, CloseQueueShape DEF Join
<1>8. MainMatches'
  BY <1>1 DEF BenchInv, MainMatches
<1>9. fate' = "ok" => \A n \in 1 .. rep, r \in Reqs : <<n, r>> \in records'
  <2>. SUFFICES ASSUME fate' = "ok", NEW n \in 1 .. rep, NEW r \in Reqs
                PROVE  <<n, r>> \in records'
    OBVIOUS
  <2>1. n = rep \/ n \in 1 .. rep - 1
    BY <1>4
  <2>. QED  BY <2>1, <1>4, <1>5
<1>10. RecordsMatch'
  BY <1>1, <1>9 DEF RecordsMatch
<1>. QED  BY <1>7, <1>8, <1>10 DEF BenchInv

LEMMA GatherRaisesKeeps ==
    ASSUME BenchInv, GatherRaises
    PROVE  BenchInv'
<1>1. /\ main = "gather" /\ main' = "teardown" /\ asked' = asked \cup Unfinished
      /\ fate' \in {"failed", "cancelled"}
      /\ stop' = IF stop = "asked" THEN "thrown" ELSE stop
      /\ UNCHANGED <<queueVars, call, telemetry, task, rep, sampler, records, written>>
  BY DEF GatherRaises
<1>2. TypeOK'
  BY <1>1 DEF BenchInv, TypeOK, Unfinished, queueVars
<1>3. MainMatches'
  BY <1>1 DEF BenchInv, MainMatches, queueVars
<1>4. CallsMatch'
  BY <1>1 DEF BenchInv, CallsMatch, CallLive, queueVars
<1>5. TasksMatch'
  BY <1>1 DEF BenchInv, TasksMatch, TaskOver, queueVars
<1>6. RecordsMatch'
  BY <1>1 DEF RecordsMatch
<1>. QED  BY <1>2, <1>3, <1>4, <1>5, <1>6 DEF BenchInv

LEMMA TornDownKeeps ==
    ASSUME BenchInv, TornDown
    PROVE  BenchInv'
<1>1. /\ main = "teardown" /\ main' = "close" /\ gate' = "shut"
      /\ fate' = IF stop = "asked" THEN "cancelled" ELSE fate
      /\ stop' = IF stop = "asked" THEN "thrown" ELSE stop
      /\ UNCHANGED <<telemetry, task, asked, rep, sampler, records, written>>
  BY ShutShape DEF TornDown, CloseQueue, Thrown, FateNow, BenchInv
<1>2. \A r \in Reqs : TaskOver(r)
  BY DEF TornDown, Unfinished
<1>3. stop # "swallowed"
  BY <1>1 DEF BenchInv, MainMatches
<1>4. stop' # "thrown" => \A r \in Reqs : phase[r] # "serving"
  BY <1>1, <1>2, <1>3 DEF BenchInv, TypeOK, TasksMatch
<1>5. /\ stop' \in {"no", "asked", "thrown", "swallowed"}
      /\ fate' \in {"failed", "cancelled"} /\ records' \subseteq (1 .. Repetitions) \X Reqs
  BY <1>1 DEF BenchInv, TypeOK, MainMatches
<1>6. TypeOK' /\ CallsMatch' /\ TasksMatch'
  BY <1>1, <1>2, <1>4, <1>5, CloseQueueShape DEF TornDown
<1>7. MainMatches' /\ RecordsMatch'
  BY <1>1, <1>5 DEF BenchInv, MainMatches, RecordsMatch
<1>. QED  BY <1>6, <1>7 DEF BenchInv

LEMMA ClosedKeeps ==
    ASSUME BenchInv, Closed
    PROVE  BenchInv'
<1>1. /\ main = "close" /\ \A r \in Reqs : phase[r] # "serving"
      /\ fate' = (IF stop = "asked" THEN "cancelled" ELSE fate)
      /\ stop' = (IF stop = "asked" THEN "thrown" ELSE stop)
      /\ UNCHANGED <<queueVars, call, telemetry, task, asked, rep, records, written>>
  BY DEF Closed, Thrown, FateNow, Queue!In
<1>2. \/ fate' = "ok" /\ main' = "ready" /\ UNCHANGED sampler
      \/ /\ fate' # "ok" \/ rep = Repetitions
         /\ main' = "leave"
         /\ sampler' = IF sampler = "on" THEN "stopping" ELSE sampler
  BY DEF Closed, Thrown
<1>3. TypeOK'
  BY <1>1, <1>2 DEF BenchInv, TypeOK, queueVars
<1>4. MainMatches'
  BY <1>1, <1>2 DEF BenchInv, TypeOK, MainMatches, queueVars
<1>5. CallsMatch'
  BY <1>1, <1>2 DEF BenchInv, CallsMatch, CallLive, queueVars
<1>6. TasksMatch'
  BY <1>1, <1>2 DEF BenchInv, TasksMatch, TaskOver, queueVars
<1>7. RecordsMatch'
  BY <1>1, <1>2 DEF BenchInv, RecordsMatch
<1>. QED  BY <1>3, <1>4, <1>5, <1>6, <1>7 DEF BenchInv

\* The sampler ends, the main task leaves, or it is cancelled: the queue and
\* its backend are left alone.
LEMMA LeavingKeeps ==
    ASSUME BenchInv, SamplerEnds \/ Leave \/ CancelMain
    PROVE  BenchInv'
<1>1. UNCHANGED <<queueVars, call, telemetry, task, rep, fate, records>>
  BY DEF SamplerEnds, Leave, CancelMain
<1>2. \/ /\ sampler = "stopping" /\ sampler' = "over"
         /\ UNCHANGED <<asked, main, stop, written>>
      \/ /\ main = "leave" /\ main' = "done" /\ sampler # "stopping"
         /\ written' = (fate = "ok") /\ UNCHANGED <<asked, stop, sampler>>
      \/ /\ main \in {"gather", "teardown"} /\ stop = "no" /\ stop' = "asked"
         /\ asked' = asked \cup Unfinished /\ UNCHANGED <<main, sampler, written>>
      \/ /\ main = "close" /\ stop = "no" /\ stop' = "asked"
         /\ UNCHANGED <<asked, main, sampler, written>>
      \/ /\ main = "leave" /\ stop = "no" /\ stop' = "swallowed"
         /\ UNCHANGED <<asked, main, sampler, written>>
  BY DEF SamplerEnds, Leave, CancelMain
<1>3. TypeOK'
  BY <1>1, <1>2, ZenonT(60) DEF BenchInv, TypeOK, Unfinished, queueVars
<1>4. MainMatches'
  BY <1>1, <1>2 DEF BenchInv, TypeOK, MainMatches, queueVars
<1>5. CallsMatch'
  BY <1>1, <1>2 DEF BenchInv, CallsMatch, CallLive, queueVars
<1>6. TasksMatch'
  BY <1>1, <1>2 DEF BenchInv, TasksMatch, TaskOver, queueVars
<1>7. RecordsMatch'
  BY <1>1, <1>2 DEF BenchInv, RecordsMatch
<1>. QED  BY <1>3, <1>4, <1>5, <1>6, <1>7 DEF BenchInv

\* Every state of a run satisfies the invariant.
THEOREM BenchInvariant == BenchSpec => []BenchInv
<1>1. BenchInit => BenchInv
  <2>. SUFFICES ASSUME BenchInit PROVE BenchInv
    OBVIOUS
  <2>1. NoTelemetry \in Telemetry
    <3>1. 0 \in 0 .. Repetitions
      BY BenchmarkAssumption
    <3>. QED  BY <3>1 DEF NoTelemetry, Telemetry
  <2>2. TypeOK
    <3>1. telemetry \in [Reqs -> Telemetry]
      BY <2>1, Zenon DEF BenchInit
    <3>2. /\ phase = [r \in Reqs |-> "new"] /\ answer = [r \in Reqs |-> "none"]
          /\ gate = "new"
      BY DEF BenchInit, Queue!Init
    <3>3. rep \in 0 .. Repetitions
      BY BenchmarkAssumption DEF BenchInit
    <3>. QED  BY <3>1, <3>2, <3>3 DEF BenchInit, TypeOK, CallStates, TaskStates, Statuses
  <2>3. MainMatches /\ CallsMatch /\ TasksMatch /\ RecordsMatch
    BY BenchmarkAssumption
    DEF BenchInit, Queue!Init, MainMatches, CallsMatch, CallLive, TasksMatch, RecordsMatch
  <2>. QED  BY <2>2, <2>3 DEF BenchInv
<1>2. BenchInv /\ [BenchNext]_vars => BenchInv'
  <2>. SUFFICES ASSUME BenchInv, [BenchNext]_vars PROVE BenchInv'
    OBVIOUS
  <2>1. CASE MainStep
    BY <2>1, BeginRepetitionKeeps, JoinKeeps, GatherRaisesKeeps, TornDownKeeps,
       ClosedKeeps, LeavingKeeps DEF MainStep
  <2>2. CASE SamplerEnds \/ CancelMain
    BY <2>2, LeavingKeeps
  <2>3. ASSUME NEW r \in Reqs,
               CallStep(r) \/ TaskStep(r) \/ SubmissionFails(r) \/ QueueFinishes(r)
               \/ QueueTimesOut(r)
        PROVE  BenchInv'
    BY <2>3, CallStepKeeps, TaskStepKeeps, QueueFinishesKeeps, QueueTimesOutKeeps
  <2>4. CASE UNCHANGED vars
    BY <2>4 DEF vars, queueVars, runVars, BenchInv, TypeOK, MainMatches, CallsMatch,
                CallLive, TasksMatch, TaskOver, RecordsMatch
  <2>. QED  BY <2>1, <2>2, <2>3, <2>4 DEF BenchNext
<1>. QED  BY <1>1, <1>2, PTL DEF BenchSpec
-----------------------------------------------------------------------------
(* The properties.                                                         *)

\* Every variable of a run keeps its type.
THEOREM BenchTypeCorrect == BenchSpec => []TypeOK
<1>1. BenchInv => TypeOK
  BY DEF BenchInv
<1>. QED  BY <1>1, BenchInvariant, PTL

\* However a run ends, no submission, backend call, queue or sampler outlives it.
THEOREM NothingIsLeftBehind == BenchSpec => []NothingOutlivesRun
<1>1. BenchInv => NothingOutlivesRun
  <2>. SUFFICES ASSUME BenchInv, main = "done" PROVE NothingOutlivesRun
    BY DEF NothingOutlivesRun
  <2>1. gate = "shut" /\ sampler \in {"none", "over"}
    BY DEF BenchInv, TypeOK, MainMatches
  <2>2. \A r \in Reqs : TaskOver(r) /\ ~CallLive(r) /\ phase[r] \in {"new", "done"}
    BY <2>1 DEF BenchInv, TypeOK, CallsMatch, TasksMatch
  <2>. QED  BY <2>1, <2>2 DEF NothingOutlivesRun
<1>. QED  BY <1>1, BenchInvariant, PTL

\* Unless the run is cancelled, aclose finds nothing in flight: the teardown has
\* waited for the backend calls.
THEOREM QueueIsDrained == BenchSpec => []DrainedBeforeClose
<1>1. BenchInv => DrainedBeforeClose
  BY DEF BenchInv, CallsMatch, TasksMatch, DrainedBeforeClose, Queue!In
<1>. QED  BY <1>1, BenchInvariant, PTL

\* A file that is written has a record of every request of every repetition.
THEOREM WhatIsWrittenIsComplete == BenchSpec => []RecordsComplete
<1>1. BenchInv => RecordsComplete
  BY DEF BenchInv, MainMatches, RecordsMatch, RecordsComplete
<1>. QED  BY <1>1, BenchInvariant, PTL

\* A cancelled run writes nothing, unless the cancellation met the sampler's exit.
THEOREM CancellationIsKept == BenchSpec => []CancellationKept
<1>1. BenchInv => CancellationKept
  BY DEF BenchInv, TypeOK, MainMatches, CancellationKept
<1>. QED  BY <1>1, BenchInvariant, PTL
-----------------------------------------------------------------------------
(* What a record tells of its backend call.                                *)

\* A call that was entered has telemetry of its own repetition; a request has a
\* call once it has a slot; and a success or an error is that of its call.
CallsReport ==
    \A r \in Reqs :
        /\ call[r] \in {"open", "stopping", "ok", "error", "mute"}
           => telemetry[r].of = rep
        /\ phase[r] \in {"new", "waiting"} => call[r] = "none"
        /\ phase[r] = "done" => /\ answer[r] # "none"
                                /\ answer[r] = "SUCCESS" => call[r] = "ok"
                                /\ answer[r] = "ERROR" => call[r] \in {"error", "mute"}

\* What the queue may do to a request and its call in one step: leave it or cut
\* its call, let it wait, give it a slot, answer it without one, or finish it.
Served(r) ==
    \/ /\ phase'[r] = phase[r] /\ answer'[r] = answer[r]
       /\ call'[r] \in {call[r], Cut(call[r])}
    \/ /\ phase[r] \in {"new", "waiting"} /\ phase'[r] = "waiting"
       /\ call'[r] = call[r]
    \/ /\ phase[r] \in {"new", "waiting"} /\ phase'[r] = "serving" /\ call'[r] = "new"
    \/ /\ phase[r] \in {"new", "waiting"} /\ phase'[r] = "done"
       /\ call'[r] = call[r] /\ answer'[r] \in {"TIMEOUT", "CANCELLED"}
    \/ /\ phase[r] = "serving" /\ phase'[r] = "done" /\ call'[r] = call[r]
       /\ answer'[r] \in {"SUCCESS", "ERROR", "TIMEOUT", "CANCELLED"}
       /\ answer'[r] = "SUCCESS" => call[r] = "ok"
       /\ answer'[r] = "ERROR" => call[r] \in {"error", "mute"}

LEMMA ServedReports ==
    ASSUME CallsReport, UNCHANGED <<telemetry, rep>>, \A r \in Reqs : Served(r)
    PROVE  CallsReport'
<1>. SUFFICES ASSUME NEW r \in Reqs
              PROVE  /\ call'[r] \in {"open", "stopping", "ok", "error", "mute"}
                        => telemetry[r].of = rep
                     /\ phase'[r] \in {"new", "waiting"} => call'[r] = "none"
                     /\ phase'[r] = "done" =>
                           /\ answer'[r] # "none"
                           /\ answer'[r] = "SUCCESS" => call'[r] = "ok"
                           /\ answer'[r] = "ERROR" => call'[r] \in {"error", "mute"}
  BY DEF CallsReport
<1>1. Served(r)
  OBVIOUS
<1>. QED  BY <1>1 DEF Served, CallsReport, Cut

\* The contract answers whom it settles, and nobody else.
LEMMA SettleAnswers ==
    ASSUME NEW w \in SUBSET Reqs, NEW over \in SUBSET Reqs, NEW late, NEW start,
           Queue!Settle(w, over, late, start), w \cap over = {}
    PROVE  \A q \in Reqs :
              /\ q \notin w \cup over => phase'[q] = phase[q] /\ answer'[q] = answer[q]
              /\ q \in w => \/ phase'[q] \in {"waiting", "serving"}
                            \/ phase'[q] = "done" /\ answer'[q] = "TIMEOUT"
              /\ q \in over => /\ phase'[q] = "done"
                               /\ answer'[q] \in {"SUCCESS", "ERROR", "TIMEOUT", "CANCELLED"}
<1>1. /\ late \cup start \subseteq w /\ late \cap start = {}
      /\ phase' = [q \in Reqs |-> CASE q \in w \ (late \cup start) -> "waiting"
                                    [] q \in start -> "serving"
                                    [] q \in late \cup over -> "done"
                                    [] OTHER -> phase[q]]
  BY DEF Queue!Settle
<1>2. PICK f \in [over -> {"SUCCESS", "ERROR", "TIMEOUT", "CANCELLED"}] :
         answer' = [q \in Reqs |-> CASE q \in over -> f[q]
                                     [] q \in late -> "TIMEOUT"
                                     [] OTHER -> answer[q]]
  BY DEF Queue!Settle
<1>3. \A q \in Reqs : /\ q \in over => answer'[q] = f[q]
                      /\ q \in late => answer'[q] = "TIMEOUT"
                      /\ q \notin late \cup over => answer'[q] = answer[q]
  BY <1>1, <1>2
<1>4. \A q \in Reqs : /\ q \in w \ (late \cup start) => phase'[q] = "waiting"
                      /\ q \in start => phase'[q] = "serving"
                      /\ q \in late \cup over => phase'[q] = "done"
                      /\ q \notin w \cup over => phase'[q] = phase[q]
  BY <1>1
<1>. QED  BY <1>1, <1>2, <1>3, <1>4

\* The backend tasks move on without the queue.
LEMMA CallStepReports ==
    ASSUME BenchInv, CallsReport, NEW r \in Reqs, CallStep(r)
    PROVE  CallsReport'
<1>1. PICK from \in {"new", "doomed", "open", "stopping"}, to \in CallStates :
         /\ CallGoes(r, from, to)
         /\ to \in {"open", "ok", "error", "mute", "cut"}
         /\ \/ telemetry' = [telemetry EXCEPT ![r] = [of |-> rep, spoke |-> FALSE]]
            \/ from = "open" /\ telemetry' = [telemetry EXCEPT ![r].spoke = TRUE]
            \/ from = "open" /\ UNCHANGED telemetry
            \/ to = "cut" /\ UNCHANGED telemetry
  BY DEF CallStep, CallStarts, CallSpeaks, CallEnds, CallStops, CallStates
<1>2. /\ call' = [call EXCEPT ![r] = to] /\ call[r] = from
      /\ UNCHANGED <<phase, answer, rep>>
  BY <1>1 DEF CallGoes, queueVars, runVars
<1>3. phase[r] = "serving"
  BY <1>2 DEF BenchInv, CallsMatch, CallLive
<1>4. telemetry \in [Reqs -> [of : 0 .. Repetitions, spoke : BOOLEAN]]
  BY DEF BenchInv, TypeOK, Telemetry
<1>5. \A q \in Reqs : q # r => telemetry'[q] = telemetry[q] /\ call'[q] = call[q]
  BY <1>1, <1>2, <1>4 DEF BenchInv, TypeOK
<1>6. to # "cut" => telemetry'[r].of = rep
  <2>1. from = "open" => telemetry[r].of = rep
    BY <1>2 DEF CallsReport
  <2>. QED  BY <1>1, <1>4, <2>1
<1>7. call'[r] = to
  BY <1>2 DEF BenchInv, TypeOK
<1>. QED  BY <1>1, <1>2, <1>3, <1>5, <1>6, <1>7 DEF CallsReport

\* The steps of the queue and of the submissions.
LEMMA QueueServes ==
    ASSUME BenchInv, NEW r \in Reqs,
           \/ QueueFinishes(r) \/ QueueTimesOut(r)
           \/ TaskStep(r) \/ SubmissionFails(r)
    PROVE  (\A q \in Reqs : Served(q)) /\ UNCHANGED <<telemetry, rep>>
<1>0. /\ UNCHANGED <<telemetry, rep>>
      /\ phase \in [Reqs -> Phases] /\ call \in [Reqs -> CallStates]
      /\ Queue!In("waiting") \in SUBSET Reqs
      /\ \A q \in Reqs : q \in Queue!In("waiting") <=> phase[q] = "waiting"
  BY DEF QueueFinishes, QueueTimesOut, TaskStep, Submit, SubmissionReturns,
         SubmissionCancelled, SubmissionDrained, SubmissionFails, TaskGoes, runVars,
         BenchInv, TypeOK, Phases, Queue!In
<1>1. CASE UNCHANGED <<queueVars, call>>
  BY <1>0, <1>1 DEF Served, queueVars
<1>2. CASE UNCHANGED queueVars /\ call' = [call EXCEPT ![r] = Cut(@)]
  BY <1>0, <1>2 DEF Served, queueVars
<1>3. CASE Queue!GiveUp(r) /\ UNCHANGED call
  <2>1. PICK status \in {"TIMEOUT", "CANCELLED"} : Queue!Drop({r}, status)
    BY <1>3 DEF Queue!GiveUp
  <2>2. phase[r] = "waiting"
    BY <1>3 DEF Queue!GiveUp, Queue!In
  <2>3. \A q \in Reqs : /\ phase'[q] = IF q = r THEN "done" ELSE phase[q]
                        /\ answer'[q] = IF q = r THEN status ELSE answer[q]
    BY <2>1 DEF Queue!Drop
  <2>4. \A q \in Reqs : Served(q)
    BY <1>3, <2>2, <2>3 DEF Served
  <2>. QED  BY <1>0, <2>4
<1>4. CASE Queue!Accept(r) /\ Calls(call)
  <2>1. PICK late, start : Queue!Settle(Queue!In("waiting") \cup {r}, {}, late, start)
    BY <1>4 DEF Queue!Accept
  <2>2. \A q \in Reqs :
           /\ q # r /\ phase[q] # "waiting" => phase'[q] = phase[q] /\ answer'[q] = answer[q]
           /\ q = r \/ phase[q] = "waiting" => \/ phase'[q] \in {"waiting", "serving"}
                                               \/ phase'[q] = "done" /\ answer'[q] = "TIMEOUT"
    <3>. DEFINE w == Queue!In("waiting") \cup {r}
    <3>1. /\ w \in SUBSET Reqs /\ {} \in SUBSET Reqs /\ w \cap {} = {}
          /\ \A q \in Reqs : q \in w <=> q = r \/ phase[q] = "waiting"
      BY <1>0
    <3>. HIDE DEF w
    <3>2. \A q \in Reqs :
             /\ q \notin w \cup {} => phase'[q] = phase[q] /\ answer'[q] = answer[q]
             /\ q \in w => \/ phase'[q] \in {"waiting", "serving"}
                           \/ phase'[q] = "done" /\ answer'[q] = "TIMEOUT"
      <4>1. Queue!Settle(w, {}, late, start)
        BY <2>1 DEF w
      <4>. QED  BY <3>1, <4>1, SettleAnswers
    <3>. QED  BY <3>1, <3>2
  <2>3. \A q \in Reqs : IF phase'[q] = "serving" /\ phase[q] # "serving"
                        THEN call'[q] = "new" ELSE call'[q] = call[q]
    BY <1>0, <1>4, CallsShape
  <2>4. phase[r] = "new"
    BY <1>4 DEF Queue!Accept
  <2>5. \A q \in Reqs : Served(q)
    BY <2>2, <2>3, <2>4 DEF Served
  <2>. QED  BY <1>0, <2>5
<1>5. CASE QueueFinishes(r)
  <2>1. PICK late, start : Queue!Settle(Queue!In("waiting"), {r}, late, start)
    BY <1>5 DEF QueueFinishes, Queue!Finish
  <2>2. phase[r] = "serving"
    BY <1>5 DEF QueueFinishes, Queue!Finish
  <2>3. \A q \in Reqs :
           /\ q # r /\ phase[q] # "waiting" => phase'[q] = phase[q] /\ answer'[q] = answer[q]
           /\ phase[q] = "waiting" => \/ phase'[q] \in {"waiting", "serving"}
                                      \/ phase'[q] = "done" /\ answer'[q] = "TIMEOUT"
           /\ q = r => /\ phase'[q] = "done"
                       /\ answer'[q] \in {"SUCCESS", "ERROR", "TIMEOUT", "CANCELLED"}
    <3>1. Queue!In("waiting") \cap {r} = {} /\ {r} \in SUBSET Reqs
      BY <1>0, <2>2
    <3>. QED  BY <1>0, <2>1, <3>1, SettleAnswers
  <2>4. \A q \in Reqs : IF phase'[q] = "serving" /\ phase[q] # "serving"
                        THEN call'[q] = "new" ELSE call'[q] = call[q]
    BY <1>0, <1>5, CallsShape DEF QueueFinishes
  <2>5. /\ answer'[r] = "SUCCESS" => call[r] = "ok"
        /\ answer'[r] = "ERROR" => call[r] \in {"error", "mute"}
    BY <1>5 DEF QueueFinishes
  <2>6. \A q \in Reqs : Served(q)
    BY <2>2, <2>3, <2>4, <2>5 DEF Served
  <2>. QED  BY <1>0, <2>6
<1>6. CASE QueueTimesOut(r)
  BY <1>2, <1>3, <1>6 DEF QueueTimesOut
<1>7. CASE TaskStep(r) \/ SubmissionFails(r)
  BY <1>1, <1>2, <1>3, <1>4, <1>7
  DEF TaskStep, Submit, SubmissionReturns, SubmissionCancelled, SubmissionDrained,
      SubmissionFails
<1>. QED  BY <1>5, <1>6, <1>7

LEMMA QueueStepReports ==
    ASSUME BenchInv, CallsReport, NEW r \in Reqs,
           \/ QueueFinishes(r) \/ QueueTimesOut(r)
           \/ TaskStep(r) \/ SubmissionFails(r)
    PROVE  CallsReport'
BY QueueServes, ServedReports

LEMMA MainStepReports ==
    ASSUME BenchInv, CallsReport, MainStep \/ SamplerEnds \/ CancelMain
    PROVE  CallsReport'
<1>1. CASE BeginRepetition
  BY <1>1 DEF BeginRepetition, CallsReport
<1>2. CASE CloseQueue /\ UNCHANGED <<telemetry, rep>>
  <2>1. \A q \in Reqs :
           /\ phase'[q] = IF phase[q] = "waiting" THEN "done" ELSE phase[q]
           /\ answer'[q] = IF phase[q] = "waiting" THEN "CANCELLED" ELSE answer[q]
           /\ call'[q] = IF phase[q] = "serving" THEN Cut(call[q]) ELSE call[q]
    BY <1>2 DEF CloseQueue, Queue!Shut, Queue!Drop, Queue!In
  <2>2. \A q \in Reqs : Served(q)
    BY <2>1 DEF Served
  <2>. QED  BY <1>2, <2>2, ServedReports
<1>3. CASE UNCHANGED <<queueVars, call, telemetry, rep>>
  BY <1>3 DEF CallsReport, queueVars
<1>. QED  BY <1>1, <1>2, <1>3
          DEF MainStep, Join, GatherRaises, TornDown, Closed, Leave, SamplerEnds, CancelMain

LEMMA ReportsStart == BenchInit => CallsReport
BY DEF BenchInit, Queue!Init, CallsReport

LEMMA ReportsStep ==
    ASSUME BenchInv, CallsReport, [BenchNext]_vars
    PROVE  CallsReport'
<1>1. CASE UNCHANGED vars
  BY <1>1 DEF CallsReport, vars, queueVars, runVars
<1>. QED  BY <1>1, CallStepReports, QueueStepReports, MainStepReports DEF BenchNext

\* A record of a request tells of the backend call of that repetition, although
\* the telemetry of earlier ones is still there (benchmark.py:254-316).
THEOREM RecordsTellTheirOwnCall == BenchSpec => RecordsOwnTelemetry
<1>1. BenchInit => CallsReport
  BY ReportsStart
<1>2. BenchInv /\ BenchInv' /\ CallsReport /\ [BenchNext]_vars => CallsReport'
  BY ReportsStep
<1>. DEFINE Own(r) == <<rep, r>> \in records' \ records =>
          \/ Read(r).of \in {0, rep}
          \/ Status(r) \in {"TIMEOUT", "CANCELLED"} /\ call[r] = "cut" /\ ~Read(r).spoke
<1>3. BenchInv /\ BenchInv' /\ CallsReport /\ [BenchNext]_vars
      => [\A r \in Reqs : Own(r)]_vars
  <2>. SUFFICES ASSUME BenchInv, CallsReport, BenchNext,
                       NEW r \in Reqs, <<rep, r>> \in records' \ records
                PROVE  \/ Read(r).of \in {0, rep}
                       \/ /\ Status(r) \in {"TIMEOUT", "CANCELLED"} /\ call[r] = "cut"
                          /\ ~Read(r).spoke
    OBVIOUS
  <2>1. Join /\ \A q \in Reqs : Joinable(q)
    <3>1. records' # records
      OBVIOUS
    <3>. QED  BY <3>1 DEF BenchNext, MainStep, BeginRepetition, Join, GatherRaises,
                  TornDown, Closed, Leave, SamplerEnds, CancelMain, CallStep, CallStarts,
                  CallSpeaks, CallEnds, CallStops, CallGoes, TaskStep, Submit,
                  SubmissionReturns, SubmissionCancelled, SubmissionDrained,
                  SubmissionFails, TaskGoes, QueueFinishes, QueueTimesOut, runVars
  <2>2. phase[r] \in {"new", "done"} /\ ~CallLive(r)
    BY <2>1 DEF Join, TaskOver, BenchInv, CallsMatch, TasksMatch
  <2>3. CASE call[r] = "none"
    BY <2>3 DEF Read, NoTelemetry
  <2>4. CASE call[r] \in {"ok", "error", "mute"}
    BY <2>4 DEF Read, CallsReport
  <2>5. CASE call[r] = "cut"
    <3>1. phase[r] = "done"
      BY <2>2, <2>5 DEF CallsReport
    <3>2. Status(r) \in {"TIMEOUT", "CANCELLED"}
      BY <2>5, <3>1 DEF Status, CallsReport, BenchInv, TypeOK, Statuses
    <3>3. Read(r).spoke => Read(r).of = rep
      BY <2>1 DEF Joinable
    <3>. QED  BY <2>5, <3>2, <3>3
  <2>. QED  BY <2>2, <2>3, <2>4, <2>5 DEF CallLive, CallStates, BenchInv, TypeOK
<1>. QED  BY <1>1, <1>2, <1>3, BenchInvariant, PTL DEF BenchSpec, RecordsOwnTelemetry
-----------------------------------------------------------------------------
(* Until the end, somebody owes the run a step.                            *)

\* A repetition begins only if there is one left. A submission is early as long as
\* its request is new and the gate is open, and no submission was cancelled while
\* the gather goes on undisturbed.
OwedInv ==
    /\ main = "ready" => rep < Repetitions
    /\ main = "gather" /\ stop = "no" => \A r \in Reqs : task[r] # "cancelled"
    /\ main \in {"gather", "teardown"} => \A r \in Reqs : task[r] # "none"
    /\ \A r \in Reqs : /\ task[r] = "early" => phase[r] = "new" /\ gate = "open"
                       /\ task[r] \in {"inside", "drain"} => phase[r] # "new"
    /\ SlotsHold

LEMMA ServingFinite ==
    IsFiniteSet(Reqs) /\ MaxInFlight \in Nat \ {0} /\ Repetitions \in Nat \ {0}
BY BenchmarkAssumption

LEMMA SettleSlots ==
    ASSUME NEW w \in SUBSET Reqs, NEW over \in SUBSET Reqs, NEW late, NEW start,
           Queue!Settle(w, over, late, start), w \cap over = {},
           \A q \in w : phase[q] # "serving"
    PROVE  SlotsHold'
<1> DEFINE busy == (Queue!In("serving") \ over) \cup start
<1>1. /\ late \cup start \subseteq w /\ late \cap start = {}
      /\ phase' = [q \in Reqs |-> CASE q \in w \ (late \cup start) -> "waiting"
                                    [] q \in start -> "serving"
                                    [] q \in late \cup over -> "done"
                                    [] OTHER -> phase[q]]
      /\ Cardinality(busy) <= MaxInFlight
  BY DEF Queue!Settle, Queue!Cardinality, Cardinality
<1>2. ASSUME NEW q \in Reqs PROVE phase'[q] = "serving" <=> q \in busy
  <2>1. phase'[q] = CASE q \in w \ (late \cup start) -> "waiting"
                      [] q \in start -> "serving"
                      [] q \in late \cup over -> "done"
                      [] OTHER -> phase[q]
    BY <1>1
  <2>2. q \in busy <=> (phase[q] = "serving" /\ q \notin over) \/ q \in start
    BY DEF Queue!In
  <2>3. q \in w => phase[q] # "serving"
    OBVIOUS
  <2>4. CASE q \in start
    BY <1>1, <2>1, <2>2, <2>4
  <2>5. CASE q \notin start /\ q \in w
    BY <1>1, <2>1, <2>2, <2>3, <2>5
  <2>6. CASE q \notin start /\ q \notin w
    BY <1>1, <2>1, <2>2, <2>6
  <2> QED
    BY <2>4, <2>5, <2>6
<1>3. busy \subseteq Reqs
  BY <1>1 DEF Queue!In
<1>4. Queue!In("serving")' = busy
  BY <1>2, <1>3 DEF Queue!In
<1> QED
  BY <1>1, <1>4 DEF SlotsHold

LEMMA ServingKept ==
    ASSUME SlotsHold, \A q \in Reqs : phase'[q] = "serving" <=> phase[q] = "serving"
    PROVE  SlotsHold'
<1>1. Queue!In("serving")' = Queue!In("serving")
  BY DEF Queue!In
<1> QED
  BY <1>1 DEF SlotsHold

\* The steps of the queue keep its slots.
LEMMA QueueSlots ==
    ASSUME BenchInv, SlotsHold, NEW r \in Reqs,
           \/ Queue!Accept(r) \/ Queue!Finish(r) \/ Queue!GiveUp(r) \/ Queue!Shut
           \/ UNCHANGED queueVars
    PROVE  SlotsHold'
<1>1. CASE Queue!Accept(r)
  <2>1. PICK late, start : Queue!Settle(Queue!In("waiting") \cup {r}, {}, late, start)
    BY <1>1 DEF Queue!Accept
  <2>2. \A q \in Queue!In("waiting") \cup {r} : q \in Reqs /\ phase[q] # "serving"
    BY <1>1 DEF Queue!Accept, Queue!In
  <2> QED
    BY <2>1, <2>2, SettleSlots
<1>2. CASE Queue!Finish(r)
  <2>1. PICK late, start : Queue!Settle(Queue!In("waiting"), {r}, late, start)
    BY <1>2 DEF Queue!Finish
  <2>2. /\ \A q \in Queue!In("waiting") : q \in Reqs /\ phase[q] # "serving"
        /\ r \notin Queue!In("waiting")
    BY <1>2 DEF Queue!In, Queue!Finish
  <2> QED
    BY <2>1, <2>2, SettleSlots
<1>3. CASE Queue!GiveUp(r)
  <2>1. phase[r] = "waiting" /\ phase' = [phase EXCEPT ![r] = "done"]
    BY <1>3, GiveUpShape DEF BenchInv
  <2> QED
    BY <2>1, ServingKept DEF BenchInv, TypeOK
<1>4. CASE Queue!Shut
  <2>1. \A q \in Reqs : phase'[q] = IF phase[q] = "waiting" THEN "done" ELSE phase[q]
    BY <1>4, ShutShape DEF BenchInv
  <2> QED
    BY <2>1, ServingKept
<1>5. CASE UNCHANGED queueVars
  BY <1>5, ServingKept DEF queueVars
<1> QED
  BY <1>1, <1>2, <1>3, <1>4, <1>5

\* A step of anything but the main task and the sampler.
LEMMA OwedOnTheSide ==
    ASSUME OwedInv, SlotsHold', UNCHANGED <<gate, runVars>>,
           \A q \in Reqs :
              /\ task'[q] # "none" \/ task[q] = "none"
              /\ task'[q] = "cancelled" /\ main = "gather" /\ stop = "no" => task[q] = "cancelled"
              /\ task'[q] = "early" => task[q] = "early" /\ phase'[q] = phase[q]
              /\ task'[q] \in {"inside", "drain"} => phase'[q] # "new"
    PROVE  OwedInv'
<1>1. UNCHANGED <<main, stop, rep, gate>>
  BY DEF runVars
<1> QED
  BY <1>1 DEF OwedInv

LEMMA OwedAfterCalls ==
    ASSUME BenchInv, OwedInv, NEW r \in Reqs, CallStep(r)
    PROVE  OwedInv'
<1>1. UNCHANGED <<queueVars, task, runVars>>
  BY DEF CallStep, CallStarts, CallSpeaks, CallEnds, CallStops, CallGoes
<1>2. SlotsHold'
  BY <1>1, QueueSlots DEF OwedInv
<1> QED
  BY <1>1, <1>2, OwedOnTheSide DEF OwedInv, queueVars

LEMMA OwedAfterQueue ==
    ASSUME BenchInv, OwedInv, NEW r \in Reqs, QueueFinishes(r) \/ QueueTimesOut(r)
    PROVE  OwedInv'
<1>1. UNCHANGED <<task, runVars>>
  BY DEF QueueFinishes, QueueTimesOut
<1>2. \/ Queue!Finish(r) \/ Queue!GiveUp(r) \/ UNCHANGED queueVars
  BY DEF QueueFinishes, QueueTimesOut
<1>3. SlotsHold'
  BY <1>2, QueueSlots DEF OwedInv
<1>4. gate' = gate /\ \A q \in Reqs : phase[q] = "new" <=> phase'[q] = "new"
  <2>1. CASE Queue!Finish(r)
    BY <2>1, FinishShape DEF BenchInv
  <2>2. CASE Queue!GiveUp(r)
    BY <2>2, GiveUpShape DEF BenchInv, TypeOK
  <2>3. CASE UNCHANGED queueVars
    BY <2>3 DEF queueVars
  <2> QED
    BY <1>2, <2>1, <2>2, <2>3
<1> QED
  BY <1>1, <1>3, <1>4, OwedOnTheSide DEF OwedInv

LEMMA OwedAfterTasks ==
    ASSUME BenchInv, OwedInv, NEW r \in Reqs, TaskStep(r) \/ SubmissionFails(r)
    PROVE  OwedInv'
<1>1. PICK from \in {"early", "inside", "drain"}, to \in TaskStates :
         /\ TaskGoes(r, from, to) /\ to \notin {"none", "early"}
         /\ to = "inside" => Queue!Accept(r)
         /\ to = "drain" => from = "inside"
         /\ to = "cancelled" => r \in asked \/ from = "drain"
         /\ \/ Queue!Accept(r) \/ UNCHANGED queueVars
            \/ Queue!GiveUp(r) /\ to # "drain"
  BY DEF TaskStep, Submit, SubmissionReturns, SubmissionCancelled, SubmissionDrained,
         SubmissionFails, TaskStates
<1>2. /\ task[r] = from /\ \A q \in Reqs : task'[q] = IF q = r THEN to ELSE task[q]
      /\ UNCHANGED runVars
  BY <1>1 DEF TaskGoes, BenchInv, TypeOK
<1>3. SlotsHold'
  BY <1>1, QueueSlots DEF OwedInv
<1>4. /\ gate' = gate /\ \A q \in Reqs : q # r => (phase[q] = "new" <=> phase'[q] = "new")
      /\ Queue!Accept(r) => phase'[r] # "new"
      /\ ~Queue!Accept(r) => (phase[r] = "new" <=> phase'[r] = "new")
  <2>1. CASE Queue!Accept(r)
    BY <2>1, AcceptShape DEF BenchInv
  <2>2. CASE Queue!GiveUp(r)
    BY <2>2, GiveUpShape DEF BenchInv, TypeOK
  <2>3. CASE UNCHANGED queueVars /\ ~Queue!Accept(r)
    BY <2>3 DEF queueVars
  <2> QED
    BY <1>1, <2>1, <2>2, <2>3
<1>5. to = "cancelled" => ~(main = "gather" /\ stop = "no")
  BY <1>1, <1>2 DEF BenchInv, TasksMatch
<1>6. to \in {"inside", "drain"} => phase'[r] # "new"
  BY <1>1, <1>2, <1>4 DEF OwedInv
<1> QED
  BY <1>1, <1>2, <1>3, <1>4, <1>5, <1>6, OwedOnTheSide DEF OwedInv

LEMMA OwedAfterMain ==
    ASSUME BenchInv, OwedInv, MainStep \/ SamplerEnds \/ CancelMain
    PROVE  OwedInv'
<1>1. CASE BeginRepetition
  <2>1. Queue!In("serving")' = {}
    BY <1>1 DEF BeginRepetition, Queue!In
  <2>2. SlotsHold'
    BY <2>1, ServingFinite, FS_EmptySet DEF SlotsHold
  <2>3. \A r \in Reqs : task'[r] = "early" /\ phase'[r] = "new"
    BY <1>1 DEF BeginRepetition
  <2> QED
    BY <1>1, <2>2, <2>3 DEF BeginRepetition, OwedInv
<1>2. CASE Join \/ TornDown
  <2>1. CloseQueue /\ main' = "close" /\ UNCHANGED task /\ \A r \in Reqs : TaskOver(r)
    BY <1>2 DEF Join, TornDown, CloseQueue, Unfinished, TaskOver
  <2>2. SlotsHold'
    <3>1. \A q \in Reqs : phase'[q] = IF phase[q] = "waiting" THEN "done" ELSE phase[q]
      BY <2>1, ShutShape DEF BenchInv, CloseQueue
    <3> QED
      BY <3>1, ServingKept DEF OwedInv
  <2> QED
    BY <2>1, <2>2 DEF OwedInv, TaskOver
<1>3. CASE GatherRaises \/ SamplerEnds \/ CancelMain \/ Closed \/ Leave
  <2>1. UNCHANGED <<queueVars, task, rep>>
    BY <1>3 DEF GatherRaises, SamplerEnds, CancelMain, Closed, Leave
  <2>2. SlotsHold'
    BY <2>1, ServingKept DEF OwedInv, queueVars
  <2>3. /\ main' = "ready" => rep < Repetitions
        /\ main' = "gather" => main = "gather" /\ (stop' = "no" => stop = "no")
        /\ main' = "teardown" => main \in {"gather", "teardown"}
    BY <1>3 DEF GatherRaises, SamplerEnds, CancelMain, Closed, Leave, OwedInv
  <2> QED
    BY <2>1, <2>2, <2>3 DEF OwedInv, queueVars
<1> QED
  BY <1>1, <1>2, <1>3 DEF MainStep

\* What is owed: a request that has a slot or waits is owed a step by the queue,
\* its deadline or its call, so that every submission ends, and with them what
\* the main task awaits.
LEMMA Owing ==
    ASSUME BenchInv, OwedInv
    PROVE  SomethingOwed
<1> SUFFICES ASSUME main # "done", ~MainOwes PROVE \E r \in Reqs : IsOwed(r)
  BY DEF SomethingOwed
<1>1. ASSUME NEW r \in Reqs, phase[r] = "serving" PROVE IsOwed(r)
  <2>1. CASE call[r] = "open"
    BY <1>1, <2>1 DEF IsOwed, Cut
  <2>2. CASE call[r] # "open"
    BY <1>1, <2>2 DEF IsOwed, CallLive, OwedInv
  <2> QED
    BY <2>1, <2>2
<1>2. ASSUME NEW r \in Reqs, task[r] \in {"early", "inside", "drain"} PROVE IsOwed(r)
  <2>1. CASE task[r] = "early"
    BY <2>1 DEF OwedInv, IsOwed
  <2>2. CASE task[r] \in {"inside", "drain"}
    <3>1. phase[r] \in {"waiting", "serving", "done"}
      BY <2>2 DEF OwedInv, BenchInv, TypeOK
    <3> QED
      BY <1>1, <2>2, <3>1 DEF IsOwed
  <2> QED
    BY <1>2, <2>1, <2>2
<1>3. main \in {"gather", "teardown", "close"}
  BY DEF MainOwes, OwedInv, BenchInv, TypeOK
<1>4. CASE main = "close"
  <2>1. PICK r \in Reqs : phase[r] = "serving"
    BY <1>4 DEF MainOwes, Queue!In
  <2> QED
    BY <1>1, <2>1
<1>5. CASE main = "teardown"
  <2>1. PICK r \in Reqs : ~TaskOver(r)
    BY <1>5 DEF MainOwes, Unfinished
  <2>2. task[r] \in {"early", "inside", "drain"}
    BY <1>5, <2>1 DEF TaskOver, OwedInv, BenchInv, TypeOK, TaskStates
  <2> QED
    BY <1>2, <2>2
<1>6. CASE main = "gather"
  <2>1. stop \in {"no", "asked"}
    BY <1>6 DEF BenchInv, TypeOK, MainMatches
  <2>2. PICK r \in Reqs : task[r] \notin {"returned", "failed", "cancelled", "none"}
    <3>1. CASE stop = "asked"
      BY <1>6, <3>1 DEF MainOwes, Unfinished, TaskOver, OwedInv
    <3>2. CASE stop = "no"
      BY <1>6, <3>2 DEF MainOwes, OwedInv
    <3> QED
      BY <2>1, <3>1, <3>2
  <2>3. task[r] \in {"early", "inside", "drain"}
    BY <2>2 DEF BenchInv, TypeOK, TaskStates
  <2> QED
    BY <1>2, <2>3
<1> QED
  BY <1>3, <1>4, <1>5, <1>6

\* Until the end, the main task, a submission, the queue, a deadline or a cancelled
\* backend has a step to take: the main task never waits for submissions that wait
\* for it, nor for calls that nobody ends (benchmark.py:152-183).
THEOREM SomethingIsOwed == BenchSpec => []SomethingOwed
<1>1. BenchInit => OwedInv
  <2> SUFFICES ASSUME BenchInit PROVE OwedInv
    OBVIOUS
  <2>1. Queue!In("serving") = {}
    BY DEF BenchInit, Queue!Init, Queue!In
  <2>2. SlotsHold
    BY <2>1, ServingFinite, FS_EmptySet DEF SlotsHold
  <2> QED
    BY <2>2, ServingFinite DEF BenchInit, OwedInv
<1>2. BenchInv /\ OwedInv /\ [BenchNext]_vars => OwedInv'
  <2> SUFFICES ASSUME BenchInv, OwedInv, [BenchNext]_vars PROVE OwedInv'
    OBVIOUS
  <2>1. CASE UNCHANGED vars
    <3>1. SlotsHold'
      BY <2>1, ServingKept DEF OwedInv, vars, queueVars
    <3> QED
      BY <2>1, <3>1 DEF OwedInv, vars, queueVars, runVars
  <2> QED
    BY <2>1, OwedAfterCalls, OwedAfterQueue, OwedAfterTasks, OwedAfterMain DEF BenchNext
<1>3. BenchInv /\ OwedInv => SomethingOwed
  BY Owing
<1> QED
  BY <1>1, <1>2, <1>3, BenchInvariant, PTL DEF BenchSpec
-----------------------------------------------------------------------------
(* No step is undone.                                                      *)

\* How far a submission, its request and its backend call are from their ends.
TaskLeft(r) == CASE task[r] = "early" -> 3 [] task[r] = "inside" -> 2
                 [] task[r] = "drain" -> 1 [] OTHER -> 0
PhaseLeft(r) == CASE phase[r] = "new" -> 3 [] phase[r] = "waiting" -> 2
                  [] phase[r] = "serving" -> 1 [] OTHER -> 0
CallLeft(r) == CASE call[r] = "none" -> 5 [] call[r] = "new" -> 4
                 [] call[r] = "open" -> (IF telemetry[r].spoke THEN 2 ELSE 3)
                 [] call[r] \in {"doomed", "stopping"} -> 1 [] OTHER -> 0
Left(r) == TaskLeft(r) + PhaseLeft(r) + CallLeft(r)

\* How far the main task is from its end, with its cancellation and its sampler.
PlaceLeft == CASE main = "gather" -> 4 [] main = "teardown" -> 3 [] main = "close" -> 2
               [] main \in {"ready", "leave"} -> 1 [] OTHER -> 0
StopLeft == CASE stop = "no" -> 2 [] stop = "asked" -> 1 [] OTHER -> 0
SamplerLeft == CASE sampler = "on" -> 2 [] sampler = "stopping" -> 1 [] OTHER -> 0
MainLeft == 5 * (Repetitions - rep) + PlaceLeft + StopLeft + SamplerLeft

\* A step brings the main task nearer to its end, or leaves it where it is and
\* brings a request nearer to its end, and none away from it.
Forward ==
    \/ MainLeft' < MainLeft
    \/ /\ MainLeft' = MainLeft
       /\ \A r \in Reqs : Left(r)' <= Left(r)
       /\ \E r \in Reqs : Left(r)' < Left(r)

LEMMA LeftTyped ==
    /\ \A r \in Reqs : TaskLeft(r) \in 0 .. 3 /\ PhaseLeft(r) \in 0 .. 3 /\ CallLeft(r) \in 0 .. 5
    /\ PlaceLeft \in 0 .. 4 /\ StopLeft \in 0 .. 2 /\ SamplerLeft \in 0 .. 2
<1>1. ASSUME NEW r \in Reqs PROVE TaskLeft(r) \in 0 .. 3
  BY DEF TaskLeft
<1>2. ASSUME NEW r \in Reqs PROVE PhaseLeft(r) \in 0 .. 3
  BY DEF PhaseLeft
<1>3. ASSUME NEW r \in Reqs PROVE CallLeft(r) \in 0 .. 5
  BY DEF CallLeft
<1>4. PlaceLeft \in 0 .. 4
  BY DEF PlaceLeft
<1>5. StopLeft \in 0 .. 2 /\ SamplerLeft \in 0 .. 2
  BY DEF StopLeft, SamplerLeft
<1> QED
  BY <1>1, <1>2, <1>3, <1>4, <1>5

\* Both sides of a step.
LEMMA LeftTypedNext ==
    \A r \in Reqs : TaskLeft(r)' \in 0 .. 3 /\ PhaseLeft(r)' \in 0 .. 3 /\ CallLeft(r)' \in 0 .. 5
<1>1. ASSUME NEW r \in Reqs PROVE TaskLeft(r)' \in 0 .. 3
  BY DEF TaskLeft
<1>2. ASSUME NEW r \in Reqs PROVE PhaseLeft(r)' \in 0 .. 3
  BY DEF PhaseLeft
<1>3. ASSUME NEW r \in Reqs PROVE CallLeft(r)' \in 0 .. 5
  BY DEF CallLeft
<1> QED
  BY <1>1, <1>2, <1>3

\* It is enough to look at the parts of each request.
LEMMA RequestsForward ==
    ASSUME UNCHANGED runVars,
           \A q \in Reqs : /\ TaskLeft(q)' <= TaskLeft(q) /\ PhaseLeft(q)' <= PhaseLeft(q)
                           /\ CallLeft(q)' <= CallLeft(q),
           NEW r \in Reqs,
           \/ TaskLeft(r)' < TaskLeft(r) \/ PhaseLeft(r)' < PhaseLeft(r)
           \/ CallLeft(r)' < CallLeft(r)
    PROVE  Forward
<1>1. MainLeft' = MainLeft
  BY DEF runVars, MainLeft, PlaceLeft, StopLeft, SamplerLeft
<1>2. ASSUME NEW q \in Reqs PROVE Left(q)' <= Left(q)
  BY LeftTyped, LeftTypedNext DEF Left
<1>3. Left(r)' < Left(r)
  BY LeftTyped, LeftTypedNext DEF Left
<1> QED
  BY <1>1, <1>2, <1>3 DEF Forward

\* What the queue does to a request and its call is never undone.
LEMMA ServedForward ==
    ASSUME TypeOK, CallsReport, UNCHANGED telemetry, NEW q \in Reqs, Served(q)
    PROVE  /\ PhaseLeft(q)' <= PhaseLeft(q) /\ CallLeft(q)' <= CallLeft(q)
           /\ phase[q] \in {"waiting", "serving"} /\ phase'[q] = "done"
              => PhaseLeft(q)' < PhaseLeft(q)
           /\ call'[q] = Cut(call[q]) /\ Cut(call[q]) # call[q] => CallLeft(q)' < CallLeft(q)
<1>1. phase[q] \in {"new", "waiting", "serving", "done"} /\ telemetry'[q] = telemetry[q]
  BY DEF TypeOK
<1>2. PhaseLeft(q)' <= PhaseLeft(q)
  BY <1>1 DEF Served, PhaseLeft
<1>3. phase[q] \in {"new", "waiting"} => call[q] = "none"
  BY DEF CallsReport
<1>4. call'[q] = call[q] \/ call'[q] = Cut(call[q]) \/ (call[q] = "none" /\ call'[q] = "new")
  BY <1>3 DEF Served
<1>5. CallLeft(q)' <= CallLeft(q)
  BY <1>1, <1>4 DEF CallLeft, Cut
<1>6. phase[q] \in {"waiting", "serving"} /\ phase'[q] = "done" => PhaseLeft(q)' < PhaseLeft(q)
  BY DEF PhaseLeft
<1>7. call'[q] = Cut(call[q]) /\ Cut(call[q]) # call[q] => CallLeft(q)' < CallLeft(q)
  BY DEF CallLeft, Cut
<1> QED
  BY <1>2, <1>5, <1>6, <1>7

LEMMA CallsForward ==
    ASSUME BenchInv, NEW r \in Reqs, CallStep(r)
    PROVE  Forward
<1>1. PICK from \in {"new", "doomed", "open", "stopping"}, to \in CallStates :
         /\ CallGoes(r, from, to)
         /\ \/ /\ from = "new" /\ to = "open"
               /\ telemetry' = [telemetry EXCEPT ![r] = [of |-> rep, spoke |-> FALSE]]
            \/ /\ from = "open" /\ to = "open" /\ ~telemetry[r].spoke
               /\ telemetry' = [telemetry EXCEPT ![r].spoke = TRUE]
            \/ /\ to \in {"ok", "error", "mute", "cut"} /\ UNCHANGED telemetry
  BY DEF CallStep, CallStarts, CallSpeaks, CallEnds, CallStops, CallStates
<1>2. /\ call[r] = from /\ \A q \in Reqs : call'[q] = IF q = r THEN to ELSE call[q]
      /\ UNCHANGED <<queueVars, task, runVars>>
  BY <1>1 DEF CallGoes, BenchInv, TypeOK
<1>3. telemetry \in [Reqs -> [of : 0 .. Repetitions, spoke : BOOLEAN]]
  BY DEF BenchInv, TypeOK, Telemetry
<1>4. ASSUME NEW q \in Reqs, q # r PROVE telemetry'[q] = telemetry[q]
  BY <1>1, <1>3, <1>4
<1>5. ASSUME NEW q \in Reqs PROVE TaskLeft(q)' = TaskLeft(q) /\ PhaseLeft(q)' = PhaseLeft(q)
  BY <1>2 DEF TaskLeft, PhaseLeft, queueVars
<1>6. ASSUME NEW q \in Reqs, q # r PROVE CallLeft(q)' = CallLeft(q)
  BY <1>2, <1>4, <1>6 DEF CallLeft
<1>7. CallLeft(r)' < CallLeft(r)
  <2>1. CASE from = "new" /\ to = "open"
    BY <1>2, <2>1 DEF CallLeft
  <2>2. CASE from = "open" /\ to = "open"
    <3>1. ~telemetry[r].spoke /\ telemetry'[r].spoke
      BY <1>1, <1>3, <2>2
    <3> QED
      BY <1>2, <2>2, <3>1 DEF CallLeft
  <2>3. CASE to \in {"ok", "error", "mute", "cut"}
    BY <1>2, <2>3 DEF CallLeft
  <2> QED
    BY <1>1, <2>1, <2>2, <2>3
<1>8. \A q \in Reqs : /\ TaskLeft(q)' <= TaskLeft(q) /\ PhaseLeft(q)' <= PhaseLeft(q)
                      /\ CallLeft(q)' <= CallLeft(q)
  BY <1>5, <1>6, <1>7, LeftTyped, LeftTypedNext
<1> QED
  BY <1>2, <1>7, <1>8, RequestsForward

LEMMA QueueForward ==
    ASSUME BenchInv, CallsReport, NEW r \in Reqs,
           \/ QueueFinishes(r) \/ QueueTimesOut(r) \/ TaskStep(r) \/ SubmissionFails(r)
    PROVE  Forward
<1>1. (\A q \in Reqs : Served(q)) /\ UNCHANGED telemetry
  BY QueueServes
<1>2. \A q \in Reqs : PhaseLeft(q)' <= PhaseLeft(q) /\ CallLeft(q)' <= CallLeft(q)
  BY <1>1, ServedForward DEF BenchInv
<1>3. CASE QueueFinishes(r)
  <2>1. /\ phase[r] = "serving" /\ phase'[r] = "done"
        /\ UNCHANGED <<task, runVars>>
    BY <1>3, FinishShape DEF QueueFinishes, BenchInv
  <2>2. PhaseLeft(r)' < PhaseLeft(r)
    BY <1>1, <2>1, ServedForward DEF BenchInv
  <2>3. \A q \in Reqs : TaskLeft(q)' <= TaskLeft(q)
    BY <2>1, LeftTyped DEF TaskLeft
  <2> QED
    BY <1>2, <2>1, <2>2, <2>3, RequestsForward
<1>4. CASE QueueTimesOut(r)
  <2>1. UNCHANGED <<task, runVars>>
    BY <1>4 DEF QueueTimesOut
  <2>2. \/ phase[r] = "waiting" /\ phase'[r] = "done"
        \/ call'[r] = Cut(call[r]) /\ Cut(call[r]) # call[r]
    BY <1>4, GiveUpShape DEF QueueTimesOut, BenchInv, TypeOK
  <2>3. PhaseLeft(r)' < PhaseLeft(r) \/ CallLeft(r)' < CallLeft(r)
    BY <1>1, <2>2, ServedForward DEF BenchInv
  <2>4. \A q \in Reqs : TaskLeft(q)' <= TaskLeft(q)
    BY <2>1, LeftTyped DEF TaskLeft
  <2> QED
    BY <1>2, <2>1, <2>3, <2>4, RequestsForward
<1>5. CASE TaskStep(r) \/ SubmissionFails(r)
  <2>1. PICK from \in {"early", "inside", "drain"}, to \in TaskStates :
           /\ TaskGoes(r, from, to) /\ to # "early"
           /\ to = "inside" => from = "early"
           /\ to = "drain" => from = "inside"
    BY <1>5 DEF TaskStep, Submit, SubmissionReturns, SubmissionCancelled, SubmissionDrained,
                SubmissionFails, TaskStates
  <2>2. /\ task[r] = from /\ \A q \in Reqs : task'[q] = IF q = r THEN to ELSE task[q]
        /\ UNCHANGED runVars
    BY <2>1 DEF TaskGoes, BenchInv, TypeOK
  <2>3. TaskLeft(r)' < TaskLeft(r)
    BY <2>1, <2>2 DEF TaskLeft
  <2>4. ASSUME NEW q \in Reqs, q # r PROVE TaskLeft(q)' = TaskLeft(q)
    BY <2>2, <2>4 DEF TaskLeft
  <2>5. \A q \in Reqs : TaskLeft(q)' <= TaskLeft(q)
    BY <2>3, <2>4, LeftTyped, LeftTypedNext
  <2> QED
    BY <1>2, <2>2, <2>3, <2>5, RequestsForward
<1> QED
  BY <1>3, <1>4, <1>5

LEMMA MainForward ==
    ASSUME BenchInv, MainStep \/ SamplerEnds \/ CancelMain
    PROVE  Forward
<1>1. rep \in Int /\ Repetitions \in Int
  BY BenchmarkAssumption DEF BenchInv, TypeOK
<1>2. MainLeft' < MainLeft
  <2>1. CASE BeginRepetition
    <3>1. /\ rep' = rep + 1 /\ main = "ready" /\ main' = "gather"
          /\ UNCHANGED <<stop, sampler>>
      BY <2>1 DEF BeginRepetition
    <3>2. PlaceLeft' = PlaceLeft + 3 /\ StopLeft' = StopLeft /\ SamplerLeft' = SamplerLeft
      BY <3>1 DEF PlaceLeft, StopLeft, SamplerLeft
    <3> QED
      BY <1>1, <3>1, <3>2, LeftTyped DEF MainLeft
  <2>2. CASE ~BeginRepetition
    <3>1. /\ rep' = rep
          /\ \/ /\ main = "gather" /\ main' \in {"teardown", "close"} /\ UNCHANGED sampler
                /\ stop' = stop \/ (stop = "asked" /\ stop' = "thrown")
             \/ /\ main = "teardown" /\ main' = "close" /\ UNCHANGED sampler
                /\ stop' = stop \/ (stop = "asked" /\ stop' = "thrown")
             \/ /\ main = "close" /\ main' \in {"ready", "leave"}
                /\ sampler' = sampler \/ (sampler = "on" /\ sampler' = "stopping")
                /\ stop' = stop \/ (stop = "asked" /\ stop' = "thrown")
             \/ main = "leave" /\ main' = "done" /\ UNCHANGED <<stop, sampler>>
             \/ /\ UNCHANGED <<main, stop>> /\ sampler = "stopping" /\ sampler' = "over"
             \/ /\ UNCHANGED <<main, sampler>> /\ stop = "no" /\ stop' \in {"asked", "swallowed"}
      BY <2>2 DEF MainStep, Join, GatherRaises, TornDown, CloseQueue, Thrown, Closed, Leave,
                  SamplerEnds, CancelMain
    <3>2. /\ PlaceLeft' <= PlaceLeft /\ StopLeft' <= StopLeft /\ SamplerLeft' <= SamplerLeft
          /\ \/ PlaceLeft' < PlaceLeft \/ StopLeft' < StopLeft \/ SamplerLeft' < SamplerLeft
      BY <3>1 DEF PlaceLeft, StopLeft, SamplerLeft
    <3>3. /\ PlaceLeft \in Int /\ StopLeft \in Int /\ SamplerLeft \in Int
          /\ PlaceLeft' \in Int /\ StopLeft' \in Int /\ SamplerLeft' \in Int
      BY DEF PlaceLeft, StopLeft, SamplerLeft
    <3>4. PICK n \in Int : n = 5 * (Repetitions - rep)
      BY <1>1
    <3>5. /\ MainLeft = n + PlaceLeft + StopLeft + SamplerLeft
          /\ MainLeft' = n + PlaceLeft' + StopLeft' + SamplerLeft'
      BY <3>1, <3>4 DEF MainLeft
    <3>6. \A a, b, c, x, y, z \in Int :
             x <= a /\ y <= b /\ z <= c /\ (x < a \/ y < b \/ z < c) => n + x + y + z < n + a + b + c
      OBVIOUS
    <3>7. n + PlaceLeft' + StopLeft' + SamplerLeft' < n + PlaceLeft + StopLeft + SamplerLeft
      BY <3>2, <3>3, <3>6
    <3> QED
      BY <3>5, <3>7
  <2> QED
    BY <2>1, <2>2
<1> QED
  BY <1>2 DEF Forward

\* Whatever the queue, the calls, the deadlines and a cancellation do, no step of a
\* run is undone: a run takes at most so many steps of its main task, and between
\* two of them each request at most so many. With SomethingIsOwed, every run ends.
THEOREM RunsGoForward == BenchSpec => [][Forward]_vars
<1>1. BenchInit => CallsReport
  BY ReportsStart
<1>2. BenchInv /\ CallsReport /\ [BenchNext]_vars => CallsReport'
  BY ReportsStep
<1>3. BenchInv /\ CallsReport /\ [BenchNext]_vars => [Forward]_vars
  BY CallsForward, QueueForward, MainForward DEF BenchNext
<1> QED
  BY <1>1, <1>2, <1>3, BenchInvariant, PTL DEF BenchSpec
=============================================================================
