-------------------------- MODULE AdmissionContract --------------------------
(***************************************************************************)
(* What AdmissionQueue promises its callers, without tasks, cancellations  *)
(* or a clock: a request is accepted when there is room, starts as soon as *)
(* a slot is free, holds its slot until it is answered, and is answered    *)
(* once. When no accept or finish is taking place nobody waits beside a    *)
(* free slot, and after the gate is shut nothing is accepted or started.   *)
(***************************************************************************)
EXTENDS Integers, FiniteSets

CONSTANTS Reqs, MaxInFlight, Capacity

VARIABLES
    gate,    \* "new", "open" or "shut"
    phase,   \* of each request: "new", "waiting", "serving" or "done"
    answer   \* the status reported for it; "none" until it is done

vars == <<gate, phase, answer>>

In(p) == {r \in Reqs : phase[r] = p}

Init ==
    /\ gate = "new"
    /\ phase = [r \in Reqs |-> "new"]
    /\ answer = [r \in Reqs |-> "none"]

OpenGate == gate = "new" /\ gate' = "open" /\ UNCHANGED <<phase, answer>>

\* The requests of w are waiting and r, if it is in `over', gives its slot
\* back with some answer. Those of `late' are answered TIMEOUT, those of
\* `start' get a slot, and whoever is left waits for good reason.
Settle(w, over, late, start) ==
    /\ late \cap start = {}
    /\ late \cup start \subseteq w
    /\ LET left == w \ (late \cup start)
           busy == (In("serving") \ over) \cup start
       IN /\ Cardinality(busy) <= MaxInFlight
          /\ left # {} => Cardinality(busy) = MaxInFlight
          /\ phase' = [r \in Reqs |-> CASE r \in left -> "waiting"
                                        [] r \in start -> "serving"
                                        [] r \in late \cup over -> "done"
                                        [] OTHER -> phase[r]]
          /\ \E f \in [over -> {"SUCCESS", "ERROR", "TIMEOUT", "CANCELLED"}] :
                answer' = [r \in Reqs |-> CASE r \in over -> f[r]
                                            [] r \in late -> "TIMEOUT"
                                            [] OTHER -> answer[r]]

Accept(r) ==
    /\ gate = "open" /\ phase[r] = "new"
    /\ Cardinality(In("waiting")) < Capacity
    /\ \E late \in SUBSET (In("waiting") \cup {r}),
         start \in SUBSET (In("waiting") \cup {r}) :
          Settle(In("waiting") \cup {r}, {}, late, start)
    /\ UNCHANGED gate

Finish(r) ==
    /\ phase[r] = "serving"
    /\ \E late \in SUBSET In("waiting"), start \in SUBSET In("waiting") :
          /\ gate = "shut" => late \cup start = {}
          /\ Settle(In("waiting"), {r}, late, start)
    /\ UNCHANGED gate

\* Requests that wait may be given up: one by one, or all when the gate shuts.
Drop(S, status) ==
    /\ phase' = [r \in Reqs |-> IF r \in S THEN "done" ELSE phase[r]]
    /\ answer' = [r \in Reqs |-> IF r \in S THEN status ELSE answer[r]]

GiveUp(r) ==
    /\ r \in In("waiting")
    /\ \E status \in {"TIMEOUT", "CANCELLED"} : Drop({r}, status)
    /\ UNCHANGED gate

Shut == gate' = "shut" /\ Drop(In("waiting"), "CANCELLED")

Next ==
    \/ OpenGate \/ Shut
    \/ \E r \in Reqs : Accept(r) \/ Finish(r) \/ GiveUp(r)

Spec == Init /\ [][Next]_vars
=============================================================================
