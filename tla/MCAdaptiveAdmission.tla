------------------------- MODULE MCAdaptiveAdmission -------------------------
(***************************************************************************)
(* AdaptiveAdmission for TLC: interchangeable requests under any policy,   *)
(* and thresholds 1, 2, 3, each left below its own.                        *)
(***************************************************************************)
EXTENDS AdaptiveAdmission, TLC

AnyWaiting(W, t) == W

MCTightenAt == [k \in 1 .. 3 |-> k]
MCRelaxAt == [k \in 1 .. 3 |-> k - 1]

\* Bound: a backend answers, or ends cancelled once it has been cancelled. (The
\* other outcomes change what is reported, not what is admitted.)
PlainOutcomes ==
    \A r \in Reqs : /\ backend[r] # "error"
                    /\ backend[r] = "cancelled" => forced[r] # "none"
                    /\ backend[r] = "success" => forced[r] = "none"

\* The tasks of r that have nothing left to decide: a caller with a result, a
\* watchdog before its sleep or after a cancellation, a runner before its await.
Settling(r) ==
    \/ caller[r] = "await" /\ result[r] # "none"
    \/ timer[r] \in {"new", "stopping", "doomed"}
    \/ runner[r] = "new" /\ BackendLive(r)

\* Bound: such a task goes first. Only a cancellation could still tell when it
\* ran, and aq_cancel has those in every order.
SettledFirst ==
    (\E r \in Reqs : Settling(r))
    => UNCHANGED <<now, mode, entryVars, backend, loopVars>>
       /\ <<caller, timer, runner>>' # <<caller, timer, runner>>

Symmetry == Permutations(Reqs)
=============================================================================
