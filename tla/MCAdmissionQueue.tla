-------------------------- MODULE MCAdmissionQueue --------------------------
(***************************************************************************)
(* Instances of AdmissionQueue for TLC. The policy may put any waiting     *)
(* request first, so what is checked holds under every policy. Requests    *)
(* are interchangeable, except that only some callers may be cancelled.    *)
(***************************************************************************)
EXTENDS QueueRefinesContract, TLC

AnyWaiting(W, t) == W

\* Bound: two requests enter the queue. Others meet it full, or not open.
TwoEntries == Cardinality({r \in Reqs : st[r] # "none"}) <= 2

Symmetry ==
    Permutations(CancellableCallers)
        \cup Permutations(Reqs \ CancellableCallers)
        \cup Permutations(Closers)
=============================================================================
