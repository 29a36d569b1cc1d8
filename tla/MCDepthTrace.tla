---------------------------- MODULE MCDepthTrace ----------------------------
(***************************************************************************)
(* DepthTrace for TLC, with the thresholds of MCAdaptiveClip, in units of  *)
(* half a request, and relax thresholds half a request under them.         *)
(***************************************************************************)
EXTENDS DepthTrace

MCTightenAt == [k \in 1 .. 3 |-> 2 * k]
MCRelaxAt == [k \in 1 .. 3 |-> 2 * k - 1]

\* The requests arrive together or up to 2 apart.
Gaps == {[i \in 1 .. N |-> Sum(gaps, 1 .. i - 1)] : gaps \in [1 .. N - 1 -> 0 .. 2]}
=============================================================================
