---------------------------- MODULE MCAdaptiveClip ----------------------------
(***************************************************************************)
(* AdaptiveClip for TLC, with thresholds in the proportions of the default *)
(* configuration (1, 2, 3 and 0.25, 0.75, 1.5, in units of a half, the     *)
(* lowest two relax thresholds rounded to whole units).                    *)
(***************************************************************************)
EXTENDS AdaptiveClipHistory

MCDepths == {0, 2, 4, 6}
MCTightenAt == [k \in Caps |-> 2 * k]
MCRelaxAt == [k \in Caps |-> k]
=============================================================================
