------------------------- MODULE AdaptiveClipHistory -------------------------
(***************************************************************************)
(* AdaptiveClip with history variables, to say what a change of level      *)
(* rests on: since when every update has seen a pressure over a threshold, *)
(* and since when every update has seen less than the present level asks.  *)
(* They look at the pressure alone, not at the hold clocks of the code.    *)
(***************************************************************************)
EXTENDS AdaptiveClip

VARIABLES
    pressed,   \* per level, the first of the last updates, all of which
               \* reached its threshold
    eased      \* the first of the last updates, all of which saw a pressure
               \* under the relax threshold of the present level

histVars == <<now, control, pressed, eased>>

HistInit ==
    /\ Init
    /\ pressed = [k \in Caps |-> NoTime] /\ eased = NoTime

\* The pressure that the present update saw.
Pressure == Larger(qInst', qBar')

\* What the history is once this update has seen the pressure p.
PressedSince(p) ==
    [k \in Caps |-> IF TightenAt[k] > p THEN NoTime
                    ELSE IF pressed[k] = NoTime THEN now ELSE pressed[k]]
EasedSince(p) ==
    IF level = 0 THEN NoTime
    ELSE IF p >= RelaxAt[level] THEN NoTime
    ELSE IF eased = NoTime THEN now ELSE eased

HistUpdate ==
    /\ UpdateStep
    /\ pressed' = PressedSince(Pressure)
    /\ eased' = IF level' = level THEN EasedSince(Pressure) ELSE NoTime

HistTick == Tick /\ UNCHANGED <<pressed, eased>>

HistNext == HistUpdate \/ HistTick

HistSpec == HistInit /\ [][HistNext]_histVars

-----------------------------------------------------------------------------
\* The level rises only to a level whose own threshold every update of the
\* last tighten hold has reached: a higher threshold, only just crossed, never
\* borrows the time of a lower one.
RisesOnOwnEvidence ==
    [][level' > level => /\ pressed'[level'] # NoTime
                         /\ now - pressed'[level'] >= TightenHold]_histVars

\* The level falls by one, and only when every update of a whole relax hold,
\* spent on this level, has seen less than the level's relax threshold: from L3
\* to L0 takes three holds, one after the other.
FallsOneHoldAtATime ==
    [][level' < level => /\ level' = level - 1
                         /\ EasedSince(Pressure) # NoTime
                         /\ now - EasedSince(Pressure) >= RelaxHold]_histVars

\* It changes as soon as an update sees that evidence: after an update, no
\* higher level has been called for during a whole tighten hold, and the
\* present one has not gone unneeded for a whole relax hold.
ActsPromptly ==
    /\ \A k \in Caps : k > level /\ pressed[k] # NoTime
                       => last - pressed[k] < TightenHold
    /\ eased # NoTime => last - eased < RelaxHold

\* Why the code, which keeps no history, gets this right: its hold clocks hold
\* the history of every level above the present one.
ClocksMatchHistory ==
    /\ pressed \in [Caps -> Times] /\ eased \in Times
    /\ relaxing = eased
    /\ level = 0 => eased = NoTime
    /\ \A k \in Caps : tightening[k] = IF k > level THEN pressed[k] ELSE NoTime

\* The inductive invariant of the controller.
ControlInv ==
    /\ TypeOK /\ ClocksMatchHistory
    /\ TargetHasHold /\ HoldsAreAudited /\ ActsPromptly
=============================================================================
