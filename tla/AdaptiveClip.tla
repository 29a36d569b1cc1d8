---------------------------- MODULE AdaptiveClip ----------------------------
(***************************************************************************)
(* The controller of the adaptive output cap                               *)
(* (router/adaptive_clipping.py): a level L0 (no cap) to L3 (the tightest),*)
(* driven by the waiting depth it is shown at each update. A level is      *)
(* entered once the pressure has stayed over its threshold for a hold time,*)
(* and left, one level at a time, once it has stayed under a lower         *)
(* threshold for another.                                                  *)
(*                                                                         *)
(* Depths, thresholds and the moving average are counted in units of which *)
(* every threshold is a multiple; the average is rounded down to units,    *)
(* which no comparison notices. Its exponential weights are abstracted: in *)
(* time it moves anywhere from where it is to the depth last shown.        *)
(***************************************************************************)
EXTENDS Integers, FiniteSets

CONSTANTS
    Depths,        \* the depths update may be called with
    TightenAt,     \* adaptive_clip_tighten_thresholds
    RelaxAt,       \* adaptive_clip_relax_thresholds
    TightenHold,   \* adaptive_clip_tighten_hold_s, in ticks
    RelaxHold,     \* adaptive_clip_relax_hold_s, in ticks
    MaxTime        \* bound of the model: the clock stops here

Caps == 1 .. 3     \* the levels that cap, L1 to L3
Levels == 0 .. 3
NoTime == -1       \* None

\* What AdmissionControlConfig validates of the thresholds and holds.
ASSUME ClipAssumption ==
    /\ Depths \subseteq Nat
    /\ TightenAt \in [Caps -> Nat] /\ RelaxAt \in [Caps -> Nat]
    /\ \A k \in Caps : RelaxAt[k] < TightenAt[k]
    /\ \A j, k \in Caps : j < k => TightenAt[j] < TightenAt[k]
                                   /\ RelaxAt[j] < RelaxAt[k]
    /\ TightenHold \in Nat /\ RelaxHold \in Nat
    /\ MaxTime \in Nat

VARIABLES
    now,        \* self._clock()
    level,      \* self._level
    qInst,      \* self._q_inst
    qBar,       \* self._q_bar
    last,       \* self._last_update_s
    tightening, \* self._tighten_since_s
    relaxing,   \* self._relax_since_s
    trigger     \* trigger_reason of the last decision

control == <<level, qInst, qBar, last, tightening, relaxing, trigger>>

Times == {NoTime} \cup 0 .. MaxTime
Triggers == {"NO_CHANGE", "TIGHTEN_HOLD_STARTED", "TIGHTEN_HOLD_PENDING",
             "TIGHTEN_HOLD_RESET", "TIGHTEN_HOLD_ELAPSED", "RELAX_HOLD_STARTED",
             "RELAX_HOLD_PENDING", "RELAX_HOLD_RESET", "RELAX_HOLD_ELAPSED",
             "RuntimeError"}

TypeOK ==
    /\ now \in 0 .. MaxTime
    /\ level \in Levels
    /\ qInst \in Nat /\ qBar \in Nat
    /\ last \in Times
    /\ tightening \in [Caps -> Times]
    /\ relaxing \in Times
    /\ trigger \in Triggers

ControlInit ==
    /\ level = 0 /\ qInst = 0 /\ qBar = 0 /\ last = NoTime
    /\ tightening = [k \in Caps |-> NoTime] /\ relaxing = NoTime
    /\ trigger = "NO_CHANGE"

Init == now = 0 /\ ControlInit

-----------------------------------------------------------------------------
Larger(a, b) == IF a >= b THEN a ELSE b

\* Where the average may be by now.
Average ==
    IF last = NoTime \/ last = now THEN {qBar}
    ELSE (qBar .. qInst) \cup (qInst .. qBar)

\* bisect_right: how many thresholds the pressure p has reached.
Target(p) == Cardinality({k \in Caps : TightenAt[k] <= p})

\* Mutant: the loop compares strictly, unlike bisect_right.
ReachedStrictly(p) == {k \in Caps : TightenAt[k] < p}

\* The loop over the thresholds.
Reached(p) == {k \in Caps : TightenAt[k] <= p}
Above(p) == {k \in Reached(p) : k > level}
Began(p) == {k \in Above(p) : tightening[k] = NoTime}
Fell(p) == {k \in Caps \ Reached(p) : k > level /\ tightening[k] # NoTime}

\* Mutant: one clock serves every threshold.
HoldClocksShared(p) ==
    LET running == {tightening[j] : j \in Above(p)} \ {NoTime}
    IN [k \in Caps |->
          IF k \notin Above(p) THEN NoTime
          ELSE IF running = {} THEN now
          ELSE CHOOSE s \in running : \A u \in running : s <= u]

\* Mutant: a fall below the threshold does not stop the hold.
HoldClocksKept(p) ==
    [k \in Caps |-> IF k <= level THEN NoTime
                    ELSE IF k \in Began(p) THEN now ELSE tightening[k]]

\* The start of each running hold after the loop.
HoldClocks(p) ==
    [k \in Caps |-> IF k \notin Above(p) THEN NoTime
                    ELSE IF k \in Began(p) THEN now ELSE tightening[k]]

\* Mutant: a hold that is exactly over does not count.
ElapsedLate(p) == {k \in Above(p) : now - HoldClocks(p)[k] > TightenHold}

Elapsed(p) == {k \in Above(p) : now - HoldClocks(p)[k] >= TightenHold}

\* Some hold is over: straight to the tightest level that earned it.
Tighten(p) ==
    /\ Elapsed(p) # {}
    /\ level' \in Elapsed(p) /\ \A k \in Elapsed(p) : k <= level'
    /\ tightening' = [k \in Caps |-> IF k <= level' THEN NoTime
                                     ELSE HoldClocks(p)[k]]
    /\ relaxing' = NoTime
    /\ trigger' = "TIGHTEN_HOLD_ELAPSED"

\* A tighter level is called for, but its hold is not over.
AwaitTightening(p) ==
    /\ Elapsed(p) = {} /\ Target(p) > level
    /\ level' = level /\ tightening' = HoldClocks(p) /\ relaxing' = NoTime
    /\ trigger' = CASE Fell(p) # {} -> "TIGHTEN_HOLD_RESET"
                    [] Fell(p) = {} /\ Began(p) # {} -> "TIGHTEN_HOLD_STARTED"
                    [] Fell(p) = {} /\ Began(p) = {} /\ Above(p) # {} ->
                          "TIGHTEN_HOLD_PENDING"
                    [] OTHER -> "RuntimeError"

Settled(p) ==
    /\ Elapsed(p) = {} /\ Target(p) <= level
    /\ tightening' = HoldClocks(p)

\* The pressure calls for no less than the present level.
Keep(p) ==
    /\ Settled(p)
    /\ level > 0 => p >= RelaxAt[level]
    /\ level' = level /\ relaxing' = NoTime
    /\ trigger' = IF level > 0 /\ relaxing # NoTime THEN "RELAX_HOLD_RESET"
                  ELSE IF Fell(p) # {} THEN "TIGHTEN_HOLD_RESET"
                  ELSE "NO_CHANGE"

\* Mutant: two levels are left at once.
RelaxTwo(p) ==
    /\ Settled(p)
    /\ level > 0 /\ p < RelaxAt[level]
    /\ LET since == IF relaxing = NoTime THEN now ELSE relaxing
       IN /\ level' = IF now - since >= RelaxHold THEN level - 2 ELSE level
          /\ relaxing' = IF level' = level THEN since ELSE NoTime
          /\ trigger' = IF level' # level THEN "RELAX_HOLD_ELAPSED"
                        ELSE IF relaxing = NoTime THEN "RELAX_HOLD_STARTED"
                        ELSE "RELAX_HOLD_PENDING"

\* Mutant: the hold is not restarted after a level has been left.
RelaxKept(p) ==
    /\ Settled(p)
    /\ level > 0 /\ p < RelaxAt[level]
    /\ LET since == IF relaxing = NoTime THEN now ELSE relaxing
       IN \/ /\ now - since >= RelaxHold
             /\ level' = level - 1 /\ relaxing' = since
             /\ trigger' = "RELAX_HOLD_ELAPSED"
          \/ /\ now - since < RelaxHold
             /\ level' = level /\ relaxing' = since
             /\ trigger' = IF relaxing = NoTime THEN "RELAX_HOLD_STARTED"
                           ELSE "RELAX_HOLD_PENDING"

\* The pressure is under the relax threshold of the present level.
Relax(p) ==
    /\ Settled(p)
    /\ level > 0 /\ p < RelaxAt[level]
    /\ LET since == IF relaxing = NoTime THEN now ELSE relaxing
       IN \/ /\ now - since >= RelaxHold
             /\ level' = level - 1 /\ relaxing' = NoTime
             /\ trigger' = "RELAX_HOLD_ELAPSED"
          \/ /\ now - since < RelaxHold
             /\ level' = level /\ relaxing' = since
             /\ trigger' = IF relaxing = NoTime THEN "RELAX_HOLD_STARTED"
                           ELSE "RELAX_HOLD_PENDING"

\* update(q): the average takes in the depth that was shown before, then the
\* level follows the larger of q and the average.
Update(q) ==
    /\ \E b \in Average :
          /\ qBar' = b
          /\ LET p == Larger(q, b)
             IN Tighten(p) \/ AwaitTightening(p) \/ Keep(p) \/ Relax(p)
    /\ qInst' = q /\ last' = now

-----------------------------------------------------------------------------
UpdateStep == (\E q \in Depths : Update(q)) /\ UNCHANGED now

Tick == now < MaxTime /\ now' = now + 1 /\ UNCHANGED control

Next == UpdateStep \/ Tick

Spec == Init /\ [][Next]_<<now, control>>

-----------------------------------------------------------------------------
\* The "tighten target has no hold state" error is never raised.
TargetHasHold == trigger # "RuntimeError"

\* At most one kind of hold is running, and the last decision's trigger tells
\* which: the decision log alone shows every hold that is under way.
HoldsAreAudited ==
    /\ relaxing # NoTime <=> trigger \in {"RELAX_HOLD_STARTED", "RELAX_HOLD_PENDING"}
    /\ (\E k \in Caps : tightening[k] # NoTime)
       => trigger \in {"TIGHTEN_HOLD_STARTED", "TIGHTEN_HOLD_PENDING",
                       "TIGHTEN_HOLD_RESET", "TIGHTEN_HOLD_ELAPSED"}
=============================================================================
