-------------------------- MODULE AdaptiveClipProofs --------------------------
(***************************************************************************)
(* Proofs about the adaptive controller, for all thresholds and holds that *)
(* the configuration accepts. ControlInv is inductive: an update's own     *)
(* clocks agree with the history of the pressure before and after it.      *)
(***************************************************************************)
EXTENDS AdaptiveClipHistory, FiniteSetTheorems, TLAPS

USE DEF Caps, Levels, NoTime

\* The count of the thresholds reached, by which the code finds its target
\* level, and the loop over them agree on whether a level is called for.
LEMMA TargetMeansAbove ==
    ASSUME NEW p \in Nat, level \in Levels
    PROVE  /\ Target(p) > level <=> Above(p) # {}
           /\ Target(p) <= level <=> Above(p) = {}
<1> DEFINE T == {k \in Caps : TightenAt[k] <= p}
<1>0. ASSUME NEW n \in Nat
      PROVE  IsFiniteSet(1 .. n) /\ Cardinality(1 .. n) = n
  <2>1. /\ IsFiniteSet(1 .. n)
        /\ Cardinality(1 .. n) = IF 1 > n THEN 0 ELSE n - 1 + 1
    <3>1. 1 \in Int /\ n \in Int
      OBVIOUS
    <3> QED
      BY <3>1, FS_Interval, Zenon
  <2> QED
    BY <2>1
<1>1. T = Reached(p) /\ T \subseteq 1 .. 3 /\ Target(p) = Cardinality(T)
  BY DEF Reached, Target
<1>2. IsFiniteSet(T) /\ Cardinality(T) \in Nat
  <2>1. IsFiniteSet(1 .. 3) /\ T \in SUBSET (1 .. 3)
    BY <1>0, <1>1
  <2> HIDE DEF T
  <2>2. IsFiniteSet(T)
    BY <2>1, FS_Subset, Zenon
  <2> QED
    BY <2>2, FS_CardinalityType, Zenon
<1>3. ASSUME Above(p) = {}
      PROVE  Cardinality(T) <= level
  <2>1. T \subseteq 1 .. level
    BY <1>1, <1>3 DEF Above
  <2>2. IsFiniteSet(1 .. level) /\ Cardinality(1 .. level) = level
    BY <1>0
  <2> QED
    BY <2>1, <2>2, FS_Subset
<1>4. ASSUME Above(p) # {}
      PROVE  Cardinality(T) > level
  <2>1. PICK k \in T : k > level
    BY <1>1, <1>4 DEF Above
  <2>2. 1 .. k \subseteq T
    BY <2>1, ClipAssumption
  <2>3. IsFiniteSet(1 .. k) /\ Cardinality(1 .. k) = k
    BY <1>0, <2>1
  <2>4. Cardinality(1 .. k) <= Cardinality(T)
    BY <1>2, <2>2, FS_Subset
  <2> HIDE DEF T
  <2> QED
    BY <1>1, <1>2, <2>1, <2>3, <2>4
<1> HIDE DEF T
<1> QED
  BY <1>1, <1>2, <1>3, <1>4

\* The larger of two depths, and the average, are depths.
LEMMA LargerType ==
    ASSUME NEW a \in Nat, NEW b \in Nat
    PROVE  Larger(a, b) \in Nat
BY DEF Larger

LEMMA AverageType ==
    ASSUME TypeOK, NEW b \in Average
    PROVE  b \in Nat
BY DEF TypeOK, Average

\* The hold clocks after the loop are times, and each runs from the first of
\* the updates that reached its threshold.
LEMMA ClocksFollowHistory ==
    ASSUME ControlInv, NEW p \in Nat
    PROVE  /\ HoldClocks(p) \in [Caps -> Times]
           /\ PressedSince(p) \in [Caps -> Times]
           /\ EasedSince(p) \in Times
           /\ \A k \in Caps : HoldClocks(p)[k] =
                 IF k > level THEN PressedSince(p)[k] ELSE NoTime
           /\ \A k \in Caps : HoldClocks(p)[k] # NoTime <=> k \in Above(p)
BY ClipAssumption DEF ControlInv, TypeOK, ClocksMatchHistory, HoldClocks, Times,
    Above, Began, Reached, PressedSince, EasedSince

-----------------------------------------------------------------------------
\* The controller starts in the invariant.
LEMMA InitControl == HistInit => ControlInv
BY ClipAssumption DEF HistInit, Init, ControlInit, ControlInv, TypeOK, Times,
    Triggers, ClocksMatchHistory, TargetHasHold, HoldsAreAudited, ActsPromptly

\* What an update under the pressure p does to the level rests on the history:
\* the four cases of _update_level.
LEMMA UpdateControl ==
    ASSUME ControlInv, NEW p \in Nat,
           qInst' \in Nat, qBar' \in Nat, last' = now, now' = now,
           Tighten(p) \/ AwaitTightening(p) \/ Keep(p) \/ Relax(p),
           pressed' = PressedSince(p),
           eased' = IF level' = level THEN EasedSince(p) ELSE NoTime
    PROVE  /\ ControlInv'
           /\ level' > level => /\ pressed'[level'] # NoTime
                                /\ now - pressed'[level'] >= TightenHold
           /\ level' < level => /\ level' = level - 1
                                /\ EasedSince(p) # NoTime
                                /\ now - EasedSince(p) >= RelaxHold
<1> DEFINE Goal == /\ ControlInv'
                   /\ level' > level => /\ pressed'[level'] # NoTime
                                        /\ now - pressed'[level'] >= TightenHold
                   /\ level' < level => /\ level' = level - 1
                                        /\ EasedSince(p) # NoTime
                                        /\ now - EasedSince(p) >= RelaxHold
<1> USE DEF Times
<1>0. /\ HoldClocks(p) \in [Caps -> Times] /\ PressedSince(p) \in [Caps -> Times]
      /\ EasedSince(p) \in Times
      /\ \A k \in Caps : HoldClocks(p)[k] =
            IF k > level THEN PressedSince(p)[k] ELSE NoTime
      /\ \A k \in Caps : HoldClocks(p)[k] # NoTime <=> k \in Above(p)
  BY ClocksFollowHistory
<1>1. now \in 0 .. MaxTime /\ level \in Levels /\ MaxTime \in Nat
      /\ TightenHold \in Nat /\ RelaxHold \in Nat /\ relaxing = eased
      /\ eased \in Times /\ (level = 0 => eased = NoTime)
  BY ClipAssumption DEF ControlInv, TypeOK, ClocksMatchHistory
<1>2. CASE Tighten(p)
  <2>1. /\ level' \in Elapsed(p) /\ level' \in Caps /\ level' > level
        /\ \A k \in Elapsed(p) : k <= level'
        /\ relaxing' = NoTime /\ trigger' = "TIGHTEN_HOLD_ELAPSED"
        /\ tightening' = [k \in Caps |-> IF k <= level' THEN NoTime
                                         ELSE HoldClocks(p)[k]]
    BY <1>2 DEF Tighten, Elapsed, Above, Reached
  <2>2. pressed'[level'] # NoTime /\ now - pressed'[level'] >= TightenHold
    BY <1>0, <2>1 DEF Elapsed
  <2>3. TypeOK' /\ TargetHasHold' /\ HoldsAreAudited'
    BY <1>0, <1>1, <2>1 DEF TypeOK, Triggers, TargetHasHold, HoldsAreAudited
  <2>4. ClocksMatchHistory'
    BY <1>0, <1>1, <2>1 DEF ClocksMatchHistory
  <2>5. ActsPromptly'
    <3>1. ASSUME NEW k \in Caps, k > level', pressed'[k] # NoTime
          PROVE  last' - pressed'[k] < TightenHold
      <4>1. k \notin Elapsed(p) /\ HoldClocks(p)[k] = pressed'[k]
        BY <1>0, <1>1, <2>1, <3>1
      <4> QED
        BY <1>0, <1>1, <3>1, <4>1 DEF Elapsed
    <3> QED
      BY <1>1, <2>1, <3>1 DEF ActsPromptly
  <2> QED
    BY <1>1, <2>1, <2>2, <2>3, <2>4, <2>5 DEF ControlInv
<1>3. ASSUME Elapsed(p) = {}
      PROVE  \A k \in Caps : k > level /\ PressedSince(p)[k] # NoTime
                             => now - PressedSince(p)[k] < TightenHold
  BY <1>0, <1>1, <1>3 DEF Elapsed
<1>4. CASE AwaitTightening(p)
  <2>1. /\ level' = level /\ tightening' = HoldClocks(p) /\ relaxing' = NoTime
        /\ Elapsed(p) = {} /\ Above(p) # {}
    BY <1>1, <1>4, TargetMeansAbove DEF AwaitTightening
  <2>2. trigger' \in {"TIGHTEN_HOLD_RESET", "TIGHTEN_HOLD_STARTED",
                      "TIGHTEN_HOLD_PENDING"}
    BY <1>4, <2>1 DEF AwaitTightening
  <2>3. EasedSince(p) = NoTime
    BY <1>1, <2>1, ClipAssumption DEF EasedSince, Above, Reached
  <2>4. TypeOK' /\ TargetHasHold' /\ HoldsAreAudited'
    BY <1>0, <1>1, <2>1, <2>2 DEF TypeOK, Triggers, TargetHasHold, HoldsAreAudited
  <2>5. ClocksMatchHistory' /\ ActsPromptly'
    BY <1>0, <1>1, <1>3, <2>1, <2>3 DEF ClocksMatchHistory, ActsPromptly
  <2> QED
    BY <1>1, <2>1, <2>4, <2>5 DEF ControlInv
<1>5. ASSUME Settled(p)
      PROVE  /\ Elapsed(p) = {} /\ tightening' = HoldClocks(p)
             /\ tightening' = [k \in Caps |-> NoTime]
             /\ \A k \in Caps : k > level => PressedSince(p)[k] = NoTime
  BY <1>0, <1>1, <1>5, TargetMeansAbove DEF Settled
<1>6. CASE Keep(p)
  <2>1. /\ level' = level /\ relaxing' = NoTime
        /\ trigger' \in {"RELAX_HOLD_RESET", "TIGHTEN_HOLD_RESET", "NO_CHANGE"}
        /\ (level > 0 => p >= RelaxAt[level])
    BY <1>6 DEF Keep
  <2>2. /\ tightening' = [k \in Caps |-> NoTime]
        /\ \A k \in Caps : k > level => pressed'[k] = NoTime
    BY <1>5, <1>6 DEF Keep
  <2>3. EasedSince(p) = NoTime
    BY <1>1, <2>1 DEF EasedSince
  <2>4. TypeOK' /\ TargetHasHold' /\ HoldsAreAudited'
    BY <1>1, <2>1, <2>2 DEF TypeOK, Triggers, TargetHasHold, HoldsAreAudited
  <2>5. ClocksMatchHistory' /\ ActsPromptly'
    BY <1>0, <1>1, <2>1, <2>2, <2>3 DEF ClocksMatchHistory, ActsPromptly
  <2> QED
    BY <1>1, <2>1, <2>4, <2>5 DEF ControlInv
<1>7. CASE Relax(p)
  <2> DEFINE since == IF relaxing = NoTime THEN now ELSE relaxing
  <2>1. level > 0 /\ p < RelaxAt[level] /\ Settled(p)
    BY <1>7 DEF Relax
  <2>2. since = EasedSince(p) /\ since \in 0 .. MaxTime
    BY <1>1, <2>1, ClipAssumption DEF EasedSince
  <2>3. /\ tightening' = [k \in Caps |-> NoTime]
        /\ \A k \in Caps : k > level => pressed'[k] = NoTime
    BY <1>5, <2>1
  <2>4. pressed'[level] = NoTime
    BY <1>1, <2>1, ClipAssumption DEF PressedSince
  <2>5. CASE /\ now - since >= RelaxHold
             /\ level' = level - 1 /\ relaxing' = NoTime
             /\ trigger' = "RELAX_HOLD_ELAPSED"
    <3>1. level' \in Levels /\ level' # level /\ eased' = NoTime
          /\ \A k \in Caps : k > level' => pressed'[k] = NoTime
      BY <1>1, <2>1, <2>3, <2>4, <2>5
    <3>2. TypeOK' /\ TargetHasHold' /\ HoldsAreAudited'
      BY <1>1, <2>3, <2>5, <3>1 DEF TypeOK, Triggers, TargetHasHold, HoldsAreAudited
    <3>3. ClocksMatchHistory' /\ ActsPromptly'
      BY <1>0, <1>1, <2>3, <2>5, <3>1 DEF ClocksMatchHistory, ActsPromptly
    <3> QED
      BY <1>1, <2>2, <2>5, <3>2, <3>3 DEF ControlInv
  <2>6. CASE /\ now - since < RelaxHold
             /\ level' = level /\ relaxing' = since
             /\ trigger' = IF relaxing = NoTime THEN "RELAX_HOLD_STARTED"
                           ELSE "RELAX_HOLD_PENDING"
    <3>1. TypeOK' /\ TargetHasHold' /\ HoldsAreAudited'
      BY <1>1, <2>2, <2>3, <2>6 DEF TypeOK, Triggers, TargetHasHold, HoldsAreAudited
    <3>2. ClocksMatchHistory' /\ ActsPromptly'
      BY <1>0, <1>1, <2>1, <2>2, <2>3, <2>6 DEF ClocksMatchHistory, ActsPromptly
    <3> QED
      BY <1>1, <2>6, <3>1, <3>2 DEF ControlInv
  <2> QED
    BY <1>7, <2>5, <2>6 DEF Relax
<1> QED
  BY <1>2, <1>4, <1>6, <1>7

\* Every step of the controller keeps the invariant, and changes the level only
\* on the evidence of the history.
LEMMA NextControl ==
    ASSUME ControlInv, [HistNext]_histVars
    PROVE  /\ ControlInv'
           /\ level' > level => /\ pressed'[level'] # NoTime
                                /\ now - pressed'[level'] >= TightenHold
           /\ level' < level => /\ level' = level - 1
                                /\ EasedSince(Pressure) # NoTime
                                /\ now - EasedSince(Pressure) >= RelaxHold
<1>1. CASE HistUpdate
  <2>1. PICK q \in Depths : Update(q)
    BY <1>1 DEF HistUpdate, UpdateStep
  <2>2. PICK b \in Average :
            /\ qBar' = b
            /\ LET p == Larger(q, b)
               IN Tighten(p) \/ AwaitTightening(p) \/ Keep(p) \/ Relax(p)
    BY <2>1 DEF Update
  <2>3. q \in Nat /\ b \in Nat /\ Larger(q, b) \in Nat
    BY AverageType, LargerType, ClipAssumption DEF ControlInv
  <2>4. qInst' = q /\ last' = now /\ now' = now /\ Pressure = Larger(q, b)
    BY <1>1, <2>1, <2>2 DEF Update, HistUpdate, UpdateStep, Pressure
  <2>5. /\ pressed' = PressedSince(Larger(q, b))
        /\ eased' = IF level' = level THEN EasedSince(Larger(q, b)) ELSE NoTime
    BY <1>1, <2>4 DEF HistUpdate
  <2> QED
    BY <2>2, <2>3, <2>4, <2>5, UpdateControl
<1>2. CASE HistTick
  <2>1. UNCHANGED <<level, qInst, qBar, last, tightening, relaxing, trigger,
                    pressed, eased>> /\ now' \in 0 .. MaxTime
    BY <1>2, ClipAssumption DEF HistTick, Tick, control, ControlInv, TypeOK
  <2>2. TypeOK' /\ ClocksMatchHistory' /\ TargetHasHold' /\ HoldsAreAudited'
        /\ ActsPromptly'
    BY <2>1 DEF ControlInv, TypeOK, ClocksMatchHistory, TargetHasHold,
        HoldsAreAudited, ActsPromptly
  <2> QED
    BY <2>1, <2>2 DEF ControlInv, TypeOK
<1>3. CASE UNCHANGED histVars
  <2>1. UNCHANGED <<now, level, qInst, qBar, last, tightening, relaxing, trigger,
                    pressed, eased>>
    BY <1>3 DEF histVars, control
  <2> QED
    BY <2>1 DEF ControlInv, TypeOK, ClocksMatchHistory, TargetHasHold,
        HoldsAreAudited, ActsPromptly
<1> QED
  BY <1>1, <1>2, <1>3 DEF HistNext

-----------------------------------------------------------------------------
\* The invariant of the controller (adaptive_clipping.py): its hold clocks are
\* the history of the pressure over the levels above the present one.
THEOREM ControllerInvariant == HistSpec => []ControlInv
<1>1. HistInit => ControlInv
  BY InitControl
<1>2. ControlInv /\ [HistNext]_histVars => ControlInv'
  BY NextControl
<1> QED
  BY <1>1, <1>2, PTL DEF HistSpec

\* The level, the clocks and the trigger stay what the code declares them to be.
THEOREM ControllerTypeCorrect == HistSpec => []TypeOK
<1>1. ControlInv => TypeOK
  BY DEF ControlInv
<1> QED
  BY <1>1, ControllerInvariant, PTL

\* The controller never runs into its own RuntimeError: a target above the level
\* always has a running hold.
THEOREM ControllerNeverRaises == HistSpec => []TargetHasHold
<1>1. ControlInv => TargetHasHold
  BY DEF ControlInv
<1> QED
  BY <1>1, ControllerInvariant, PTL

\* At most one kind of hold runs, and the last trigger shows it.
THEOREM HoldsAreVisible == HistSpec => []HoldsAreAudited
<1>1. ControlInv => HoldsAreAudited
  BY DEF ControlInv
<1> QED
  BY <1>1, ControllerInvariant, PTL

\* A level is entered, or left, as soon as an update sees a whole hold.
THEOREM ControllerIsPrompt == HistSpec => []ActsPromptly
<1>1. ControlInv => ActsPromptly
  BY DEF ControlInv
<1> QED
  BY <1>1, ControllerInvariant, PTL

\* A level is entered only on its own evidence: no threshold borrows the time
\* of a lower one.
THEOREM LevelsAreEarned == HistSpec => RisesOnOwnEvidence
<1>1. ControlInv /\ [HistNext]_histVars =>
        [level' > level => /\ pressed'[level'] # NoTime
                           /\ now - pressed'[level'] >= TightenHold]_histVars
  BY NextControl
<1> QED
  BY <1>1, ControllerInvariant, PTL DEF HistSpec, RisesOnOwnEvidence

\* A level is left only downwards by one, after a whole relax hold spent on it.
THEOREM LevelsAreLeftSlowly == HistSpec => FallsOneHoldAtATime
<1>1. ControlInv /\ [HistNext]_histVars =>
        [level' < level => /\ level' = level - 1
                           /\ EasedSince(Pressure) # NoTime
                           /\ now - EasedSince(Pressure) >= RelaxHold]_histVars
  BY NextControl
<1> QED
  BY <1>1, ControllerInvariant, PTL DEF HistSpec, FallsOneHoldAtATime
=============================================================================
