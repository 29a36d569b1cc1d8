--------------------------- MODULE ExperimentProofs ---------------------------
(***************************************************************************)
(* Theorems about sweeps and the correctness experiment, for every set of  *)
(* files, points, policies and outcomes: whose results a row holds, which  *)
(* files are kept, what is clipped, and what the audit accepts.            *)
(***************************************************************************)
EXTENDS Experiments, FiniteSetTheorems, FunctionTheorems, TLAPS

HasFields(c) == DOMAIN FieldTypes \subseteq DOMAIN c /\ Typed(c)

\* What config.py promises of the caps of the levels.
CapsHold(c) == /\ Len(c.caps) = 3 /\ CapsOrdered(c.caps)
               /\ \A i \in 1 .. 3 : c.caps[i] >= MinCap

\* What it promises of the workload.
WorkloadHolds(c) == /\ c.total >= 1 /\ c.warmup >= 0 /\ c.repetitions >= 1
                    /\ c.lengthModel = "realistic" => c.mixture # {}

\* The configuration of point i.
Config(i) == ConfigForPoint(base, points[i])

\* What has been loaded is valid; a point overrides only what it may.
LoadMatches ==
    /\ kind \in {"sweep", "correctness"}
    /\ points \in Seq(ToSet(points))
    /\ stage = "load" => points = <<>>
    /\ points # <<>> => HasFields(base) /\ CapsHold(base) /\ WorkloadHolds(base)
    /\ \A i \in 1 .. Len(points) :
          /\ Typed(points[i].set) /\ DOMAIN points[i].set \subseteq Overridable
          /\ points[i].label.words \in Seq(ToSet(points[i].label.words))
          /\ kind = "correctness" => i \in 1 .. Len(Policies) /\ points[i] = PolicyPoints[i]

\* The benchmark that runs is that of the next point, with a fresh backend.
RunMatches ==
    stage = "running" => /\ Len(rows) < Len(points) /\ config = Config(Current)
                         /\ CapsHold(config) /\ telemetry = {}

\* A row and a file of point i come from one and the same benchmark.
RowFits(i, row, file) ==
    /\ row.label = points[i].label /\ row.config = Config(i) /\ row.saw = {i}
    /\ CapsHold(Config(i))
    /\ \E outcome \in Outcomes :
          /\ DOMAIN outcome = Requests(Config(i))
          /\ \A r \in Records(Config(i), outcome) : Coherent(r)
          /\ row.results = Results(Config(i), Formal(Config(i), Records(Config(i), outcome)))
          /\ file = Written(i, Config(i), outcome)

RowsMatch ==
    /\ rows \in Seq(ToSet(rows)) /\ Len(rows) <= Len(points)
    /\ DOMAIN files = {Stem(i) : i \in 1 .. Len(rows)}
    /\ \A i \in 1 .. Len(rows) : RowFits(i, rows[i], files[Stem(i)])

Reconciles == MatrixFits /\ \A i \in 1 .. Len(points) : PointReconciles(i)

TableMatches ==
    /\ stage \in {"done", "audited", "refused"} => table = rows /\ Len(rows) = Len(points)
    /\ stage = "refused" => kind = "sweep" /\ ~Reconciles

ExperimentInv == LoadMatches /\ RunMatches /\ RowsMatch /\ TableMatches

-----------------------------------------------------------------------------
(* Configurations.                                                         *)

\* The typed fields.
LEMMA FieldNames ==
    DOMAIN FieldTypes = {"clip", "adaptive", "clipMaxTokens", "caps", "total", "warmup",
                         "repetitions", "mixture", "lengthModel", "saveJsonl"}
BY DEF FieldTypes

\* Overrides of the right types leave a configuration with all its fields.
LEMMA OverrideTyped ==
    ASSUME NEW c, NEW set, HasFields(c), Typed(set)
    PROVE  HasFields(Override(c, set))
<1>1. DOMAIN FieldTypes \subseteq DOMAIN Override(c, set)
  BY DEF HasFields, Override
<1>2. ASSUME NEW x \in DOMAIN FieldTypes PROVE Override(c, set)[x] \in FieldTypes[x]
  <2>1. CASE x \in DOMAIN set
    <3>1. Override(c, set)[x] = set[x]
      BY <2>1 DEF Override
    <3>2. set[x] \in FieldTypes[x]
      BY <2>1 DEF Typed
    <3> QED
      BY <3>1, <3>2
  <2>2. CASE x \notin DOMAIN set
    <3>1. x \in DOMAIN c
      BY DEF HasFields
    <3>2. Override(c, set)[x] = c[x]
      BY <2>2, <3>1 DEF Override
    <3>3. c[x] \in FieldTypes[x]
      BY <3>1 DEF HasFields, Typed
    <3> QED
      BY <3>2, <3>3
  <2> QED
    BY <2>1, <2>2
<1> QED
  BY <1>1, <1>2 DEF HasFields, Typed

\* The types of the fields, by name.
LEMMA FieldsTyped ==
    ASSUME NEW c, HasFields(c)
    PROVE  /\ c.clip \in BOOLEAN /\ c.adaptive \in BOOLEAN /\ c.clipMaxTokens \in Int
           /\ c.caps \in Seq(Int) /\ c.total \in Int /\ c.warmup \in Int
           /\ c.repetitions \in Int /\ c.mixture \in SUBSET Mixture
           /\ c.saveJsonl \in BOOLEAN
<1>1. \A x \in DOMAIN FieldTypes : c[x] \in FieldTypes[x]
  BY DEF HasFields, Typed
<1> QED
  BY <1>1, FieldNames DEF FieldTypes

\* A valid configuration keeps the promises that the proofs need.
LEMMA ValidPromises ==
    ASSUME NEW c, ValidConfig(c, MinCap)
    PROVE  CapsHold(c) /\ WorkloadHolds(c)
BY DEF ValidConfig, ValidAdmission, ValidWorkload, Positive, CapsHold, WorkloadHolds

\* What depends on the loaded file alone stays while it does.
LEMMA LoadedStays ==
    ASSUME UNCHANGED loaded
    PROVE  /\ \A i : Config(i)' = Config(i) /\ Stem(i)' = Stem(i)
           /\ \A i, row, file : RowFits(i, row, file)' <=> RowFits(i, row, file)
<1>1. kind' = kind /\ base' = base /\ points' = points
  BY DEF loaded
<1>2. \A i : Config(i)' = Config(i) /\ Stem(i)' = Stem(i)
  BY <1>1 DEF Config, ConfigForPoint, Stem
<1>3. \A c, R : Results(c, R)' = Results(c, R)
  BY <1>1 DEF Results
<1>4. ASSUME NEW i, NEW row, NEW file
      PROVE  RowFits(i, row, file)' <=> RowFits(i, row, file)
  BY <1>1, <1>2, <1>3 DEF RowFits
<1> QED
  BY <1>2, <1>4

\* Point i overrides the base; what it may not override is as in the base.
LEMMA PointOverrides ==
    ASSUME LoadMatches, NEW i \in 1 .. Len(points)
    PROVE  /\ HasFields(Config(i))
           /\ \A x \in DOMAIN base :
                 Config(i)[x] = IF x \in DOMAIN points[i].set THEN points[i].set[x] ELSE base[x]
           /\ Config(i).total = base.total /\ Config(i).warmup = base.warmup
           /\ Config(i).repetitions = base.repetitions
           /\ Config(i).mixture = base.mixture /\ Config(i).saveJsonl = base.saveJsonl
           /\ Config(i).lengthModel = base.lengthModel
<1>1. HasFields(base) /\ Typed(points[i].set) /\ DOMAIN points[i].set \subseteq Overridable
  BY DEF LoadMatches
<1>2. Config(i) = Override(base, points[i].set)
  BY DEF Config, ConfigForPoint
<1>3. HasFields(Config(i))
  BY <1>1, <1>2, OverrideTyped
<1>4. \A x \in DOMAIN base :
         Config(i)[x] = IF x \in DOMAIN points[i].set THEN points[i].set[x] ELSE base[x]
  BY <1>2 DEF Override
<1>5. \A x \in {"total", "warmup", "repetitions", "mixture", "lengthModel",
                 "saveJsonl"} :
         x \in DOMAIN base /\ x \notin DOMAIN points[i].set
  BY <1>1, FieldNames DEF HasFields, Overridable
<1> QED
  BY <1>3, <1>4, <1>5

\* A policy overrides no cap.
LEMMA PolicyKeepsCaps ==
    ASSUME LoadMatches, kind = "correctness", NEW i \in 1 .. Len(points)
    PROVE  CapsHold(Config(i))
<1>1. points # <<>> /\ points[i] = PolicyPoints[i] /\ i \in 1 .. Len(Policies)
  BY DEF LoadMatches
<1>2. DOMAIN points[i].set = {"policy"}
  BY <1>1 DEF PolicyPoints
<1>3. HasFields(base) /\ CapsHold(base)
  BY <1>1 DEF LoadMatches
<1>4. "caps" \in DOMAIN base
  BY <1>3, FieldNames DEF HasFields
<1>5. Config(i).caps = base.caps
  BY <1>2, <1>4 DEF Config, ConfigForPoint, Override
<1> QED
  BY <1>3, <1>5 DEF CapsHold

\* Each point has a stem of its own.
LEMMA StemsDiffer ==
    ASSUME LoadMatches, NEW i \in 1 .. Len(points), NEW j \in 1 .. Len(points),
           Stem(i) = Stem(j)
    PROVE  i = j
<1>1. CASE kind = "sweep"
  BY <1>1 DEF Stem
<1>2. CASE kind = "correctness"
  <2>1. /\ i \in 1 .. Len(Policies) /\ points[i] = PolicyPoints[i]
        /\ j \in 1 .. Len(Policies) /\ points[j] = PolicyPoints[j]
    BY <1>2 DEF LoadMatches
  <2>2. points[i].label.words = <<Policies[i]>> /\ points[j].label.words = <<Policies[j]>>
    BY <2>1 DEF PolicyPoints
  <2>3. points[i].label.words = points[j].label.words
    BY DEF Stem
  <2>4. Policies[i] = Policies[j]
    BY <2>2, <2>3
  <2> QED
    BY <2>1, <2>4, PoliciesAssumption DEF IsInjective
<1> QED
  BY <1>1, <1>2 DEF LoadMatches

\* Appending to a sequence.
LEMMA AppendShape ==
    ASSUME NEW s, s \in Seq(ToSet(s)), NEW e
    PROVE  /\ Append(s, e) \in Seq(ToSet(Append(s, e)))
           /\ Len(s) \in Nat /\ Len(Append(s, e)) = Len(s) + 1
           /\ \A i \in 1 .. Len(s) : Append(s, e)[i] = s[i]
           /\ Append(s, e)[Len(s) + 1] = e
BY DEF ToSet

-----------------------------------------------------------------------------
(* The steps of an experiment.                                             *)

LEMMA InitMatches == ExperimentInit => ExperimentInv
<1> SUFFICES ASSUME ExperimentInit PROVE ExperimentInv
  OBVIOUS
<1> USE DEF ExperimentInit
<1>1. LoadMatches
  BY DEF LoadMatches
<1>2. RowsMatch
  <2>1. rows \in Seq(ToSet(rows)) /\ Len(rows) = 0 /\ Len(points) = 0
    OBVIOUS
  <2>2. DOMAIN files = {Stem(i) : i \in 1 .. Len(rows)}
    BY <2>1 DEF Nothing
  <2> QED
    BY <2>1, <2>2 DEF RowsMatch
<1> QED
  BY <1>1, <1>2 DEF ExperimentInv, RunMatches, TableMatches

\* What Begins takes over is as the file promises.
LEMMA BeginMatches ==
    ASSUME ExperimentInv, stage = "load", NEW b, NEW ps, Begins(b, ps),
           ps \in Seq(ToSet(ps)), HasFields(b), ValidConfig(b, MinCap),
           \A i \in 1 .. Len(ps) :
              /\ Typed(ps[i].set) /\ DOMAIN ps[i].set \subseteq Overridable
              /\ ps[i].label.words \in Seq(ToSet(ps[i].label.words))
              /\ kind = "correctness" => i \in 1 .. Len(Policies) /\ ps[i] = PolicyPoints[i]
    PROVE  ExperimentInv'
<1>1. /\ stage' = "next" /\ base' = b /\ points' = ps
      /\ UNCHANGED <<kind, config, telemetry, rows, files, table>>
  BY DEF Begins
<1>2. LoadMatches'
  BY <1>1, ValidPromises DEF ExperimentInv, LoadMatches
<1>3. rows = <<>> /\ DOMAIN files = {}
  <2>1. points = <<>> /\ Len(rows) <= 0 /\ rows \in Seq(ToSet(rows))
    BY DEF ExperimentInv, LoadMatches, RowsMatch
  <2>2. Len(rows) = 0
    BY <2>1
  <2> QED
    BY <2>1, <2>2 DEF ExperimentInv, RowsMatch
<1>4. RowsMatch'
  <2>1. rows' \in Seq(ToSet(rows')) /\ Len(rows') = 0 /\ Len(points') \in Nat
    BY <1>1, <1>3
  <2>2. DOMAIN files' = {Stem(i)' : i \in 1 .. Len(rows')}
    BY <1>1, <1>3, <2>1
  <2> QED
    BY <2>1, <2>2 DEF RowsMatch
<1>5. RunMatches' /\ TableMatches'
  BY <1>1 DEF RunMatches, TableMatches
<1> QED
  BY <1>2, <1>4, <1>5 DEF ExperimentInv

\* A step that changes neither the file, nor the rows, nor the files.
LEMMA KeepMatches ==
    ASSUME ExperimentInv, UNCHANGED <<loaded, rows, files>>, stage' # "load",
           RunMatches', TableMatches'
    PROVE  ExperimentInv'
<1>1. LoadMatches'
  BY DEF ExperimentInv, LoadMatches, loaded
<1>2. RowsMatch'
  BY LoadedStays DEF ExperimentInv, RowsMatch, loaded
<1> QED
  BY <1>1, <1>2 DEF ExperimentInv

LEMMA FailMatches ==
    ASSUME ExperimentInv, Fails
    PROVE  ExperimentInv'
<1>1. RunMatches' /\ TableMatches'
  BY DEF Fails, RunMatches, TableMatches
<1> QED
  BY <1>1, KeepMatches DEF Fails

LEMMA SweepMatches ==
    ASSUME ExperimentInv, LoadSweep
    PROVE  ExperimentInv'
<1>1. PICK f \in SweepFiles :
         \/ Fails
         \/ /\ ValidConfig(Override(f.base, f.overrides), MinCap)
            /\ \A i \in 1 .. Len(f.points) : ValidPoint(f.points[i])
            /\ Begins(Override(f.base, f.overrides), f.points)
  BY DEF LoadSweep
<1>2. CASE Fails
  BY <1>2, FailMatches
<1>3. CASE ~Fails
  <2>1. HasFields(Override(f.base, f.overrides))
    BY FilesAssumption, OverrideTyped DEF HasFields
  <2>2. f.points \in Seq(ToSet(f.points))
    BY FilesAssumption
  <2>3. ASSUME NEW i \in 1 .. Len(f.points)
        PROVE  /\ Typed(f.points[i].set) /\ DOMAIN f.points[i].set \subseteq Overridable
               /\ f.points[i].label.words \in Seq(ToSet(f.points[i].label.words))
    <3>1. f.points[i] \in ToSet(f.points)
      BY <2>2 DEF ToSet
    <3> QED
      BY <1>1, <1>3, <3>1, FilesAssumption DEF ValidPoint
  <2> QED
    BY <1>1, <1>3, <2>1, <2>2, <2>3, BeginMatches DEF LoadSweep
<1> QED
  BY <1>2, <1>3

LEMMA ConfigMatches ==
    ASSUME ExperimentInv, LoadConfig
    PROVE  ExperimentInv'
<1>1. PICK c \in ConfigFiles :
         \/ Fails
         \/ ValidConfig(c, MinCap) /\ Begins(c, PolicyPoints)
  BY DEF LoadConfig
<1>2. CASE Fails
  BY <1>2, FailMatches
<1>3. CASE ~Fails
  <2>1. HasFields(c)
    BY FilesAssumption DEF HasFields
  <2>2. Len(Policies) \in Nat
    BY PoliciesAssumption
  <2>3. PolicyPoints \in Seq(ToSet(PolicyPoints)) /\ Len(PolicyPoints) = Len(Policies)
    <3>1. Len(PolicyPoints) = Len(Policies) /\ DOMAIN PolicyPoints = 1 .. Len(Policies)
      BY <2>2 DEF PolicyPoints
    <3>2. \A i \in 1 .. Len(Policies) : PolicyPoints[i] \in ToSet(PolicyPoints)
      BY <3>1 DEF ToSet
    <3>3. PolicyPoints = [i \in 1 .. Len(Policies) |-> PolicyPoints[i]]
      BY DEF PolicyPoints
    <3> QED
      BY <2>2, <3>1, <3>2, <3>3
  <2>4. ASSUME NEW i \in 1 .. Len(PolicyPoints)
        PROVE  /\ Typed(PolicyPoints[i].set)
               /\ DOMAIN PolicyPoints[i].set \subseteq Overridable
               /\ PolicyPoints[i].label.words \in Seq(ToSet(PolicyPoints[i].label.words))
    <3>1. /\ DOMAIN PolicyPoints[i].set = {"policy"}
          /\ PolicyPoints[i].label.words = <<Policies[i]>>
      BY <2>3 DEF PolicyPoints
    <3>4. DOMAIN PolicyPoints[i].set \subseteq Overridable
      BY <3>1 DEF Overridable
    <3>2. Typed(PolicyPoints[i].set)
      BY <3>1, FieldNames DEF Typed
    <3>3. <<Policies[i]>> \in Seq(ToSet(<<Policies[i]>>))
      BY DEF ToSet
    <3> QED
      BY <3>1, <3>2, <3>3, <3>4
  <2>5. stage = "load" /\ ValidConfig(c, MinCap) /\ Begins(c, PolicyPoints)
    BY <1>1, <1>3 DEF LoadConfig
  <2>6. \A i \in 1 .. Len(PolicyPoints) : i \in 1 .. Len(Policies)
    BY <2>3
  <2> QED
    BY <2>1, <2>3, <2>4, <2>5, <2>6, BeginMatches
<1> QED
  BY <1>2, <1>3

LEMMA BeginPointMatches ==
    ASSUME ExperimentInv, BeginPoint
    PROVE  ExperimentInv'
<1> DEFINE i == Current
<1>1. /\ stage = "next" /\ Len(rows) < Len(points)
      /\ i = Len(rows) + 1 /\ i \in 1 .. Len(points)
  BY DEF BeginPoint, Current, ExperimentInv, LoadMatches, RowsMatch
<1>2. CASE Fails
  BY <1>2, FailMatches
<1>3. CASE ~Fails
  <2>1. /\ Accepted(Config(i)) /\ stage' = "running" /\ config' = Config(i)
        /\ FreshBackend /\ UNCHANGED <<loaded, rows, files, table>>
    BY <1>3 DEF BeginPoint, Config
  <2>2. CapsHold(Config(i))
    <3>1. CASE kind = "sweep"
      BY <2>1, <3>1, ValidPromises DEF Accepted
    <3>2. CASE kind = "correctness"
      BY <1>1, <3>2, PolicyKeepsCaps DEF ExperimentInv
    <3> QED
      BY <3>1, <3>2 DEF ExperimentInv, LoadMatches
  <2>3. Config(Current)' = Config(i)
    BY <2>1 DEF Current, Config, ConfigForPoint, loaded
  <2>4. RunMatches'
    BY <1>1, <2>1, <2>2, <2>3 DEF RunMatches, FreshBackend, loaded, CapsHold, CapsOrdered
  <2>5. TableMatches'
    BY <2>1 DEF TableMatches
  <2> QED
    BY <2>1, <2>4, <2>5, KeepMatches
<1> QED
  BY <1>2, <1>3

\* The row and the file of the benchmark that has ended fit each other; those
\* of the points before it are as they were.
LEMMA EndMatches ==
    ASSUME ExperimentInv, BenchmarkEnds
    PROVE  ExperimentInv'
<1> DEFINE i == Current
<1>1. /\ stage = "running" /\ Len(rows) < Len(points) /\ rows \in Seq(ToSet(rows))
      /\ i = Len(rows) + 1 /\ i \in 1 .. Len(points) /\ Len(rows) \in Nat
      /\ config = Config(i) /\ CapsHold(config) /\ telemetry = {}
  BY DEF BenchmarkEnds, Current, ExperimentInv, LoadMatches, RowsMatch, RunMatches
<1>2. /\ stage' = "next" /\ UNCHANGED <<loaded, config, table>> /\ telemetry' = {i}
  BY <1>1 DEF BenchmarkEnds
<1>3. PICK outcome \in Outcomes :
         /\ DOMAIN outcome = Requests(config)
         /\ \A r \in Records(config, outcome) : Coherent(r)
         /\ files' = Override(files, [stem \in {Stem(i)} |-> Written(i, config, outcome)])
         /\ rows' = Append(rows,
                [label |-> points[i].label, config |-> config, saw |-> telemetry',
                 results |-> Results(config, Formal(config, Records(config, outcome)))])
  BY DEF BenchmarkEnds
<1> DEFINE row == [label |-> points[i].label, config |-> config, saw |-> telemetry',
                   results |-> Results(config, Formal(config, Records(config, outcome)))]
<1>4. /\ rows' \in Seq(ToSet(rows')) /\ Len(rows') = i /\ rows'[i] = row
      /\ \A j \in 1 .. Len(rows) : rows'[j] = rows[j]
  <2> HIDE DEF row, i
  <2> QED
    BY <1>1, <1>3, AppendShape DEF row
<1>5. /\ DOMAIN files' = DOMAIN files \cup {Stem(i)}
      /\ files'[Stem(i)] = Written(i, config, outcome)
      /\ \A s \in DOMAIN files \ {Stem(i)} : files'[s] = files[s]
  BY <1>3 DEF Override
<1>6. RowFits(i, row, Written(i, config, outcome))
  BY <1>1, <1>2, <1>3 DEF RowFits
<1>7. ASSUME NEW j \in 1 .. Len(rows)
      PROVE  RowFits(j, rows'[j], files'[Stem(j)])
  <2>1. Stem(j) # Stem(i)
    BY <1>1, StemsDiffer DEF ExperimentInv
  <2>2. Stem(j) \in DOMAIN files /\ RowFits(j, rows[j], files[Stem(j)])
    BY DEF ExperimentInv, RowsMatch
  <2> QED
    BY <1>4, <1>5, <2>1, <2>2
<1>8. LoadMatches'
  BY <1>2 DEF ExperimentInv, LoadMatches, loaded
<1>9. RowsMatch'
  <2>1. \A j \in 1 .. i : RowFits(j, rows'[j], files'[Stem(j)])
    BY <1>1, <1>4, <1>5, <1>6, <1>7
  <2>2. DOMAIN files' = {Stem(j) : j \in 1 .. i}
    <3>1. DOMAIN files = {Stem(j) : j \in 1 .. Len(rows)}
      BY DEF ExperimentInv, RowsMatch
    <3>2. 1 .. i = (1 .. Len(rows)) \cup {i}
      BY <1>1
    <3> QED
      BY <1>5, <3>1, <3>2, Zenon
  <2>3. UNCHANGED loaded
    BY <1>2
  <2>4. /\ \A j : Stem(j)' = Stem(j)
        /\ \A j, r, f : RowFits(j, r, f)' <=> RowFits(j, r, f)
    BY <2>3, LoadedStays
  <2>5. points' = points
    BY <2>3 DEF loaded
  <2> QED
    BY <1>1, <1>4, <2>1, <2>2, <2>4, <2>5 DEF RowsMatch
<1> QED
  BY <1>2, <1>8, <1>9 DEF ExperimentInv, RunMatches, TableMatches

LEMMA TableStep ==
    ASSUME ExperimentInv, WriteTable
    PROVE  ExperimentInv'
<1>1. /\ Len(rows) = Len(points) /\ stage' = "done" /\ table' = rows
      /\ UNCHANGED <<loaded, rows, files>>
  BY DEF WriteTable
<1>2. RunMatches' /\ TableMatches'
  BY <1>1 DEF RunMatches, TableMatches, loaded
<1> QED
  BY <1>1, <1>2, KeepMatches

LEMMA AuditStep ==
    ASSUME ExperimentInv, Audit
    PROVE  ExperimentInv'
<1>1. /\ kind = "sweep" /\ stage = "done" /\ stage' = IF Reconciles THEN "audited" ELSE "refused"
      /\ UNCHANGED <<loaded, config, telemetry, rows, files, table>>
  BY DEF Audit, Reconciles
<1>2. Reconciles' <=> Reconciles
  BY <1>1 DEF Reconciles, MatrixFits, PointReconciles, Matching, loaded
<1>3. RunMatches'
  BY <1>1 DEF RunMatches
<1>4. TableMatches'
  BY <1>1, <1>2 DEF TableMatches, ExperimentInv, loaded
<1> QED
  BY <1>1, <1>3, <1>4, KeepMatches

\* Every step of an experiment keeps it.
LEMMA NextMatches == ExperimentInv /\ [ExperimentNext]_vars => ExperimentInv'
<1> SUFFICES ASSUME ExperimentInv, [ExperimentNext]_vars PROVE ExperimentInv'
  OBVIOUS
<1>1. CASE UNCHANGED vars
  <2>1. UNCHANGED <<loaded, rows, files>> /\ UNCHANGED <<stage, config, telemetry, table>>
    BY <1>1 DEF vars
  <2>2. RowsMatch'
    BY <2>1, LoadedStays DEF ExperimentInv, RowsMatch, loaded
  <2>3. Reconciles' <=> Reconciles
    BY <2>1 DEF Reconciles, MatrixFits, PointReconciles, Matching, loaded
  <2>4. LoadMatches' /\ RunMatches' /\ TableMatches'
    BY <2>1, <2>3, LoadedStays
    DEF ExperimentInv, LoadMatches, RunMatches, TableMatches, Current, loaded
  <2> QED
    BY <2>2, <2>4 DEF ExperimentInv
<1>2. CASE LoadSweep
  BY <1>2, SweepMatches
<1>3. CASE LoadConfig
  BY <1>3, ConfigMatches
<1>4. CASE BeginPoint
  BY <1>4, BeginPointMatches
<1>5. CASE BenchmarkEnds
  BY <1>5, EndMatches
<1>6. CASE BenchmarkRaises
  BY <1>6, FailMatches DEF BenchmarkRaises
<1>7. CASE WriteTable
  BY <1>7, TableStep
<1>8. CASE Audit
  BY <1>8, AuditStep
<1> QED
  BY <1>1, <1>2, <1>3, <1>4, <1>5, <1>6, <1>7, <1>8 DEF ExperimentNext

\* In every state of an experiment, each row, each file and the benchmark that
\* runs belong to their own point of the loaded file.
THEOREM ExperimentInvariant == ExperimentSpec => []ExperimentInv
BY InitMatches, NextMatches, PTL DEF ExperimentSpec

-----------------------------------------------------------------------------
(* What follows from it.                                                   *)

\* What a row tells of, and the file of its point.
LEMMA RowOfPoint ==
    ASSUME ExperimentInv, NEW i \in 1 .. Len(rows)
    PROVE  /\ i \in 1 .. Len(points) /\ points # <<>>
           /\ Stem(i) \in DOMAIN files /\ RowFits(i, rows[i], files[Stem(i)])
           /\ rows[i].config = Config(i) /\ HasFields(Config(i))
<1>1. Len(rows) \in Nat /\ Len(points) \in Nat /\ Len(rows) <= Len(points)
  BY DEF ExperimentInv, LoadMatches, RowsMatch
<1>2. i \in 1 .. Len(points) /\ points # <<>>
  BY <1>1
<1>3. Stem(i) \in DOMAIN files /\ RowFits(i, rows[i], files[Stem(i)])
  BY DEF ExperimentInv, RowsMatch
<1>4. rows[i].config = Config(i)
  BY <1>3 DEF RowFits
<1>5. HasFields(Config(i))
  BY <1>2, PointOverrides DEF ExperimentInv
<1> QED
  BY <1>2, <1>3, <1>4, <1>5

\* The records of a point that ended well stay in a file of their own
\* (_file_stem, sweep.py; one stem for each policy, correctness.py).
THEOREM EveryPointKeepsItsFile == ExperimentSpec => []FilesKept
<1>1. ExperimentInv => FilesKept
  <2> SUFFICES ASSUME ExperimentInv, NEW i \in 1 .. Len(rows)
               PROVE  \E s \in DOMAIN files : files[s].point = i
    BY DEF FilesKept
  <2>1. Stem(i) \in DOMAIN files /\ files[Stem(i)].point = i
    <3>1. PICK outcome \in Outcomes : files[Stem(i)] = Written(i, Config(i), outcome)
      BY RowOfPoint DEF RowFits
    <3> QED
      BY <3>1, RowOfPoint DEF Written
  <2> QED
    BY <2>1
<1> QED
  BY <1>1, ExperimentInvariant, PTL

\* The limit falls with the level, if the caps do.
LEMMA LimitFalls ==
    ASSUME NEW c, HasFields(c), CapsHold(c), NEW k \in 0 .. 2,
           NEW target \in Int, NEW seen \in Int
    PROVE  BackendLimit(c, k + 1, target, seen) <= BackendLimit(c, k, target, seen)
<1>1. /\ c.caps \in Seq(Int) /\ c.clipMaxTokens \in Int
      /\ c.adaptive \in BOOLEAN /\ c.clip \in BOOLEAN
  BY FieldsTyped
<1>2. \A j \in 1 .. 3 : c.caps[j] \in Int /\ c.caps[j] >= 1
  BY <1>1, TokensAssumption DEF CapsHold
<1>3. CASE ~c.adaptive
  BY <1>1, <1>3 DEF BackendLimit, Clipped
<1>4. CASE c.adaptive /\ k = 0
  BY <1>2, <1>4 DEF BackendLimit, Clipped, SelectedCap, NoCap
<1>5. CASE c.adaptive /\ k # 0
  <2>1. k \in 1 .. 3 /\ k + 1 \in 1 .. 3
    BY <1>5
  <2>2. c.caps[k] > c.caps[k + 1]
    BY <1>5, <2>1 DEF CapsHold, CapsOrdered
  <2> QED
    BY <1>2, <1>5, <2>1, <2>2 DEF BackendLimit, Clipped, SelectedCap, NoCap
<1> QED
  BY <1>1, <1>3, <1>4, <1>5

\* Whatever a sweep overrides, the configuration that runs has caps for which
\* tightening never gives a longer limit (AdmissionControlConfig, clipping.py).
THEOREM LevelsNeverInvert == ExperimentSpec => []TighterNeverLonger
<1>1. ExperimentInv => TighterNeverLonger
  <2> SUFFICES ASSUME ExperimentInv, stage = "running",
                      NEW k \in 0 .. 2, NEW target \in Tokens, NEW seen \in Tokens
               PROVE  BackendLimit(config, k + 1, target, seen)
                      <= BackendLimit(config, k, target, seen)
    BY DEF TighterNeverLonger
  <2>1. Current \in 1 .. Len(points) /\ config = Config(Current) /\ CapsHold(config)
    BY DEF ExperimentInv, LoadMatches, RowsMatch, RunMatches, Current
  <2>2. HasFields(config)
    BY <2>1, PointOverrides DEF ExperimentInv
  <2> QED
    BY <2>1, <2>2, LimitFalls, TokensAssumption
<1> QED
  BY <1>1, ExperimentInvariant, PTL

\* What the hash of a configuration leaves out does not matter to the clipper.
LEMMA HashDecidesLimits ==
    ASSUME NEW c, NEW d, HasFields(c), HasFields(d), Hashed(c) = Hashed(d)
    PROVE  \A k, target, seen :
              BackendLimit(c, k, target, seen) = BackendLimit(d, k, target, seen)
<1>1. \A x \in {"adaptive", "clip", "clipMaxTokens"} : x \in DOMAIN c /\ x \in DOMAIN d
  BY FieldNames DEF HasFields
<1>2. c.adaptive \in BOOLEAN /\ d.adaptive \in BOOLEAN
  BY FieldsTyped
<1>3. CASE c.adaptive /\ d.adaptive
  BY <1>3 DEF Hashed
<1>4. CASE ~c.adaptive /\ ~d.adaptive
  <2>1. Without(c, Dormant) = Without(d, Dormant)
    BY <1>4 DEF Hashed
  <2>2. ASSUME NEW x \in {"clip", "clipMaxTokens"} PROVE c[x] = d[x]
    <3>1. x \notin Dormant
      BY DEF Dormant
    <3>2. Without(c, Dormant)[x] = c[x] /\ Without(d, Dormant)[x] = d[x]
      BY <1>1, <3>1 DEF Without
    <3> QED
      BY <2>1, <3>2
  <2> QED
    BY <1>4, <2>2 DEF BackendLimit
<1>5. ASSUME NEW e, NEW f, e.adaptive, ~f.adaptive, "adaptive" \in DOMAIN e
      PROVE  Hashed(e) # Hashed(f)
  <2>1. "adaptive" \in DOMAIN Hashed(e)
    BY <1>5 DEF Hashed
  <2>2. "adaptive" \notin DOMAIN Hashed(f)
    BY <1>5 DEF Hashed, Without, Dormant
  <2> QED
    BY <2>1, <2>2
<1> QED
  BY <1>1, <1>2, <1>3, <1>4, <1>5

\* Rows with one hash were clipped alike (experiment_config_hash).
THEOREM HashTellsLimits == ExperimentSpec => []SameHashSameLimits
<1>1. ExperimentInv => SameHashSameLimits
  <2> SUFFICES ASSUME ExperimentInv, NEW i \in 1 .. Len(rows), NEW j \in 1 .. Len(rows),
                      Hashed(rows[i].config) = Hashed(rows[j].config)
               PROVE  \A k, target, seen : BackendLimit(rows[i].config, k, target, seen)
                                           = BackendLimit(rows[j].config, k, target, seen)
    BY DEF SameHashSameLimits
  <2>1. HasFields(rows[i].config) /\ HasFields(rows[j].config)
    BY RowOfPoint
  <2> QED
    BY <2>1, HashDecidesLimits
<1> QED
  BY <1>1, ExperimentInvariant, PTL

LEMMA IntervalCount ==
    \A a, n : a \in Nat /\ n \in Nat /\ n >= 1
            => IsFiniteSet(a .. a + n - 1) /\ Cardinality(a .. a + n - 1) = n
<1> SUFFICES ASSUME NEW a \in Nat, NEW n \in Nat, n >= 1
             PROVE  IsFiniteSet(a .. a + n - 1) /\ Cardinality(a .. a + n - 1) = n
  OBVIOUS
<1>1. a + n - 1 \in Int /\ a <= a + n - 1
  OBVIOUS
<1> QED
  BY <1>1, FS_Interval

\* A benchmark has one record for each request, and the formal ones are those
\* after the warmup.
LEMMA FormalCount ==
    ASSUME NEW c, HasFields(c), WorkloadHolds(c), NEW outcome, DOMAIN outcome = Requests(c)
    PROVE  Cardinality(Formal(c, Records(c, outcome))) = c.total * c.repetitions
<1> DEFINE Reps == 0 .. c.repetitions - 1
           Seqs == c.warmup .. c.warmup + c.total - 1
           R == Formal(c, Records(c, outcome))
           f == [x \in Reps \X Seqs |-> Record(c, x[1], x[2], outcome[x])]
<1>1. c.total \in Nat /\ c.warmup \in Nat /\ c.repetitions \in Nat
      /\ c.total >= 1 /\ c.repetitions >= 1
  BY FieldsTyped DEF WorkloadHolds
<1>2. \A x : Record(c, x[1], x[2], outcome[x]).rep = x[1]
             /\ Record(c, x[1], x[2], outcome[x]).seq = x[2]
  BY DEF Record
<1>3. \A x : x \in Reps \X Seqs <=> x \in DOMAIN outcome /\ x[2] >= c.warmup
  BY <1>1 DEF Requests
<1>4. R = {Record(c, x[1], x[2], outcome[x]) : x \in Reps \X Seqs}
  BY <1>2, <1>3 DEF Formal, Records
<1>5. f \in Bijection(Reps \X Seqs, R)
  <2>1. f \in [Reps \X Seqs -> R] /\ \A r \in R : \E x \in Reps \X Seqs : f[x] = r
    BY <1>4
  <2>2. ASSUME NEW x \in Reps \X Seqs, NEW y \in Reps \X Seqs, f[x] = f[y] PROVE x = y
    <3>1. x[1] = y[1] /\ x[2] = y[2]
      BY <1>2, <2>2
    <3> QED
      BY <3>1
  <2> QED
    BY <2>1, <2>2, Fun_IsBij
<1>6. IsFiniteSet(Reps \X Seqs) /\ Cardinality(Reps \X Seqs) = c.repetitions * c.total
  <2>1. Reps = 0 .. 0 + c.repetitions - 1 /\ 0 \in Nat
    BY <1>1
  <2>2. /\ IsFiniteSet(Reps) /\ Cardinality(Reps) = c.repetitions
        /\ IsFiniteSet(Seqs) /\ Cardinality(Seqs) = c.total
    BY <1>1, <2>1, IntervalCount, Zenon
  <2> QED
    BY <2>2, FS_Product
<1>7. Cardinality(R) = Cardinality(Reps \X Seqs)
  BY <1>5, <1>6, FS_Bijection DEF ExistsBijection
<1> QED
  BY <1>1, <1>6, <1>7

\* A row tells of its own point, and of each of its formal requests once
\* (config_for_point, _metric_row, analyze_policy).
THEOREM RowsTellOfTheirPoints == ExperimentSpec => []RowsOwnPoints
<1>1. ExperimentInv => RowsOwnPoints
  <2> SUFFICES ASSUME ExperimentInv, NEW i \in 1 .. Len(rows)
               PROVE  /\ rows[i].saw = {i}
                      /\ rows[i].results.requests = base.total * base.repetitions
                      /\ \A x \in DOMAIN base :
                            rows[i].config[x] = IF x \in DOMAIN points[i].set
                                                THEN points[i].set[x] ELSE base[x]
    BY DEF RowsOwnPoints
  <2>1. /\ i \in 1 .. Len(points) /\ HasFields(Config(i)) /\ RowFits(i, rows[i], files[Stem(i)])
        /\ rows[i].config = Config(i) /\ WorkloadHolds(base)
    BY RowOfPoint DEF ExperimentInv, LoadMatches
  <2>2. PICK outcome \in Outcomes :
           /\ DOMAIN outcome = Requests(Config(i))
           /\ rows[i].results = Results(Config(i), Formal(Config(i), Records(Config(i), outcome)))
    BY <2>1 DEF RowFits
  <2>3. /\ Config(i).total = base.total /\ Config(i).warmup = base.warmup
        /\ Config(i).repetitions = base.repetitions
        /\ \A x \in DOMAIN base :
              Config(i)[x] = IF x \in DOMAIN points[i].set THEN points[i].set[x] ELSE base[x]
    BY <2>1, PointOverrides DEF ExperimentInv
  <2>4. Cardinality(Formal(Config(i), Records(Config(i), outcome)))
        = base.total * base.repetitions
    <3>1. WorkloadHolds(Config(i))
      BY <2>1, <2>3, PointOverrides DEF WorkloadHolds, ExperimentInv
    <3>2. Cardinality(Formal(Config(i), Records(Config(i), outcome)))
          = Config(i).total * Config(i).repetitions
      BY <2>1, <2>2, <3>1, FormalCount
    <3> QED
      BY <2>3, <3>2
  <2>5. \A c, R : Results(c, R).requests = Cardinality(R)
    <3>1. \A c, R : Metrics(R, c).requests = Cardinality(R)
      BY DEF Metrics
    <3>2. \A R, bound : PolicyFacts(R, bound).requests = Cardinality(R)
      BY DEF PolicyFacts
    <3> QED
      BY <3>1, <3>2 DEF Results
  <2>6. rows[i].saw = {i}
    BY <2>1 DEF RowFits
  <2> QED
    BY <2>1, <2>2, <2>3, <2>4, <2>5, <2>6
<1> QED
  BY <1>1, ExperimentInvariant, PTL

-----------------------------------------------------------------------------
(* The audit.                                                              *)

LEMMA SuffixOfItself ==
    ASSUME NEW s, s \in Seq(ToSet(s))
    PROVE  IsSuffix(s, s)
BY DEF IsSuffix, IsPrefix, Reverse

\* Two records of one benchmark with the same identity are of one request.
LEMMA RecordIds ==
    ASSUME NEW c, NEW outcome, DOMAIN outcome = Requests(c),
           NEW x \in DOMAIN outcome, NEW y \in DOMAIN outcome,
           \/ Id(Record(c, x[1], x[2], outcome[x])) = Id(Record(c, y[1], y[2], outcome[y]))
           \/ Id(Decision(c, x[1], x[2], outcome[x])) = Id(Record(c, y[1], y[2], outcome[y]))
           \/ Id(Decision(c, x[1], x[2], outcome[x])) = Id(Decision(c, y[1], y[2], outcome[y]))
    PROVE  x = y
<1>1. x[1] = y[1] /\ x[2] = y[2]
  BY DEF Id, Record, Decision
<1> QED
  BY <1>1 DEF Requests

\* The formal records of a benchmark agree with its metrics.
LEMMA RecordsAgree ==
    ASSUME NEW c, NEW outcome, DOMAIN outcome = Requests(c), c.mixture # {},
           c.lengthModel = "realistic",
           \A r \in Records(c, outcome) : Coherent(r)
    PROVE  RecordsReconcile({r \in Records(c, outcome) : r.seq >= c.warmup}, c,
                            Metrics(Formal(c, Records(c, outcome)), c))
<1> DEFINE R == Formal(c, Records(c, outcome))
<1>1. \A r \in R : r \in Records(c, outcome)
                   /\ \E x \in DOMAIN outcome : r = Record(c, x[1], x[2], outcome[x])
  BY DEF Formal, Records
<1>2. ASSUME NEW r \in R, NEW q \in R, Id(r) = Id(q) PROVE r = q
  BY <1>1, <1>2, RecordIds
<1>3. ASSUME Forced(c), NEW r \in Of(R, "SUCCESS")
      PROVE  r.tokens = r.limit /\ r.finish = "length"
  <2>1. PICK x \in DOMAIN outcome : r = Record(c, x[1], x[2], outcome[x])
    BY <1>1 DEF Of
  <2>2. r.status = "SUCCESS" /\ r.first # None
    BY <1>1, <1>3 DEF Of, Coherent
  <2> QED
    BY <1>3, <2>1, <2>2 DEF Record, ForceExact
<1>4. R = {r \in Records(c, outcome) : r.seq >= c.warmup}
  BY DEF Formal
<1> HIDE DEF R
<1> QED
  BY <1>2, <1>3, <1>4 DEF RecordsReconcile, R

\* The decisions of an adaptive benchmark agree with its records.
LEMMA DecisionsAgree ==
    ASSUME NEW c, HasFields(c), CapsHold(c), c.adaptive,
           NEW outcome \in Outcomes, DOMAIN outcome = Requests(c)
    PROVE  /\ OneDecisionEach(Decisions(c, outcome))
           /\ DecisionsReconcile(Records(c, outcome), Decisions(c, outcome))
<1> DEFINE R == Records(c, outcome)
           D == Decisions(c, outcome)
           Rec(x) == Record(c, x[1], x[2], outcome[x])
           Dec(x) == Decision(c, x[1], x[2], outcome[x])
<1>1. /\ \A r \in Sent(R) : \E x \in DOMAIN outcome : r = Rec(x) /\ outcome[x].dispatch # None
      /\ \A d \in D : \E x \in DOMAIN outcome : d = Dec(x) /\ outcome[x].dispatch # None
      /\ \A x \in DOMAIN outcome :
            outcome[x].dispatch # None => Rec(x) \in Sent(R) /\ Dec(x) \in D
  <2>1. \A x \in DOMAIN outcome : Rec(x).dispatch = outcome[x].dispatch
    BY DEF Record
  <2>2. R = {Rec(x) : x \in DOMAIN outcome}
    BY DEF Records
  <2>3. D = {Dec(x) : x \in {y \in DOMAIN outcome : outcome[y].dispatch # None}}
    BY DEF Decisions
  <2> HIDE DEF R, D, Rec, Dec
  <2> QED
    BY <2>1, <2>2, <2>3 DEF Sent
<1>2. \A x \in DOMAIN outcome : Id(Rec(x)) = Id(Dec(x))
  BY DEF Id, Record, Decision
<1>3. ASSUME NEW x \in DOMAIN outcome
      PROVE  /\ Dec(x).level \in 0 .. 3 /\ Dec(x).cap = SelectedCap(c, Dec(x).level)
             /\ outcome[x].level = Dec(x).level
             /\ outcome[x].target \in Int /\ outcome[x].seen \in Int
  BY OutcomesAssumption, TokensAssumption DEF Decision
<1>4. \A k \in 1 .. 3 : c.caps[k] \in Int /\ c.caps[k] >= 1
  BY FieldsTyped, TokensAssumption DEF CapsHold
<1>5. ASSUME NEW d \in D PROVE d.level \in 0 .. 3 /\ (d.level = 0 <=> d.cap = NoCap)
  <2>1. PICK x \in DOMAIN outcome : d = Dec(x)
    BY <1>1
  <2> HIDE DEF Dec
  <2>2. d.level \in 0 .. 3 /\ d.cap = SelectedCap(c, d.level)
    BY <1>3, <2>1
  <2> QED
    BY <1>4, <2>2 DEF SelectedCap, NoCap
<1>6. ASSUME NEW d \in D, NEW e \in D, Id(d) = Id(e) PROVE d = e
  BY <1>1, <1>6, RecordIds
<1>7. ASSUME NEW d \in D, NEW r \in Sent(R), Id(d) = Id(r)
      PROVE  \/ r.limit = r.requested
             \/ r.limit = d.cap /\ d.cap # NoCap /\ d.cap < r.requested
  <2>1. PICK x \in DOMAIN outcome : d = Dec(x) /\ r = Rec(x) /\ outcome[x].dispatch # None
    BY <1>1, <1>7, RecordIds
  <2>2. /\ r.requested = outcome[x].target
        /\ r.limit = Clipped(d.cap, outcome[x].target, outcome[x].seen)
        /\ d.cap = SelectedCap(c, d.level) /\ d.level \in 0 .. 3
    BY <1>3, <2>1 DEF Record, Limit, BackendLimit
  <2>3. d.cap = NoCap \/ d.cap \in Int
    BY <1>4, <2>2 DEF SelectedCap
  <2> QED
    BY <1>3, <2>2, <2>3 DEF Clipped
<1>8. {Id(d) : d \in D} = {Id(r) : r \in Sent(R)}
  <2>1. ASSUME NEW d \in D PROVE \E r \in Sent(R) : Id(d) = Id(r)
    BY <1>1, <1>2
  <2>2. ASSUME NEW r \in Sent(R) PROVE \E d \in D : Id(d) = Id(r)
    BY <1>1, <1>2
  <2> DEFINE A == {Id(d) : d \in D}
             B == {Id(r) : r \in Sent(R)}
  <2>3. ASSUME NEW y \in A PROVE y \in B
    BY <2>1
  <2>4. ASSUME NEW y \in B PROVE y \in A
    BY <2>2
  <2> QED
    BY <2>3, <2>4
<1> QED
  BY <1>5, <1>6, <1>7, <1>8 DEF OneDecisionEach, DecisionsReconcile

\* The audit refuses a finished sweep only for what is in the sweep's own file
\* (analyze_expl).
THEOREM AuditAcceptsWhatTheSweepWrites == ExperimentSpec => []AuditAccepts
<1> DEFINE Good == /\ MatrixFits /\ base.saveJsonl /\ base.lengthModel = "realistic"
                   /\ \A i, j \in 1 .. Len(points) :
                         /\ points[i].label.plain
                         /\ IsSuffix(points[i].label.words, points[j].label.words) => i = j
                         /\ ConfigForPoint(base, points[i]).rate
                            = ExpectedRate[Load(points[i].label)]
<1>1. ASSUME ExperimentInv, kind = "sweep", table = rows, Len(rows) = Len(points), Good,
             NEW i \in 1 .. Len(points)
      PROVE  PointReconciles(i)
  <2> DEFINE c == Config(i)
             label == points[i].label
             facts == {stem \in Matching(label) : files[stem].jsonl}
             sidecars == {stem \in Matching(label) : files[stem].adaptive}
             row == CHOOSE r \in ToSet(table) : r.label = label
  <2>1. /\ i \in 1 .. Len(rows) /\ Stem(i) \in DOMAIN files
        /\ RowFits(i, rows[i], files[Stem(i)]) /\ HasFields(c)
    BY <1>1, RowOfPoint
  <2>2. PICK outcome \in Outcomes :
           /\ DOMAIN outcome = Requests(c) /\ \A r \in Records(c, outcome) : Coherent(r)
           /\ rows[i].results = Results(c, Formal(c, Records(c, outcome)))
           /\ files[Stem(i)] = Written(i, c, outcome)
    BY <2>1 DEF RowFits
  <2>3. CapsHold(c) /\ rows[i].label = label
    BY <2>1 DEF RowFits
  <2>4. /\ c.mixture = base.mixture /\ c.saveJsonl = base.saveJsonl
        /\ c.lengthModel = "realistic" /\ c.mixture # {}
        /\ c.saveJsonl \in BOOLEAN /\ c.adaptive \in BOOLEAN
    <3>1. i \in 1 .. Len(points) /\ LoadMatches /\ WorkloadHolds(base)
      BY <1>1, <2>1, RowOfPoint DEF ExperimentInv, LoadMatches
    <3> QED
      BY <1>1, <2>1, <3>1, PointOverrides, FieldsTyped DEF WorkloadHolds
  <2>5. Matching(label) = {Stem(i)}
    <3>1. DOMAIN files = {Stem(j) : j \in 1 .. Len(points)}
      BY <1>1 DEF ExperimentInv, RowsMatch
    <3>2. \A j \in 1 .. Len(points) : Stem(j)[2] = points[j].label.words
      BY DEF Stem
    <3>3. label.plain /\ IsSuffix(label.words, Stem(i)[2])
      BY <1>1, <3>2, SuffixOfItself DEF ExperimentInv, LoadMatches
    <3>4. \A j \in 1 .. Len(points) : IsSuffix(label.words, Stem(j)[2]) => i = j
      BY <1>1, <3>2
    <3> QED
      BY <2>1, <3>1, <3>3, <3>4 DEF Matching
  <2>6. /\ files[Stem(i)].records = Records(c, outcome)
        /\ files[Stem(i)].decisions = Decisions(c, outcome)
        /\ files[Stem(i)].jsonl = c.saveJsonl /\ files[Stem(i)].adaptive = c.adaptive
    BY <2>2 DEF Written
  <2>7. facts = {Stem(i)}
    BY <1>1, <2>4, <2>5, <2>6
  <2>8. c.adaptive => sidecars = {Stem(i)}
    BY <2>5, <2>6
  <2>9. row = rows[i]
    <3>1. rows[i] \in ToSet(table)
      BY <1>1, <2>1 DEF ToSet
    <3>2. ASSUME NEW r \in ToSet(table), r.label = label PROVE r = rows[i]
      <4>1. PICK j \in 1 .. Len(rows) : r = rows[j]
        BY <1>1 DEF ToSet, ExperimentInv, RowsMatch
      <4>2. rows[j].label = points[j].label /\ j \in 1 .. Len(points)
        BY <1>1, RowOfPoint DEF RowFits
      <4>3. i = j
        BY <1>1, <3>2, <4>1, <4>2 DEF MatrixFits
      <4> QED
        BY <4>1, <4>3
    <3> QED
      BY <2>3, <3>1, <3>2
  <2>10. row.results = Metrics(Formal(c, Records(c, outcome)), c)
    BY <1>1, <2>2, <2>9 DEF Results
  <2>11. RecordsReconcile({r \in files[Stem(i)].records : r.seq >= c.warmup}, c, row.results)
    BY <1>1, <2>2, <2>4, <2>6, <2>10, RecordsAgree
  <2>12. Readable(files[Stem(i)].records)
    BY <2>2, <2>6 DEF Readable
  <2>13. c.adaptive => /\ OneDecisionEach(files[Stem(i)].decisions)
                       /\ DecisionsReconcile(files[Stem(i)].records, files[Stem(i)].decisions)
    BY <2>1, <2>2, <2>3, <2>6, DecisionsAgree
  <2>14. c.rate = ExpectedRate[Load(label)]
    BY <1>1 DEF Config
  <2>15. c = ConfigForPoint(base, points[i])
    BY DEF Config
  <2> HIDE DEF c, label, row
  <2>16. \E f \in facts :
            /\ facts = {f} /\ Readable(files[f].records)
            /\ RecordsReconcile({r \in files[f].records : r.seq >= c.warmup}, c, row.results)
            /\ c.adaptive => \E d \in sidecars :
                  /\ sidecars = {d} /\ OneDecisionEach(files[d].decisions)
                  /\ DecisionsReconcile(files[f].records, files[d].decisions)
    BY <2>7, <2>8, <2>11, <2>12, <2>13
  <2> QED
    BY <2>14, <2>15, <2>16, Zenon DEF PointReconciles, label, row
<1>2. ExperimentInv => AuditAccepts
  <2> SUFFICES ASSUME ExperimentInv, stage = "refused", Good PROVE FALSE
    BY Zenon DEF AuditAccepts
  <2>1. kind = "sweep" /\ ~Reconciles /\ table = rows /\ Len(rows) = Len(points)
    BY DEF ExperimentInv, TableMatches
  <2>2. \A i \in 1 .. Len(points) : PointReconciles(i)
    BY <1>1, <2>1
  <2> QED
    BY <2>1, <2>2 DEF Reconciles
<1> QED
  BY <1>2, ExperimentInvariant, PTL
=============================================================================
