-------------------------- MODULE ExperimentConfig --------------------------
(***************************************************************************)
(* What a validated configuration promises (config.py), what its hash      *)
(* identifies (config_hash.py), and the limit that the clipper derives     *)
(* from it (clipping.py). A configuration is one flat record; numbers are  *)
(* integers, in units of which every value is a multiple, and a file is    *)
(* there or not.                                                           *)
(***************************************************************************)
EXTENDS Integers, Sequences

Mixture == [shares : Seq(Int), mus : Seq(Int), clampMin : Int, clampMax : Int,
            force : BOOLEAN]

\* The types of the fields that decide what is sent, clipped and written.
FieldTypes ==
    [clip |-> BOOLEAN, adaptive |-> BOOLEAN, clipMaxTokens |-> Int, caps |-> Seq(Int),
     total |-> Int, warmup |-> Int, repetitions |-> Int, mixture |-> SUBSET Mixture,
     lengthModel |-> {"uniform_cap", "realistic"}, saveJsonl |-> BOOLEAN]

Typed(set) == \A x \in DOMAIN set \cap DOMAIN FieldTypes : set[x] \in FieldTypes[x]

Positive(n) == n >= 1
Increasing(s) == \A i \in 1 .. Len(s) - 1 : s[i] < s[i + 1]

\* Mutant: the order of the caps is not checked.
CapsOrderedOff(caps) == TRUE

\* The caps of the levels L1, L2 and L3 are strictly decreasing.
CapsOrdered(caps) == \A i \in 1 .. Len(caps) - 1 : caps[i] > caps[i + 1]

\* Thresholds of the levels L1, L2 and L3.
ValidThresholds(s) == Len(s) = 3 /\ Increasing(s) /\ \A i \in 1 .. 3 : s[i] >= 0

\* AdmissionControlConfig. MinCap: 512 tokens.
ValidAdmission(c, MinCap) ==
    /\ Positive(c.clipMaxTokens)
    /\ c.clip /\ c.clipSource = "learned" => c.clipEstimator
    /\ Len(c.caps) = 3 /\ CapsOrdered(c.caps) /\ \A i \in 1 .. 3 : c.caps[i] >= MinCap
    /\ ValidThresholds(c.tighten) /\ ValidThresholds(c.relax)
    /\ \A i \in 1 .. 3 : c.relax[i] < c.tighten[i]
    /\ c.tightenHold >= 0 /\ c.relaxHold >= 0
    /\ c.adaptive => c.clip
    /\ c.adaptive /\ c.signal = "rho_hat" => c.capacityRps

\* SloAwareConfig.
ValidSlo(c) ==
    /\ \A w \in {c.costWeight, c.slackWeight, c.waitingWeight} : w >= 0
    /\ c.costWeight + c.slackWeight + c.waitingWeight # 0
    /\ Positive(c.agingThreshold) /\ Positive(c.agingLevels) /\ Positive(c.margin)
    /\ Positive(c.floor) /\ c.floor <= c.ceiling
    /\ c.lengthSource = "learned" => c.lengthEstimator

\* RealisticLengthConfig: a mixture of prompt kinds, its shares in percent.
ValidMixture(mix) ==
    /\ Len(mix.shares) = Len(mix.mus)
    /\ \A i \in 1 .. Len(mix.shares) : mix.shares[i] >= 0
    /\ LET sum[i \in 0 .. Len(mix.shares)] ==
             IF i = 0 THEN 0 ELSE sum[i - 1] + mix.shares[i]
       IN sum[Len(mix.shares)] = 100
    /\ Positive(mix.clampMin) /\ mix.clampMin <= mix.clampMax

\* RequestProfileConfig, with its token range.
ValidProfile(p) ==
    /\ Positive(p.minTokens) /\ p.minTokens <= p.maxTokens
    /\ Positive(p.ttft) /\ Positive(p.endToEnd)

\* WorkloadConfig; `mixture' holds at most one mixture.
ValidWorkload(c) ==
    /\ Positive(c.rate) /\ Positive(c.total) /\ c.warmup >= 0 /\ Positive(c.repetitions)
    /\ ValidProfile(c.interactive) /\ ValidProfile(c.batch)
    /\ c.lengthModel = "realistic" => c.mixture # {}
    /\ \A mix \in c.mixture : ValidMixture(mix)

\* ExperimentConfig: the server listens where the backend's URL points, and has
\* room for what the router lets through; some format of results is on.
ValidConfig(c, MinCap) ==
    /\ ValidAdmission(c, MinCap) /\ ValidSlo(c) /\ ValidWorkload(c)
    /\ Positive(c.requestTimeout) /\ Positive(c.maxInFlight) /\ Positive(c.queueCapacity)
    /\ c.serverAddress = c.backendAddress
    /\ c.maxInFlight <= c.maxNumSeqs
    /\ c.saveJsonl \/ c.saveCsv

\* AdaptiveClipController is built with the queue of each repetition, and
\* refuses what the configuration still allows: a signal that is no queue depth.
Buildable(c) == c.adaptive => c.signal = "queue_depth_ewma"

-----------------------------------------------------------------------------
(* What experiment_config_hash sees.                                       *)

Dormant == {"adaptive", "signal", "caps", "tighten", "relax", "tightenHold",
            "relaxHold", "capacityRps"}

Without(c, S) == [x \in DOMAIN c \ S |-> c[x]]

\* Mutant: the adaptive fields are left out even when they are in use.
HashedAlways(c) == Without(c, Dormant)

\* The adaptive fields are left out while they are dormant, so that hashes from
\* before there were any still hold.
Hashed(c) == IF c.adaptive THEN c ELSE Without(c, Dormant)

-----------------------------------------------------------------------------
(* The clipper.                                                            *)

NoCap == 0

\* The cap of level k; L0 has none.
SelectedCap(c, k) == IF k = 0 THEN NoCap ELSE c.caps[k]

\* The backend's limit for a request of `target' tokens, estimated at `seen'.
Clipped(cap, target, seen) ==
    IF cap = NoCap \/ seen <= cap \/ target <= cap THEN target ELSE cap

\* Before the queue, with the fixed cap, or else at the dispatch, at level k.
BackendLimit(c, k, target, seen) ==
    IF c.adaptive THEN Clipped(SelectedCap(c, k), target, seen)
    ELSE IF c.clip THEN Clipped(c.clipMaxTokens, target, seen) ELSE target
=============================================================================
