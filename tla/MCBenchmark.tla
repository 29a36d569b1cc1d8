----------------------------- MODULE MCBenchmark -----------------------------
(***************************************************************************)
(* Benchmark for TLC: its requests are interchangeable.                    *)
(***************************************************************************)
EXTENDS Benchmark, TLC

\* Bound: of each repetition, two requests get a slot. Others are rejected, time
\* out while they wait, or are never submitted.
TwoCalls == Cardinality({r \in Reqs : call[r] # "none"}) <= 2

Symmetry == Permutations(Reqs)
=============================================================================
