------------------------ MODULE QueueRefinesContract ------------------------
(***************************************************************************)
(* The admission queue implements the contract: the entry states are the   *)
(* phases and the result futures the answers.                              *)
(***************************************************************************)
EXTENDS AdmissionQueue

ContractGate ==
    CASE mode = "new" -> "new" [] mode = "open" -> "open" [] OTHER -> "shut"

ContractPhase ==
    [r \in Reqs |-> CASE st[r] = "none" -> "new"
                      [] st[r] = "in_flight" -> "serving"
                      [] OTHER -> st[r]]

Contract == INSTANCE AdmissionContract
              WITH gate <- ContractGate, phase <- ContractPhase,
                   answer <- result

\* Every step of the queue's tasks is a step of the contract or changes nothing
\* a caller can see: in whatever order callers, watchdogs, runners and acloses
\* run, no slot is freed early, no answer changes and no wake-up is lost.
ImplementsContract == Contract!Spec
=============================================================================
