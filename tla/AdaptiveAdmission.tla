-------------------------- MODULE AdaptiveAdmission --------------------------
(***************************************************************************)
(* The admission queue with adaptive clipping enabled. Each time the       *)
(* admission loop is about to send a request, it shows the controller how  *)
(* many requests would still wait once every free slot is filled; no other *)
(* event of the queue reaches the controller.                              *)
(*                                                                         *)
(* The depth is computed in the middle of the loop. So the two handlers    *)
(* that run the loop, submit and the end of _run_backend, are split here   *)
(* into one step per pick. They hold the lock and do not await, no other   *)
(* task runs meanwhile: the variables of AdmissionQueue keep what it was   *)
(* before the handler, what the handler has made of them so far follows    *)
(* from its picks (Listed, States), and they change when the lock is       *)
(* released.                                                               *)
(***************************************************************************)
EXTENDS AdmissionQueue, Sequences

CONSTANTS TightenAt, RelaxAt, TightenHold, RelaxHold

VARIABLES
    level, qInst, qBar, last, tightening, relaxing, trigger,
    loop,   \* which task of a request runs the admission loop, if any
    picks,  \* what that loop has taken off the waiting list, in order
    shown   \* history: the depths that it has shown to the controller

\* The controller reads the queue's clock, inside the handler.
Ctl == INSTANCE AdaptiveClip WITH Depths <- 0 .. Capacity

clipVars == <<level, qInst, qBar, last, tightening, relaxing, trigger>>
loopVars == <<loop, picks, shown>>
adaptiveVars == <<vars, clipVars, loopVars>>

\* The task inside submit, or the runner: "done" and "cancelled" are how the
\* runner will end.
LoopTasks == {"submit", "done", "cancelled"}
LockFree == \A r \in Reqs : loop[r] = "none"

-----------------------------------------------------------------------------
(* What the handler that a task of r is in has made of the queue.          *)

\* Before the loop: submit has appended r, the runner has completed it.
LeftWaiting(r) == IF loop[r] = "submit" THEN waiting \cup {r} ELSE waiting
LeftStates(r) ==
    [st EXCEPT ![r] = IF loop[r] = "submit" THEN "waiting" ELSE "done"]
LeftTimes(r) == IF loop[r] = "submit" THEN [enq EXCEPT ![r] = now] ELSE enq

\* Of the picks so far, those that were not late have been sent.
Taken == Picked(picks, Len(picks))
SentBy(r) == Sent(picks, Len(picks), LeftTimes(r))

\* self._waiting and the state of each entry at this point of the loop.
Listed(r) == LeftWaiting(r) \ Taken
States(r) == [q \in Reqs |-> IF q \in SentBy(r) THEN "in_flight" ELSE
                             IF q \in Taken THEN "done" ELSE LeftStates(r)[q]]

\* Mutant: the requests in flight are counted once, before the loop.
BusyBefore(r) == Cardinality(InFlight(LeftStates(r)))

Busy(r) == Cardinality(InFlight(States(r)))

\* Mutant: the slot that the selected request will take counts as free.
StableDepthBehind(w, s) ==
    LET free == MaxInFlight - Cardinality(InFlight(s))
    IN IF Cardinality(w) > free THEN Cardinality(w) - free ELSE 0

\* _stable_waiting_depth_after_selected_locked: the selected request is no
\* longer among those that wait, w, and not yet in flight in the states s.
StableDepth(w, s) ==
    LET free == MaxInFlight - Cardinality(InFlight(s)) - 1
    IN IF Cardinality(w) > free THEN Cardinality(w) - free ELSE 0

-----------------------------------------------------------------------------
EntersLoop(r, task) ==
    /\ LockFree /\ loop' = [loop EXCEPT ![r] = task]
    /\ picks' = <<>> /\ shown' = {}
    /\ UNCHANGED <<vars, clipVars>>

\* The first part of Accept: submit takes r in and starts the loop.
SubmitEnters(r) ==
    /\ Accepting /\ ~QueueFull /\ now + Timeout <= MaxTime
    /\ caller[r] = "idle"
    /\ EntersLoop(r, "submit")

\* The first part of RunnerFinishes and of RunnerDrained.
RunnerEnters(r) ==
    \/ BackendAnswered(r) /\ EntersLoop(r, "done")
    \/ runner[r] = "drain" /\ EntersLoop(r, "cancelled")

\* The loop goes round once more and takes q off the list.
Picks(r, q) ==
    /\ loop[r] # "none"
    /\ AdmitLoopTest(Listed(r), Busy(r))
    /\ q \in Selectable(Listed(r), now)
    /\ picks' = Append(picks, q)
    /\ UNCHANGED <<vars, loop>>

\* An overdue pick is completed, and the loop continues.
PickLate(r, q) ==
    /\ Picks(r, q) /\ Overdue(q, LeftTimes(r))
    /\ UNCHANGED <<clipVars, shown>>

\* The controller is shown the depth, then q is sent with the cap it selects.
PickSent(r, q) ==
    /\ Picks(r, q) /\ ~Overdue(q, LeftTimes(r))
    /\ LET depth == StableDepth(Listed(r) \ {q}, States(r))
       IN Ctl!Update(depth) /\ shown' = shown \cup {depth}

\* Mutant: the loop breaks, where it should continue, after an overdue pick.
LoopOverBreak(r) ==
    \/ ~AdmitLoopTest(Listed(r), Busy(r))
    \/ picks # <<>> /\ Overdue(picks[Len(picks)], LeftTimes(r))

LoopOver(r) == ~AdmitLoopTest(Listed(r), Busy(r))

LoopEffect(r, a, tm, rn) ==
    AdmitEffect(LeftWaiting(r), LeftStates(r), a, tm, rn,
                Taken \ SentBy(r), SentBy(r))

\* submit releases the lock and suspends on the result.
SubmitSuspends(r) ==
    /\ loop[r] = "submit"
    /\ caller' = [caller EXCEPT ![r] = "await"] /\ enq' = LeftTimes(r)
    /\ LoopEffect(r, result, [timer EXCEPT ![r] = "new"], runner)
    /\ UNCHANGED <<now, mode, forced, closeVars>>

\* The runner releases the lock and ends.
RunnerEnds(r, s) ==
    /\ LoopEffect(r, [result EXCEPT ![r] = IF st[r] = "done" THEN @
                                           ELSE FinalStatus(r, s)],
                  [timer EXCEPT ![r] = CancelTimer(@)],
                  [runner EXCEPT ![r] = loop[r]])
    /\ UNCHANGED <<now, mode, enq, forced, caller, closeVars>>

LeavesLoop(r) ==
    /\ LoopOver(r)
    /\ \/ SubmitSuspends(r)
       \/ loop[r] = "done" /\ RunnerEnds(r, BackendStatus(r))
       \/ loop[r] = "cancelled" /\ RunnerEnds(r, "CANCELLED")
    /\ loop' = [loop EXCEPT ![r] = "none"] /\ picks' = <<>> /\ shown' = {}
    /\ UNCHANGED clipVars

LoopStep(r) == \/ SubmitEnters(r) \/ RunnerEnters(r) \/ LeavesLoop(r)
               \/ \E q \in Reqs : PickLate(r, q) \/ PickSent(r, q)

\* The steps of the queue that run no admission loop.
PlainStep ==
    \/ Start \/ Tick
    \/ \E r \in Reqs : \/ Reject(r) \/ CancelCaller(r) \/ CallerResumes(r)
                       \/ TimerResumes(r) \/ BackendStep(r)
                       \/ RunnerAwaits(r) \/ RunnerDrains(r) \/ RunnerDies(r)
    \/ \E c \in Closers : CloserStep(c)

AdaptiveInit ==
    /\ Init /\ Ctl!ControlInit
    /\ loop = [r \in Reqs |-> "none"] /\ picks = <<>> /\ shown = {}

AdaptiveNext ==
    \/ LockFree /\ PlainStep /\ UNCHANGED <<clipVars, loopVars>>
    \/ \E r \in Reqs : LoopStep(r)

AdaptiveSpec == AdaptiveInit /\ [][AdaptiveNext]_adaptiveVars

-----------------------------------------------------------------------------
\* The other tasks cannot tell the loop from one step: pick by pick, re-reading
\* the list and the slots each time, it does what AdmissionQueue says of the
\* whole handler, and the controller changes nothing in the queue.
LoopIsAtomic == Spec

\* A depth shown to the controller is a projection, made after the request was
\* taken off the list and before it counts as in flight, with picks to follow.
\* Yet it is exactly the number of requests that wait when the lock is
\* released: a request sent at once is never seen as backlog, no waiting request
\* is missed, and none that the depth counted is then found overdue.
ProjectionExact ==
    [][\A r \in Reqs : loop[r] # "none" /\ loop'[r] = "none"
          => \A depth \in shown : depth = Cardinality(waiting')]_adaptiveVars

\* What the design says of the depth: every change of the waiting list, by an
\* enqueue, a dispatch, a timeout, a cancellation or aclose, is shown to the
\* controller at once.
DepthFollowsQueue ==
    [][waiting' # waiting => qInst' = Cardinality(waiting')]_adaptiveVars
=============================================================================
