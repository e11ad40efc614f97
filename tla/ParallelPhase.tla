--------------------------- MODULE ParallelPhase ---------------------------
(***************************************************************************)
(* run_parallel of pipeline.py: the calling thread submits one future per  *)
(* item context to a thread pool, waits for them, and either returns, or   *)
(* raises ParallelTimeoutError when the wall-clock budget is spent, or     *)
(* lets a BaseException of a worker (SystemExit, ...) propagate.           *)
(*                                                                         *)
(* The pool is concurrent.futures.ThreadPoolExecutor: a FIFO work queue,   *)
(* of which only the two ends matter because items enter it in list order  *)
(* (the queue holds the items taken+1 .. submitted), and worker threads    *)
(* that take an item, claim its future unless it was cancelled, and run    *)
(* it.                                                                     *)
(***************************************************************************)
EXTENDS Naturals

CONSTANTS
    NumItems,     \* len(item_contexts)
    MaxWorkers,   \* max_workers; 0 stands for None and for every value <= 0
    CpuCount,     \* os.cpu_count(); 0 stands for None
    Timed,        \* whether timeout_seconds is given
    Outcomes      \* how the job of an item may end

ASSUME NatAssumption == NumItems \in Nat /\ MaxWorkers \in Nat /\ CpuCount \in Nat
ASSUME TimedAssumption == Timed \in BOOLEAN
ASSUME OutcomesAssumption == Outcomes \subseteq {"ok", "error", "exit"}

VARIABLES
    pc,         \* where the calling thread is
    submitted,  \* items handed to executor.submit so far
    taken,      \* items the workers took off the work queue so far
    fut,        \* state of each item's future ("new": none yet)
    holding,    \* the item each worker thread has taken, 0 when it has none
    pending,    \* the local variable `pending`
    done,       \* what is left of the local variable `done`
    toCancel,   \* the futures the cancel loop has still to visit
    late        \* whether the clock has passed started + timeout_seconds

vars == <<pc, submitted, taken, fut, holding, pending, done, toCancel, late>>

-----------------------------------------------------------------------------

\* resolve_workers(max_workers, len(item_contexts))
ConfiguredWorkers ==
    IF MaxWorkers > 0 THEN MaxWorkers
    ELSE LET cpus == IF CpuCount = 0 THEN 4 ELSE CpuCount
         IN  IF cpus > 3 THEN cpus - 2 ELSE 1

ResolveWorkers ==
    IF ConfiguredWorkers < NumItems THEN ConfiguredWorkers ELSE NumItems

Items == 1..NumItems
Workers == 1..ResolveWorkers

Ended == {"ok", "error", "exit"}

\* run_parallel has handed control back to its caller.
Final == {"returned", "raised", "exited", "submitFailed"}

PCs == {"start", "submit", "loop", "wait", "collect", "cancel", "shutdown",
        "join", "joinExit"} \cup Final

\* Deviation: shutdown returns once the queue is empty.
QueueEmpty == taken = submitted

\* Nothing queued, no thread busy: what executor.shutdown(wait=True) waits for.
Drained == taken = submitted /\ \A w \in Workers : holding[w] = 0

TypeOK ==
    /\ pc \in PCs
    /\ submitted \in 0..NumItems
    /\ taken \in 0..submitted
    /\ fut \in [Items -> {"new", "pending", "running", "cancelled"} \cup Ended]
    /\ holding \in [Workers -> 0..NumItems]
    /\ pending \subseteq Items
    /\ done \subseteq Items
    /\ toCancel \subseteq Items
    /\ late \in BOOLEAN

Init ==
    /\ pc = "start"
    /\ submitted = 0
    /\ taken = 0
    /\ fut = [i \in Items |-> "new"]
    /\ holding = [w \in Workers |-> 0]
    /\ pending = {}
    /\ done = {}
    /\ toCancel = {}
    /\ late = FALSE

-----------------------------------------------------------------------------
(* Worker threads.                                                         *)

Take(w) ==
    /\ holding[w] = 0
    /\ taken < submitted
    /\ taken' = taken + 1
    /\ holding' = [holding EXCEPT ![w] = taken + 1]
    /\ UNCHANGED <<pc, submitted, fut, pending, done, toCancel, late>>

\* set_running_or_notify_cancel succeeds: the job starts on this context.
Begin(w) ==
    /\ holding[w] # 0
    /\ fut[holding[w]] = "pending"
    /\ fut' = [fut EXCEPT ![holding[w]] = "running"]
    /\ UNCHANGED <<pc, submitted, taken, holding, pending, done, toCancel, late>>

\* set_running_or_notify_cancel finds the future cancelled.
Discard(w) ==
    /\ holding[w] # 0
    /\ fut[holding[w]] = "cancelled"
    /\ holding' = [holding EXCEPT ![w] = 0]
    /\ UNCHANGED <<pc, submitted, taken, fut, pending, done, toCancel, late>>

\* _wrapped_run ends; the pool stores its result or its exception.
Finish(w) ==
    /\ holding[w] # 0
    /\ fut[holding[w]] = "running"
    /\ \E o \in Outcomes : fut' = [fut EXCEPT ![holding[w]] = o]
    /\ holding' = [holding EXCEPT ![w] = 0]
    /\ UNCHANGED <<pc, submitted, taken, pending, done, toCancel, late>>

-----------------------------------------------------------------------------
(* The calling thread.                                                     *)

Start ==
    /\ pc = "start"
    /\ pc' = IF NumItems = 0 THEN "returned" ELSE "submit"
    /\ UNCHANGED <<submitted, taken, fut, holding, pending, done, toCancel, late>>

\* executor.submit queues the work item before it starts a thread for it.
Enqueue ==
    /\ pc = "submit"
    /\ submitted' = submitted + 1
    /\ fut' = [fut EXCEPT ![submitted + 1] = "pending"]
    /\ UNCHANGED <<taken, holding, done, toCancel, late>>

Submit ==
    /\ Enqueue
    /\ IF submitted' = NumItems
       THEN pc' = "loop" /\ pending' = Items
       ELSE UNCHANGED <<pc, pending>>

\* The thread cannot be started; submit raises outside the try block, and the
\* executor is never shut down.
SubmitFails ==
    /\ Enqueue
    /\ pc' = "submitFailed"
    /\ UNCHANGED pending

LoopEnds ==
    /\ pc = "loop"
    /\ pending = {}
    /\ pc' = "join"
    /\ UNCHANGED <<submitted, taken, fut, holding, pending, done, toCancel, late>>

\* Deviation: the error names only the futures that could still be cancelled.
TimeoutNamesCancellable ==
    /\ pc = "loop"
    /\ pending # {}
    /\ Timed /\ late
    /\ toCancel' = pending
    /\ pending' = {i \in pending : fut[i] = "pending"}
    /\ pc' = "cancel"
    /\ UNCHANGED <<submitted, taken, fut, holding, done, late>>

TimeoutDetected ==
    /\ pc = "loop"
    /\ pending # {}
    /\ Timed /\ late
    /\ toCancel' = pending
    /\ pc' = "cancel"
    /\ UNCHANGED <<submitted, taken, fut, holding, pending, done, late>>

WithinBudget ==
    /\ pc = "loop"
    /\ pending # {}
    /\ ~(Timed /\ late)
    /\ pc' = "wait"
    /\ UNCHANGED <<submitted, taken, fut, holding, pending, done, toCancel, late>>

\* wait(...) returns, on the first completion or on its own timeout (the next
\* progress line or the rest of the budget), with every future done by then.
WaitReturns ==
    /\ pc = "wait"
    /\ LET finished == {i \in pending : fut[i] \in Ended}
       IN  /\ done' = finished
           /\ pending' = pending \ finished
           /\ pc' = IF finished = {} THEN "loop" ELSE "collect"
    /\ UNCHANGED <<submitted, taken, fut, holding, toCancel, late>>

\* Deviation: the first error cancels the siblings.
CollectFailFast ==
    /\ pc = "collect"
    /\ \E i \in done :
        /\ done' = done \ {i}
        /\ IF fut[i] = "ok" \/ pending = {}
           THEN /\ pc' = IF done' = {} THEN "loop" ELSE "collect"
                /\ UNCHANGED toCancel
           ELSE pc' = "cancel" /\ toCancel' = pending
    /\ UNCHANGED <<submitted, taken, fut, holding, pending, late>>

\* future.result(): an Exception is logged, a BaseException propagates.
Collect ==
    /\ pc = "collect"
    /\ \E i \in done :
        /\ done' = done \ {i}
        /\ pc' = IF fut[i] = "exit" THEN "joinExit"
                 ELSE IF done' = {} THEN "loop" ELSE "collect"
    /\ UNCHANGED <<submitted, taken, fut, holding, pending, toCancel, late>>

\* Deviation: the loop leaves the futures alone and trusts the shutdown call.
CancelLoopSkipped ==
    /\ pc = "cancel"
    /\ toCancel' = {}
    /\ pc' = "shutdown"
    /\ UNCHANGED <<submitted, taken, fut, holding, pending, done, late>>

\* future.cancel() on one member of `pending`: without effect once it runs.
CancelOne ==
    /\ pc = "cancel"
    /\ \E i \in toCancel :
        /\ toCancel' = toCancel \ {i}
        /\ fut' = IF fut[i] = "pending" THEN [fut EXCEPT ![i] = "cancelled"]
                  ELSE fut
        /\ pc' = IF toCancel' = {} THEN "shutdown" ELSE "cancel"
    /\ UNCHANGED <<submitted, taken, holding, pending, done, late>>

\* Deviation: the timeout is logged and the partial set handed on.
ShutdownReturnsPartial ==
    /\ pc = "shutdown"
    /\ taken' = submitted
    /\ pc' = "returned"
    /\ UNCHANGED <<submitted, fut, holding, pending, done, toCancel, late>>

\* Deviation: the abandoned executor is joined before the raise.
ShutdownWaits ==
    /\ pc = "shutdown"
    /\ \A w \in Workers : holding[w] = 0
    /\ taken' = submitted
    /\ pc' = "raised"
    /\ UNCHANGED <<submitted, fut, holding, pending, done, toCancel, late>>

\* executor.shutdown(wait=False, cancel_futures=True), then the raise.
ShutdownAbandon ==
    /\ pc = "shutdown"
    /\ taken' = submitted
    /\ fut' = [i \in Items |-> IF i > taken /\ fut[i] = "pending"
                               THEN "cancelled" ELSE fut[i]]
    /\ pc' = "raised"
    /\ UNCHANGED <<submitted, holding, pending, done, toCancel, late>>

\* The finally clause: executor.shutdown(wait=True), then return or propagate.
ShutdownJoin ==
    /\ pc \in {"join", "joinExit"}
    /\ Drained
    /\ pc' = IF pc = "join" THEN "returned" ELSE "exited"
    /\ UNCHANGED <<submitted, taken, fut, holding, pending, done, toCancel, late>>

-----------------------------------------------------------------------------

\* time.monotonic() passes started + timeout_seconds.
Tick ==
    /\ Timed
    /\ ~late
    /\ pc \notin {"start"} \cup Final
    /\ late' = TRUE
    /\ UNCHANGED <<pc, submitted, taken, fut, holding, pending, done, toCancel>>

CallerStep ==
    \/ Start \/ Submit \/ SubmitFails \/ LoopEnds \/ TimeoutDetected
    \/ WithinBudget \/ WaitReturns \/ Collect \/ CancelOne
    \/ ShutdownAbandon \/ ShutdownJoin

WorkerStep(w) == Take(w) \/ Begin(w) \/ Discard(w) \/ Finish(w)

Next == Tick \/ CallerStep \/ \E w \in Workers : WorkerStep(w)

Spec == Init /\ [][Next]_vars

\* No thread is starved; a job may hang for ever, and so may the clock, as far
\* as this phase can tell, stay short of its budget.
PoolFairness == \A w \in Workers : WF_vars(Take(w) \/ Begin(w) \/ Discard(w))

\* Every job that starts ends.
JobsEnd == \A w \in Workers : WF_vars(Finish(w))

-----------------------------------------------------------------------------
(* What the phase promises.                                                *)

\* A normal return means that every item's job ended, with a result or with a
\* logged error: "downstream steps must not consume a partial set".
ReturnMeansComplete ==
    pc = "returned" => \A i \in Items : fut[i] \in {"ok", "error"}

\* ParallelTimeoutError names every item without an outcome the loop has seen:
\* an item it leaves out has ended, and not with a BaseException.
RaiseNamesEveryOpenItem ==
    pc = "raised" =>
        /\ pending # {}
        /\ \A i \in Items \ pending : fut[i] \in {"ok", "error"}

\* Once ParallelTimeoutError is raised no worker starts another item, not even
\* one that it had already taken off the queue; only running items go on.
NoStartAfterRaise ==
    [][pc = "raised" => \A i \in Items : fut'[i] = "running" => fut[i] = "running"]_vars

\* Whatever the jobs do, hang included, the caller gets control back once the
\* budget is spent, unless a BaseException made it join its workers.
BudgetEnforced == late ~> pc \in Final \cup {"joinExit"}

-----------------------------------------------------------------------------
(* The phase implements the barrier of PhaseBarrier.                       *)

ItemState(s) ==
    CASE s \in {"new", "pending"} -> "todo"
      [] s = "running"            -> "busy"
      [] s = "cancelled"          -> "dropped"
      [] s \in Ended              -> "done"

Barrier == INSTANCE PhaseBarrier WITH
    item    <- [i \in Items |-> ItemState(fut[i])],
    outcome <- IF pc \in Final THEN pc ELSE "open"

BarrierSpec == Barrier!Spec
=============================================================================
