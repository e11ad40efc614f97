-------------------------- MODULE Pipeline_proofs --------------------------
(***************************************************************************)
(* Proofs about run_parallel and about a pipeline with a parallel phase,   *)
(* for every number of items and workers, every list of jobs and every     *)
(* place of the phase in it: type correctness, what a return and a timeout *)
(* mean, that the phase implements PhaseBarrier; that the composition is a *)
(* pipeline and a phase, that the pipeline's result tells what was         *)
(* executed, and that what follows the phase sees the whole set.           *)
(***************************************************************************)
EXTENDS PhasedPipeline, TLAPS

(* run_parallel.                                                           *)

\* Where every item has been handed to the pool.
AfterSubmit == PCs \ {"start", "submit", "submitFailed"}

\* An item has a future as soon as it was submitted.
SubmittedHaveFuture ==
    /\ \A i \in Items : fut[i] = "new" <=> i > submitted
    /\ pc = "start" => submitted = 0
    /\ pc = "submit" => submitted < NumItems
    /\ pc \in AfterSubmit => submitted = NumItems

\* An item that is running, or off the queue and not yet claimed, is in the hands
\* of a worker thread.
BusyIsHeld ==
    /\ \A w \in Workers : holding[w] <= taken
    /\ \A i \in Items : fut[i] = "running" \/ (fut[i] = "pending" /\ i <= taken)
                            => \E w \in Workers : holding[w] = i

\* What is no longer in `pending` has ended; what is not in `done` either was
\* found to be no BaseException.
OutsidePendingHasEnded ==
    pc \in AfterSubmit =>
        /\ done \cap pending = {}
        /\ \A i \in Items \ pending : fut[i] \in Ended
        /\ pc \notin {"joinExit", "exited"} =>
              \A i \in Items \ (pending \cup done) : fut[i] \in {"ok", "error"}

DoneIsCollected == pc \notin {"collect", "joinExit", "exited"} => done = {}

PendingMatchesPc ==
    /\ pc \in {"join", "returned"} => pending = {}
    /\ pc \in {"cancel", "shutdown", "raised"} => pending # {}

\* The cancel loop leaves no future unclaimed.
CancelLoopIsThorough ==
    /\ pc = "cancel" => \A i \in Items : fut[i] = "pending" => i \in toCancel
    /\ pc \in {"shutdown", "raised"} => \A i \in Items : fut[i] # "pending"

OnlyTimeoutCancels ==
    pc \notin {"cancel", "shutdown", "raised"} => \A i \in Items : fut[i] # "cancelled"

\* Nothing is left to do when a BaseException comes out.
ExitIsComplete == pc = "exited" => \A i \in Items : fut[i] \in Ended

IInv ==
    /\ TypeOK
    /\ SubmittedHaveFuture
    /\ BusyIsHeld
    /\ OutsidePendingHasEnded
    /\ DoneIsCollected
    /\ PendingMatchesPc
    /\ CancelLoopIsThorough
    /\ OnlyTimeoutCancels
    /\ ExitIsComplete

-----------------------------------------------------------------------------
\* A phase that has not started satisfies the invariant.
LEMMA InitIInv == Init => IInv
<1> SUFFICES ASSUME Init PROVE IInv
  OBVIOUS
<1>1. TypeOK
  <2>1. pc \in PCs /\ late \in BOOLEAN
    BY DEF Init, PCs
  <2>2. submitted \in 0..NumItems /\ taken \in 0..submitted
    BY NatAssumption DEF Init
  <2>3. fut \in [Items -> {"new", "pending", "running", "cancelled"} \cup Ended]
    BY DEF Init
  <2>4. holding \in [Workers -> 0..NumItems]
    BY NatAssumption DEF Init
  <2>5. pending \subseteq Items /\ done \subseteq Items /\ toCancel \subseteq Items
    BY DEF Init
  <2> QED
    BY <2>1, <2>2, <2>3, <2>4, <2>5 DEF TypeOK
<1>2. SubmittedHaveFuture
  BY NatAssumption DEF Init, SubmittedHaveFuture, AfterSubmit, PCs, Items
<1>3. BusyIsHeld
  BY DEF Init, BusyIsHeld
<1>4. OutsidePendingHasEnded /\ DoneIsCollected /\ PendingMatchesPc
  BY DEF Init, OutsidePendingHasEnded, DoneIsCollected, PendingMatchesPc, AfterSubmit
<1>5. CancelLoopIsThorough /\ OnlyTimeoutCancels /\ ExitIsComplete
  BY DEF Init, CancelLoopIsThorough, OnlyTimeoutCancels, ExitIsComplete
<1> QED
  BY <1>1, <1>2, <1>3, <1>4, <1>5 DEF IInv

\* Every step of the caller, of a worker and of the clock keeps the invariant.
LEMMA StepIInv == IInv /\ [Next]_vars => IInv'
<1> SUFFICES ASSUME IInv, [Next]_vars PROVE IInv'
  OBVIOUS
<1> USE NatAssumption, OutcomesAssumption DEF IInv, TypeOK, SubmittedHaveFuture, BusyIsHeld, OutsidePendingHasEnded, DoneIsCollected, PendingMatchesPc, CancelLoopIsThorough, OnlyTimeoutCancels, ExitIsComplete, AfterSubmit, Items, Ended, Final, PCs
<1>1. CASE Tick
  BY <1>1 DEF Tick
<1>2. CASE Start
  BY <1>2 DEF Start
<1>3. CASE Submit
  <2> USE <1>3 DEF Submit, Enqueue
  <2>1. submitted \in Nat /\ submitted < NumItems /\ submitted + 1 \in Items
    OBVIOUS
  <2>2. TypeOK'
    <3>1. submitted' \in 0..NumItems /\ taken' \in 0..submitted'
      BY <2>1
    <3>2. fut' \in [Items -> {"new", "pending", "running", "cancelled"} \cup Ended]
      BY <2>1
    <3> QED
      BY <3>1, <3>2
  <2>3. SubmittedHaveFuture'
    BY <2>1
  <2>4. BusyIsHeld'
    BY <2>1
  <2>5. OutsidePendingHasEnded' /\ DoneIsCollected' /\ PendingMatchesPc'
    BY <2>1
  <2>6. CancelLoopIsThorough' /\ OnlyTimeoutCancels' /\ ExitIsComplete'
    BY <2>1
  <2> QED
    BY <2>2, <2>3, <2>4, <2>5, <2>6
<1>4. CASE SubmitFails
  BY <1>4 DEF SubmitFails, Enqueue
<1>5. CASE LoopEnds
  BY <1>5 DEF LoopEnds
<1>6. CASE TimeoutDetected
  BY <1>6 DEF TimeoutDetected
<1>7. CASE WithinBudget
  BY <1>7 DEF WithinBudget
<1>8. CASE WaitReturns
  BY <1>8 DEF WaitReturns
<1>9. CASE Collect
  BY <1>9 DEF Collect
<1>10. CASE CancelOne
  BY <1>10 DEF CancelOne
<1>11. CASE ShutdownAbandon
  BY <1>11 DEF ShutdownAbandon
<1>12. CASE ShutdownJoin
  BY <1>12 DEF ShutdownJoin, Drained
<1>13. ASSUME NEW w \in Workers, Take(w) PROVE IInv'
  BY <1>13 DEF Take
<1>14. ASSUME NEW w \in Workers, Begin(w) PROVE IInv'
  BY <1>14 DEF Begin
<1>15. ASSUME NEW w \in Workers, Discard(w) PROVE IInv'
  BY <1>15 DEF Discard
<1>16. ASSUME NEW w \in Workers, Finish(w) PROVE IInv'
  BY <1>16 DEF Finish
<1>17. CASE UNCHANGED vars
  BY <1>17 DEF vars
<1>18. QED
  BY <1>1, <1>2, <1>3, <1>4, <1>5, <1>6, <1>7, <1>8, <1>9, <1>10, <1>11, <1>12, <1>13, <1>14, <1>15, <1>16, <1>17 DEF Next, CallerStep, WorkerStep

\* The inductive invariant holds in every state of every phase.
THEOREM Inductive == Spec => []IInv
  BY InitIInv, StepIInv, PTL DEF Spec

\* The phase keeps its types, the work queue's bounds and the list of items
\* (run_parallel, pipeline.py:153-218).
THEOREM TypeCorrect == Spec => []TypeOK
<1>1. IInv => TypeOK
  BY DEF IInv
<1> QED
  BY Inductive, <1>1, PTL

\* run_parallel returns normally only with a complete set (pipeline.py:137-139).
THEOREM ReturnIsComplete == Spec => []ReturnMeansComplete
<1>1. IInv => ReturnMeansComplete
  BY DEF IInv, OutsidePendingHasEnded, DoneIsCollected, PendingMatchesPc, AfterSubmit,
         ReturnMeansComplete, PCs, Final
<1> QED
  BY Inductive, <1>1, PTL

\* The labels of ParallelTimeoutError leave out only items that ended without a
\* BaseException (pipeline.py:165-181).
THEOREM RaiseIsHonest == Spec => []RaiseNamesEveryOpenItem
<1>1. IInv => RaiseNamesEveryOpenItem
  BY DEF IInv, OutsidePendingHasEnded, DoneIsCollected, PendingMatchesPc, AfterSubmit,
         RaiseNamesEveryOpenItem, PCs, Final
<1> QED
  BY Inductive, <1>1, PTL

\* No worker starts an item once ParallelTimeoutError is on its way
\* (pipeline.py:167-168, :179).
THEOREM RaiseStopsStarts == Spec => NoStartAfterRaise
<1> DEFINE NoStart == pc = "raised" => \A i \in Items : fut'[i] = "running" => fut[i] = "running"
<1>1. IInv /\ [Next]_vars => [NoStart]_vars
  <2> SUFFICES ASSUME IInv, Next, pc = "raised", NEW i \in Items, fut'[i] = "running"
               PROVE fut[i] = "running"
    BY DEF vars
  <2>1. fut[i] # "pending"
    BY DEF IInv, CancelLoopIsThorough
  <2>2. CASE Tick \/ CallerStep
    BY <2>2 DEF Tick, CallerStep, Start, Submit, SubmitFails, Enqueue, LoopEnds, TimeoutDetected,
                WithinBudget, WaitReturns, Collect, CancelOne, ShutdownAbandon, ShutdownJoin
  <2>3. ASSUME NEW w \in Workers, WorkerStep(w) PROVE fut[i] = "running"
    BY <2>1, <2>3, OutcomesAssumption
       DEF WorkerStep, Take, Begin, Discard, Finish, IInv, TypeOK
  <2> QED
    BY <2>2, <2>3 DEF Next
<1> QED
  BY Inductive, <1>1, PTL DEF Spec, NoStartAfterRaise

-----------------------------------------------------------------------------
(* The refinement of PhaseBarrier.                                         *)

\* How the states of a future look through the barrier.
LEMMA ItemStates ==
    /\ ItemState("new") = "todo" /\ ItemState("pending") = "todo"
    /\ ItemState("running") = "busy" /\ ItemState("cancelled") = "dropped"
    /\ \A s \in Ended : ItemState(s) = "done"
  BY DEF ItemState, Ended

\* The phase starts as the barrier does.
LEMMA BarrierInit == Init => Barrier!Init
<1> SUFFICES ASSUME Init PROVE Barrier!Init
  OBVIOUS
<1>1. \A i \in Items : ItemState(fut[i]) = "todo"
  BY ItemStates DEF Init
<1>2. pc \notin Final
  BY DEF Init, Final
<1> QED
  BY <1>1, <1>2 DEF Barrier!Init

\* The barrier sees a step through the items' states and the outcome alone.
LEMMA BarrierStep == IInv /\ IInv' /\ [Next]_vars => [Barrier!Next]_(Barrier!vars)
<1> SUFFICES ASSUME IInv, IInv', [Next]_vars
             PROVE  [Barrier!Next]_(Barrier!vars)
  OBVIOUS
<1> USE DEF IInv, TypeOK, Final, Ended
<1>1. ASSUME fut' = fut, pc \notin Final, pc' \notin Final PROVE UNCHANGED Barrier!vars
  BY <1>1 DEF Barrier!vars
<1>2. ASSUME fut' = fut, pc' = pc PROVE UNCHANGED Barrier!vars
  BY <1>2 DEF Barrier!vars
<1>3. CASE Tick \/ LoopEnds \/ TimeoutDetected \/ WithinBudget \/ WaitReturns \/ Collect
  BY <1>1, <1>2, <1>3 DEF Tick, LoopEnds, TimeoutDetected, WithinBudget, WaitReturns, Collect
<1>4. CASE Start
  <2>1. CASE NumItems = 0
    <3>1. Items = {} /\ pc \notin Final /\ pc' = "returned" /\ fut' = fut
      BY <1>4, <2>1 DEF Start, Items
    <3> QED
      BY <3>1 DEF Barrier!Next, Barrier!CallEnds
  <2>2. CASE NumItems # 0
    BY <1>1, <1>4, <2>2 DEF Start
  <2> QED
    BY <2>1, <2>2
<1>5. ASSUME Enqueue PROVE [i \in Items |-> ItemState(fut'[i])] = [i \in Items |-> ItemState(fut[i])]
  <2> SUFFICES ASSUME NEW i \in Items PROVE ItemState(fut'[i]) = ItemState(fut[i])
    OBVIOUS
  <2>1. CASE i = submitted + 1
    <3>1. fut[i] = "new" /\ fut'[i] = "pending"
      BY <1>5, <2>1, NatAssumption DEF Enqueue, SubmittedHaveFuture, Items
    <3> QED
      BY <3>1, ItemStates
  <2>2. CASE i # submitted + 1
    BY <1>5, <2>2 DEF Enqueue
  <2> QED
    BY <2>1, <2>2
<1>6. CASE Submit
  <2>1. pc \notin Final /\ pc' \notin Final
    BY <1>6 DEF Submit, Enqueue
  <2>2. Enqueue
    BY <1>6 DEF Submit
  <2> QED
    BY <1>5, <2>1, <2>2 DEF Barrier!vars
<1>7. CASE SubmitFails
  <2>1. pc \notin Final /\ pc' = "submitFailed" /\ Enqueue
    BY <1>7 DEF SubmitFails, Enqueue
  <2> QED
    BY <1>5, <2>1 DEF Barrier!Next, Barrier!CallEnds
<1>8. CASE CancelOne
  <2> PICK i \in toCancel : fut' = IF fut[i] = "pending" THEN [fut EXCEPT ![i] = "cancelled"] ELSE fut
    BY <1>8 DEF CancelOne
  <2>1. i \in Items /\ pc \notin Final /\ pc' \notin Final
    BY <1>8 DEF CancelOne
  <2>2. CASE fut[i] = "pending"
    <3>1. fut' = [fut EXCEPT ![i] = "cancelled"]
      BY <2>2
    <3>2. [j \in Items |-> ItemState(fut'[j])]
             = [[j \in Items |-> ItemState(fut[j])] EXCEPT ![i] = "dropped"]
      BY <2>1, <3>1, ItemStates
    <3>3. ItemState(fut[i]) = "todo"
      BY <2>2, ItemStates
    <3> QED
      BY <2>1, <3>2, <3>3 DEF Barrier!Next, Barrier!Drop, Barrier!Move
  <2>3. CASE fut[i] # "pending"
    BY <1>1, <2>1, <2>3
  <2> QED
    BY <2>2, <2>3
<1>9. CASE ShutdownAbandon
  <2>1. pc \notin Final /\ pc' = "raised"
    BY <1>9 DEF ShutdownAbandon
  <2>2. \A i \in Items : fut[i] \notin {"new", "pending"}
    BY <1>9, NatAssumption
       DEF ShutdownAbandon, CancelLoopIsThorough, SubmittedHaveFuture, AfterSubmit, PCs, Items
  <2>3. fut' = fut
    BY <1>9, <2>2 DEF ShutdownAbandon
  <2>4. \A i \in Items : ItemState(fut[i]) # "todo"
    BY <2>2, ItemStates
  <2> QED
    BY <2>1, <2>3, <2>4 DEF Barrier!Next, Barrier!CallEnds
<1>10. CASE ShutdownJoin
  <2>1. pc \notin Final /\ pc' \in {"returned", "exited"} /\ fut' = fut
    BY <1>10 DEF ShutdownJoin
  <2>2. \A i \in Items : fut'[i] \in Ended
    BY <2>1 DEF ExitIsComplete, OutsidePendingHasEnded, DoneIsCollected, PendingMatchesPc,
                AfterSubmit, PCs
  <2>3. \A i \in Items : ItemState(fut[i]) = "done"
    BY <2>1, <2>2, ItemStates
  <2> QED
    BY <2>1, <2>3 DEF Barrier!Next, Barrier!CallEnds
<1>11. ASSUME NEW w \in Workers, Take(w) \/ Discard(w) PROVE UNCHANGED Barrier!vars
  BY <1>2, <1>11 DEF Take, Discard
<1>12. ASSUME NEW w \in Workers, Begin(w) PROVE Barrier!Next
  <2> DEFINE i == holding[w]
  <2>1. i \in Items /\ fut[i] = "pending" /\ fut' = [fut EXCEPT ![i] = "running"] /\ pc' = pc
    BY <1>12, NatAssumption DEF Begin, Items
  <2>2. pc \notin {"returned", "raised", "exited"}
    BY <2>1 DEF ExitIsComplete, OutsidePendingHasEnded, DoneIsCollected, PendingMatchesPc,
                CancelLoopIsThorough, AfterSubmit, PCs
  <2>3. [j \in Items |-> ItemState(fut'[j])]
           = [[j \in Items |-> ItemState(fut[j])] EXCEPT ![i] = "busy"]
    BY <2>1, ItemStates
  <2>4. ItemState(fut[i]) = "todo"
    BY <2>1, ItemStates
  <2> HIDE DEF i
  <2> QED
    BY <2>1, <2>2, <2>3, <2>4 DEF Barrier!Next, Barrier!Begin, Barrier!Move
<1>13. ASSUME NEW w \in Workers, Finish(w) PROVE Barrier!Next
  <2> DEFINE i == holding[w]
  <2>1. i \in Items /\ fut[i] = "running" /\ pc' = pc
    BY <1>13, NatAssumption DEF Finish, Items
  <2>2. PICK o \in Outcomes : fut' = [fut EXCEPT ![i] = o]
    BY <1>13 DEF Finish
  <2>3. [j \in Items |-> ItemState(fut'[j])]
           = [[j \in Items |-> ItemState(fut[j])] EXCEPT ![i] = "done"]
    BY <2>1, <2>2, ItemStates, OutcomesAssumption
  <2>4. ItemState(fut[i]) = "busy"
    BY <2>1, ItemStates
  <2> HIDE DEF i
  <2> QED
    BY <2>1, <2>3, <2>4 DEF Barrier!Next, Barrier!End, Barrier!Move
<1>14. CASE UNCHANGED vars
  BY <1>2, <1>14 DEF vars
<1> QED
  BY <1>3, <1>4, <1>6, <1>7, <1>8, <1>9, <1>10, <1>11, <1>12, <1>13, <1>14
     DEF Next, CallerStep, WorkerStep

\* run_parallel implements the barrier its callers rely on (pipeline.py:128-219).
THEOREM PhaseIsABarrier == Spec => BarrierSpec
  BY Inductive, BarrierInit, BarrierStep, PTL DEF Spec, BarrierSpec, Barrier!Spec

-----------------------------------------------------------------------------
(* The pipeline.                                                           *)

\* A step of the composition is one of the phase, or leaves it alone.
LEMMA StepIsPhaseStep == [PhasedNext]_phasedVars => [Next]_vars
<1> SUFFICES ASSUME [PhasedNext]_phasedVars PROVE [Next]_vars
  OBVIOUS
<1>1. CASE MainThread \/ PhaseTick \/ PhaseWorkerStep
  BY <1>1 DEF MainThread, PipelineStep, PhaseCallerStep, PhaseReturns, PhaseRaises, PhaseTick,
              PhaseWorkerStep, Next
<1>2. CASE UNCHANGED phasedVars
  BY <1>2 DEF phasedVars
<1> QED
  BY <1>1, <1>2 DEF PhasedNext

\* A step of the composition is one of the pipeline, or leaves it alone.
LEMMA StepIsPipelineStep == [PhasedNext]_phasedVars => [Pipe!Next]_pipelineVars
<1> SUFFICES ASSUME [PhasedNext]_phasedVars PROVE [Pipe!Next]_pipelineVars
  OBVIOUS
<1>1. CASE PhaseReturns \/ PhaseRaises
  BY <1>1 DEF PhaseReturns, PhaseRaises, Pipe!Next
<1>2. CASE PipelineStep \/ PhaseCallerStep \/ PhaseTick \/ PhaseWorkerStep
  BY <1>2 DEF PipelineStep, PhaseCallerStep, PhaseTick, PhaseWorkerStep
<1>3. CASE UNCHANGED phasedVars
  BY <1>3 DEF phasedVars
<1> QED
  BY <1>1, <1>2, <1>3 DEF PhasedNext, MainThread

-----------------------------------------------------------------------------
(* The audit trail.                                                        *)

Pairs == Nat \X Nat

PipeShape ==
    /\ job \in 1..(Len(NumTasks) + 1) /\ task \in Nat
    /\ records \in Seq(BOOLEAN) /\ Len(records) = job - 1
    /\ ran \in Seq(Pairs)

\* Executions come in list order, up to where the pipeline is.
InOrder ==
    /\ \A n \in 1..Len(ran) : Pipe!FollowsOn(n) /\ ran[n][1] <= job
    /\ status = "running" /\ task <= 1 => \A n \in 1..Len(ran) : ran[n][1] < job
    /\ status = "running" /\ task > 1 => Len(ran) > 0 /\ ran[Len(ran)] = <<job, task - 1>>

Executed(j) == \E n \in 1..Len(ran) : ran[n][1] = j

\* The records so far are true.
Audited == status # "raised" =>
    \A j \in 1..(job - 1) : Executed(j) <=> ~records[j] /\ NumTasks[j] > 0

\* The pipeline leaves the phase only when the phase has let go of it.
PastPhaseIsReturned ==
    PhaseWasCalled /\ status = "running" =>
        <<job, task>> = <<PhaseJob, PhaseTask>> \/ pc = "returned"

OkIsTheEnd == status = "ok" => job = Len(NumTasks) + 1

AInv == PipeShape /\ InOrder /\ Audited /\ OkIsTheEnd

\* A pipeline that has not started has an empty and true record.
LEMMA InitAInv == PhasedInit => AInv
<1> SUFFICES ASSUME PhasedInit PROVE AInv
  OBVIOUS
<1>0. Len(NumTasks) \in Nat
  BY NumTasksAssumption
<1>1. job = 1 /\ task = 0 /\ records = <<>> /\ status = "running" /\ ran = <<>>
  BY DEF PhasedInit, Pipe!Init
<1> QED
  BY <1>0, <1>1 DEF AInv, PipeShape, InOrder, Audited, OkIsTheEnd

\* What appending the task at hand does to the executions.
LEMMA ExecutesAppends ==
  ASSUME AInv, Pipe!Executes
  PROVE  /\ ran' \in Seq(Pairs) /\ Len(ran) \in Nat /\ Len(ran') = Len(ran) + 1
         /\ ran'[Len(ran')] = <<job, task>>
         /\ \A n \in 1..Len(ran) : ran'[n] = ran[n]
         /\ \A n \in 1..Len(ran') : Pipe!FollowsOn(n)' /\ ran'[n][1] <= job
         /\ status = "running" /\ job \in 1..Len(NumTasks) /\ task \in 1..NumTasks[job]
<1>0. Len(NumTasks) \in Nat /\ task \in Nat /\ job \in Nat /\ ran \in Seq(Pairs)
  BY NumTasksAssumption DEF AInv, PipeShape
<1>1. /\ status = "running" /\ job \in 1..Len(NumTasks) /\ task \in 1..NumTasks[job]
      /\ ran' = Append(ran, <<job, task>>)
  BY DEF Pipe!Executes, Pipe!AtTask, Pipe!Running, Pipe!Jobs
<1>2. <<job, task>> \in Pairs /\ NumTasks[job] \in Nat
  BY <1>0, <1>1, NumTasksAssumption DEF Pairs
<1>3. /\ Len(ran) \in Nat /\ Len(ran') = Len(ran) + 1
      /\ ran'[Len(ran) + 1] = <<job, task>>
      /\ \A n \in 1..Len(ran) : ran'[n] = ran[n]
  BY <1>0, <1>1, <1>2
<1>7. ran' \in Seq(Pairs)
  BY <1>0, <1>1, <1>2
<1>4. ASSUME NEW n \in 1..Len(ran)
      PROVE  Pipe!FollowsOn(n)' /\ ran'[n][1] <= job
  <2>1. Pipe!FollowsOn(n) /\ ran[n][1] <= job
    BY DEF AInv, InOrder
  <2>2. ran'[n] = ran[n]
    BY <1>3
  <2>3. n > 1 => n - 1 \in 1..Len(ran) /\ ran'[n - 1] = ran[n - 1]
    BY <1>3
  <2> QED
    BY <2>1, <2>2, <2>3 DEF Pipe!FollowsOn
<1>5. ASSUME NEW m \in Nat, m = Len(ran) + 1 PROVE Pipe!FollowsOn(m)'
  <2>1. ran'[m] = <<job, task>> /\ m \in Nat
    BY <1>3, <1>5
  <2>2. m > 1 => m - 1 \in 1..Len(ran) /\ ran'[m - 1] = ran[m - 1]
    BY <1>3, <1>5
  <2>3. CASE task = 1
    <3>1. m > 1 => ran'[m - 1][1] < job
      BY <1>1, <1>5, <2>2, <2>3 DEF AInv, InOrder
    <3> QED
      BY <2>1, <2>3, <3>1 DEF Pipe!FollowsOn
  <2>4. CASE task > 1
    <3>1. Len(ran) > 0 /\ ran[Len(ran)] = <<job, task - 1>>
      BY <1>1, <2>4 DEF AInv, InOrder
    <3>2. m > 1 /\ ran'[m - 1] = <<job, task - 1>>
      BY <1>3, <1>5, <3>1
    <3>3. ran'[m] = <<ran'[m - 1][1], ran'[m - 1][2] + 1>>
      BY <1>0, <2>1, <3>2
    <3> QED
      BY <2>1, <3>2, <3>3 DEF Pipe!FollowsOn
  <2>5. task = 1 \/ task > 1
    BY <1>0, <1>1
  <2> QED
    BY <2>3, <2>4, <2>5
<1>6. ASSUME NEW n \in 1..(Len(ran) + 1)
      PROVE  Pipe!FollowsOn(n)' /\ ran'[n][1] <= job
  <2>1. CASE n = Len(ran) + 1
    <3>1. ran'[n][1] = job
      BY <1>3, <2>1
    <3>2. Pipe!FollowsOn(n)'
      BY <1>5, <2>1
    <3> QED
      BY <1>0, <3>1, <3>2
  <2>2. CASE n # Len(ran) + 1
    <3>1. n \in 1..Len(ran)
      BY <1>3, <2>2
    <3> QED
      BY <1>4, <3>1
  <2> QED
    BY <2>1, <2>2
<1> QED
  BY <1>1, <1>3, <1>6, <1>7

\* A step record, added with the next job.
LEMMA RecordAppends ==
  ASSUME AInv, job \in 1..Len(NumTasks), NEW skipped \in BOOLEAN, Pipe!Record(skipped)
  PROVE  /\ job' \in 1..(Len(NumTasks) + 1) /\ job' = job + 1 /\ task' = 0
         /\ records' \in Seq(BOOLEAN) /\ Len(records') = job' - 1
         /\ records'[job] = skipped
         /\ \A j \in 1..(job - 1) : records'[j] = records[j]
<1>1. Len(NumTasks) \in Nat
  BY NumTasksAssumption
<1>2. records' = Append(records, skipped) /\ job' = job + 1 /\ task' = 0
  BY DEF Pipe!Record
<1> QED
  BY <1>1, <1>2 DEF AInv, PipeShape

\* Executing a task keeps the trail in order and the records true.
LEMMA StepOfTask ==
  ASSUME AInv, Pipe!TaskContinues \/ Pipe!TaskStops \/ Pipe!TaskRaises
  PROVE  AInv'
<1> USE DEF AInv, PipeShape
<1>0. Pipe!Executes
  BY DEF Pipe!TaskContinues, Pipe!TaskStops, Pipe!TaskRaises
<1>1. /\ ran' \in Seq(Pairs) /\ status = "running"
      /\ \A n \in 1..Len(ran') : Pipe!FollowsOn(n)' /\ ran'[n][1] <= job
  BY <1>0, ExecutesAppends
<1>2. /\ Len(ran) \in Nat /\ Len(ran') = Len(ran) + 1
      /\ ran'[Len(ran')] = <<job, task>>
      /\ \A n \in 1..Len(ran) : ran'[n] = ran[n]
  BY <1>0, ExecutesAppends
<1>3. /\ job \in 1..Len(NumTasks) /\ task \in 1..NumTasks[job]
      /\ Len(NumTasks) \in Nat /\ NumTasks[job] \in Nat
  BY <1>0, ExecutesAppends, NumTasksAssumption
<1>4. /\ \A j \in 1..(job - 1) : Executed(j)' <=> Executed(j)
      /\ \A j : j = job => Executed(j)'
  <2>1. ASSUME NEW j \in 1..(job - 1) PROVE Executed(j)' <=> Executed(j)
    <3>1. ran'[Len(ran')][1] # j
      BY <1>2, <1>3
    <3> HIDE DEF AInv, PipeShape
    <3>2. ASSUME NEW n \in 1..Len(ran), ran[n][1] = j PROVE Executed(j)'
      <4>1. n \in 1..Len(ran') /\ ran'[n][1] = j
        BY <1>2, <3>2
      <4> QED
        BY <4>1 DEF Executed
    <3>3. ASSUME NEW n \in 1..Len(ran'), ran'[n][1] = j PROVE Executed(j)
      <4>1. n # Len(ran')
        BY <3>1, <3>3
      <4>2. n \in 1..Len(ran) /\ ran[n][1] = j
        BY <1>2, <3>3, <4>1
      <4> QED
        BY <4>2 DEF Executed
    <3> QED
      BY <3>2, <3>3 DEF Executed
  <2>2. ASSUME NEW j, j = job PROVE Executed(j)'
    <3>1. Len(ran') \in 1..Len(ran') /\ ran'[Len(ran')][1] = j
      BY <1>2, <2>2
    <3> QED
      BY <3>1 DEF Executed
  <2> QED
    BY <2>1, <2>2
<1>5. CASE Pipe!TaskContinues
  <2>1. task' = task + 1 /\ UNCHANGED <<job, records, status>>
    BY <1>5 DEF Pipe!TaskContinues
  <2>2. Len(ran') > 0 /\ ran'[Len(ran')] = <<job', task' - 1>> /\ task' > 1
    BY <1>2, <1>3, <2>1
  <2>3. InOrder'
    BY <1>1, <2>1, <2>2 DEF InOrder
  <2>4. Audited' /\ OkIsTheEnd'
    BY <1>1, <1>4, <2>1 DEF Audited, OkIsTheEnd
  <2> QED
    BY <1>1, <2>1, <2>3, <2>4
<1>6. CASE Pipe!TaskStops
  <2>1. Pipe!Record(FALSE) /\ status' = status
    BY <1>6 DEF Pipe!TaskStops
  <2>2. /\ job' \in 1..(Len(NumTasks) + 1) /\ job' = job + 1 /\ task' = 0
        /\ records' \in Seq(BOOLEAN) /\ Len(records') = job' - 1 /\ records'[job] = FALSE
        /\ \A j \in 1..(job - 1) : records'[j] = records[j]
    BY <1>3, <2>1, RecordAppends
  <2>3. \A n \in 1..Len(ran') : ran'[n][1] \in Nat
    <3>1. \A n \in 1..Len(ran') : ran'[n] \in Pairs
      BY <1>1
    <3> QED
      BY <3>1 DEF Pairs
  <2>4. InOrder'
    <3>1. \A n \in 1..Len(ran') : Pipe!FollowsOn(n)' /\ ran'[n][1] <= job' /\ ran'[n][1] < job'
      BY <1>1, <1>3, <2>2, <2>3
    <3> QED
      BY <2>2, <3>1 DEF InOrder
  <2>5. ASSUME NEW j \in 1..job PROVE Executed(j)' <=> ~records'[j] /\ NumTasks[j] > 0
    <3>1. CASE j = job
      <4>1. NumTasks[j] > 0
        BY <1>3, <3>1
      <4> QED
        BY <1>4, <2>2, <3>1, <4>1
    <3>2. CASE j # job
      <4>1. j \in 1..(job - 1)
        BY <1>3, <3>2
      <4>2. Executed(j) <=> ~records[j] /\ NumTasks[j] > 0
        BY <1>1, <4>1 DEF Audited
      <4> QED
        BY <1>4, <2>2, <4>1, <4>2
    <3> QED
      BY <3>1, <3>2
  <2>6. Audited' /\ OkIsTheEnd'
    <3>1. 1..(job' - 1) = 1..job
      BY <1>3, <2>2
    <3> QED
      BY <1>1, <2>1, <2>5, <3>1 DEF Audited, OkIsTheEnd
  <2> QED
    BY <1>1, <2>2, <2>4, <2>6
<1>7. CASE Pipe!TaskRaises
  <2>1. status' = "raised" /\ UNCHANGED <<job, task, records>>
    BY <1>7 DEF Pipe!TaskRaises
  <2> QED
    BY <1>1, <2>1 DEF InOrder, Audited, OkIsTheEnd
<1> QED
  BY <1>5, <1>6, <1>7

\* So do the steps between tasks, which record a job as skipped or as run.
LEMMA StepBetweenTasks ==
  ASSUME AInv,
         \/ Pipe!SkipJob \/ Pipe!EnterJob \/ Pipe!ShouldSkipRaises
         \/ Pipe!ChainEnds \/ Pipe!Finish
  PROVE  AInv'
<1> USE DEF AInv, PipeShape
<1>0. Len(NumTasks) \in Nat /\ \A j \in 1..Len(NumTasks) : NumTasks[j] \in Nat
  BY NumTasksAssumption
<1>1. ran' = ran
  BY DEF Pipe!SkipJob, Pipe!EnterJob, Pipe!ShouldSkipRaises, Pipe!ChainEnds, Pipe!Finish
<1>2. \A n \in 1..Len(ran) : /\ Pipe!FollowsOn(n) /\ Pipe!FollowsOn(n)'
                             /\ ran[n][1] <= job /\ ran[n][1] \in Nat
  <2>1. \A n \in 1..Len(ran) : ran[n] \in Pairs
    OBVIOUS
  <2> QED
    BY <1>1, <2>1 DEF InOrder, Pipe!FollowsOn, Pairs
<1>3. ASSUME Pipe!SkipJob \/ Pipe!ChainEnds, NEW skipped \in BOOLEAN, Pipe!Record(skipped),
             Executed(job) <=> ~skipped /\ NumTasks[job] > 0
      PROVE  AInv'
  <2>1. job \in 1..Len(NumTasks) /\ status = "running" /\ status' = status
    BY <1>3 DEF Pipe!SkipJob, Pipe!ChainEnds, Pipe!Running, Pipe!Jobs
  <2>2. /\ job' \in 1..(Len(NumTasks) + 1) /\ job' = job + 1 /\ task' = 0
        /\ records' \in Seq(BOOLEAN) /\ Len(records') = job' - 1 /\ records'[job] = skipped
        /\ \A j \in 1..(job - 1) : records'[j] = records[j]
    BY <1>3, <2>1, RecordAppends
  <2>3. InOrder'
    <3>1. \A n \in 1..Len(ran') : Pipe!FollowsOn(n)' /\ ran'[n][1] <= job' /\ ran'[n][1] < job'
      BY <1>1, <1>2, <2>2
    <3> QED
      BY <2>2, <3>1 DEF InOrder
  <2>4. ASSUME NEW j \in 1..job
        PROVE  Executed(j)' <=> ~records'[j] /\ NumTasks[j] > 0
    <3>1. Executed(j)' <=> Executed(j)
      BY <1>1 DEF Executed
    <3>2. CASE j = job
      BY <1>3, <2>2, <3>1, <3>2
    <3>3. CASE j # job
      <4>1. j \in 1..(job - 1)
        BY <2>1, <3>3
      <4> QED
        BY <2>1, <2>2, <3>1, <4>1 DEF Audited
    <3> QED
      BY <3>2, <3>3
  <2>5. Audited' /\ OkIsTheEnd'
    BY <2>1, <2>2, <2>4 DEF Audited, OkIsTheEnd
  <2> QED
    BY <1>1, <2>2, <2>3, <2>5
<1>4. CASE Pipe!SkipJob
  <2>1. Pipe!Record(TRUE) /\ status = "running" /\ task = 0
    BY <1>4 DEF Pipe!SkipJob, Pipe!Running
  <2>2. ~Executed(job)
    BY <1>2, <2>1 DEF InOrder, Executed
  <2> QED
    BY <1>3, <1>4, <2>1, <2>2
<1>5. CASE Pipe!ChainEnds
  <2>1. /\ Pipe!Record(FALSE) /\ status = "running" /\ job \in 1..Len(NumTasks)
        /\ task = NumTasks[job] + 1
    BY <1>5 DEF Pipe!ChainEnds, Pipe!Running, Pipe!Jobs
  <2>2. CASE NumTasks[job] = 0
    <3>1. ~Executed(job)
      BY <1>2, <2>1, <2>2 DEF InOrder, Executed
    <3>2. Executed(job) <=> ~FALSE /\ NumTasks[job] > 0
      BY <2>2, <3>1
    <3> QED
      BY <1>3, <1>5, <2>1, <3>2
  <2>3. CASE NumTasks[job] # 0
    <3>1. NumTasks[job] > 0 /\ task > 1
      BY <1>0, <2>1, <2>3
    <3>2. Len(ran) > 0 /\ ran[Len(ran)] = <<job, task - 1>>
      BY <2>1, <3>1 DEF InOrder
    <3>3. Executed(job)
      BY <3>2 DEF Executed
    <3> QED
      BY <1>3, <1>5, <2>1, <3>1, <3>3
  <2> QED
    BY <2>2, <2>3
<1>6. CASE Pipe!EnterJob
  <2>1. task = 0 /\ task' = 1 /\ UNCHANGED <<job, records, status, ran>>
    BY <1>6 DEF Pipe!EnterJob
  <2>2. InOrder'
    BY <1>2, <2>1 DEF InOrder
  <2> QED
    BY <2>1, <2>2 DEF Audited, OkIsTheEnd, Executed
<1>7. CASE Pipe!ShouldSkipRaises
  <2>1. status' = "raised" /\ UNCHANGED <<job, task, records, ran>>
    BY <1>7 DEF Pipe!ShouldSkipRaises
  <2> QED
    BY <1>2, <2>1 DEF InOrder, Audited, OkIsTheEnd
<1>8. CASE Pipe!Finish
  <2>1. /\ status = "running" /\ job = Len(NumTasks) + 1
        /\ status' = "ok" /\ UNCHANGED <<job, task, records, ran>>
    BY <1>8 DEF Pipe!Finish
  <2>2. InOrder'
    BY <1>2, <2>1 DEF InOrder
  <2> QED
    BY <2>1, <2>2 DEF Audited, OkIsTheEnd, Executed
<1> QED
  BY <1>4, <1>5, <1>6, <1>7, <1>8

\* Every step keeps the audit trail.
LEMMA StepAInv == AInv /\ [PhasedNext]_phasedVars => AInv'
<1> SUFFICES ASSUME AInv, [Pipe!Next]_pipelineVars PROVE AInv'
  BY StepIsPipelineStep
<1>1. CASE UNCHANGED pipelineVars
  BY <1>1 DEF pipelineVars, AInv, PipeShape, InOrder, Pipe!FollowsOn, Audited, Executed, OkIsTheEnd
<1> QED
  BY <1>1, StepOfTask, StepBetweenTasks DEF Pipe!Next
\* At every moment the trail is in list order and the records so far are true
\* (pipeline.py:103-126).
THEOREM AuditInductive == PhasedSpec => []AInv
  BY InitAInv, StepAInv, PTL DEF PhasedSpec

\* The composition is a pipeline run and a phase, each as its own module has it.
THEOREM ComposesBoth == PhasedSpec => Pipe!Spec /\ Spec
<1>1. PhasedInit => Pipe!Init /\ Init
  BY DEF PhasedInit
<1> QED
  BY <1>1, StepIsPhaseStep, StepIsPipelineStep, PTL DEF PhasedSpec, Pipe!Spec, Spec,
     pipelineVars, Pipe!vars

\* A PipelineResult tells what was executed (pipeline.py:106-126).
THEOREM AuditIsTrue == PhasedSpec => []ResultIsAudited
<1>1. AInv => ResultIsAudited
  <2> SUFFICES ASSUME AInv, status = "ok" PROVE ResultIsAudited
    BY DEF ResultIsAudited, Pipe!ResultIsAudited
  <2>1. job = Len(NumTasks) + 1 /\ Len(NumTasks) \in Nat
    BY NumTasksAssumption DEF AInv, OkIsTheEnd
  <2>2. Len(records) = Len(NumTasks) /\ 1..(job - 1) = 1..Len(NumTasks)
    BY <2>1 DEF AInv, PipeShape
  <2> QED
    BY <2>1, <2>2 DEF AInv, InOrder, Audited, Executed, ResultIsAudited, Pipe!ResultIsAudited,
                     Pipe!Jobs
<1> QED
  BY AuditInductive, <1>1, PTL

-----------------------------------------------------------------------------
(* What follows the phase.                                                 *)

\* The pipeline does not pass the phase before run_parallel returned.
LEMMA StepPastPhase ==
  ASSUME IInv, PastPhaseIsReturned, [PhasedNext]_phasedVars
  PROVE  PastPhaseIsReturned'
<1> USE DEF PastPhaseIsReturned, PhaseWasCalled
<1>1. CASE PipelineStep
  <2>1. CASE pc = "returned" \/ pc = "start"
    BY <1>1, <2>1 DEF PipelineStep, vars
  <2>2. CASE pc \notin {"returned", "start"}
    <3>1. status # "running" \/ <<job, task>> = <<PhaseJob, PhaseTask>>
      BY <2>2
    <3>2. status # "running"
      BY <1>1, <3>1, PhaseTaskAssumption
         DEF PipelineStep, AtPhase, Pipe!AtTask, Pipe!Running, Pipe!Jobs
    <3> QED
      BY <1>1, <3>2
         DEF PipelineStep, Pipe!Next, Pipe!SkipJob, Pipe!EnterJob, Pipe!ShouldSkipRaises,
             Pipe!TaskContinues, Pipe!TaskStops, Pipe!TaskRaises, Pipe!ChainEnds, Pipe!Finish,
             Pipe!Executes, Pipe!AtTask, Pipe!Running
  <2> QED
    BY <2>1, <2>2
<1>2. CASE PhaseCallerStep \/ PhaseTick
  BY <1>2 DEF PhaseCallerStep, PhaseTick, pipelineVars, AtPhase
<1>3. CASE PhaseWorkerStep
  <2>1. pc' = pc
    BY <1>3 DEF PhaseWorkerStep, WorkerStep, Take, Begin, Discard, Finish
  <2> QED
    BY <1>3, <2>1 DEF PhaseWorkerStep, pipelineVars
<1>4. CASE PhaseReturns
  BY <1>4 DEF PhaseReturns, vars
<1>5. CASE PhaseRaises
  BY <1>5 DEF PhaseRaises, Pipe!TaskRaises
<1>6. CASE UNCHANGED phasedVars
  BY <1>6 DEF phasedVars, pipelineVars, vars
<1> QED
  BY <1>1, <1>2, <1>3, <1>4, <1>5, <1>6 DEF PhasedNext, MainThread

\* A task that follows the phase runs when every item's job has ended
\* (pipeline.py:129-216 under :106-118).
THEOREM DownstreamIsSafe == PhasedSpec => DownstreamSeesWholeSet
<1> DEFINE Safe ==
        \A n \in 1..Len(ran') :
          n > Len(ran) /\ ran'[n] # <<PhaseJob, PhaseTask>> /\ PhaseWasCalled
            => \A i \in Items : fut[i] \in {"ok", "error"}
           Inv == IInv /\ AInv /\ PastPhaseIsReturned
<1>1. PhasedInit => Inv
  BY InitIInv, InitAInv DEF PhasedInit, Init, PastPhaseIsReturned, PhaseWasCalled
<1>2. Inv /\ [PhasedNext]_phasedVars => Inv'
  BY StepIsPhaseStep, StepIInv, StepAInv, StepPastPhase
<1>3. Inv /\ [PhasedNext]_phasedVars => [Safe]_phasedVars
  <2> SUFFICES ASSUME Inv, [PhasedNext]_phasedVars,
                      NEW n \in 1..Len(ran'), n > Len(ran),
                      ran'[n] # <<PhaseJob, PhaseTask>>, PhaseWasCalled
               PROVE  \A i \in Items : fut[i] \in {"ok", "error"}
    OBVIOUS
  <2>1. ran' # ran
    BY DEF AInv, PipeShape
  <2>2. Pipe!Executes
    BY <2>1, StepIsPipelineStep
       DEF pipelineVars, Pipe!Next, Pipe!SkipJob, Pipe!EnterJob, Pipe!ShouldSkipRaises,
           Pipe!TaskContinues, Pipe!TaskStops, Pipe!TaskRaises, Pipe!ChainEnds, Pipe!Finish
  <2>3. /\ Len(ran) \in Nat /\ Len(ran') = Len(ran) + 1 /\ ran'[Len(ran')] = <<job, task>>
        /\ status = "running"
    BY <2>2, ExecutesAppends
  <2>4. n = Len(ran')
    BY <2>3
  <2>5. pc = "returned"
    BY <2>3, <2>4 DEF PastPhaseIsReturned
  <2> QED
    BY <2>5 DEF IInv, OutsidePendingHasEnded, DoneIsCollected, PendingMatchesPc, AfterSubmit,
                PCs, Final
<1> QED
  BY <1>1, <1>2, <1>3, PTL DEF PhasedSpec, DownstreamSeesWholeSet
=============================================================================
