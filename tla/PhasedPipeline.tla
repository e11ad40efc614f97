--------------------------- MODULE PhasedPipeline ---------------------------
(***************************************************************************)
(* A pipeline one of whose tasks runs a parallel phase: PipelineRun and    *)
(* ParallelPhase composed.  The task calls run_parallel, waits for it to   *)
(* hand back control, and lets its exception propagate.  Abandoned workers *)
(* go on by themselves, while the pipeline's caller has the exception.     *)
(***************************************************************************)
EXTENDS ParallelPhase, Sequences

CONSTANTS
    NumTasks,               \* of PipelineRun
    PhaseJob, PhaseTask     \* which task is the phase

VARIABLES job, task, records, status, ran    \* of PipelineRun

pipelineVars == <<job, task, records, status, ran>>
phasedVars == <<pipelineVars, vars>>

Pipe == INSTANCE PipelineRun

ASSUME NumTasksAssumption == NumTasks \in Seq(Nat)
ASSUME PhaseTaskAssumption ==
    PhaseJob \in 1..Len(NumTasks) /\ PhaseTask \in 1..NumTasks[PhaseJob]

AtPhase == Pipe!AtTask /\ <<job, task>> = <<PhaseJob, PhaseTask>>

PhasedInit == Pipe!Init /\ Init

\* An ordinary task, or the bookkeeping between tasks.
PipelineStep == ~AtPhase /\ Pipe!Next /\ UNCHANGED vars

\* The task is inside run_parallel.
PhaseCallerStep == AtPhase /\ CallerStep /\ UNCHANGED pipelineVars

PhaseTick == AtPhase /\ Tick /\ UNCHANGED pipelineVars

PhaseWorkerStep ==
    /\ \E w \in Workers : WorkerStep(w)
    /\ UNCHANGED pipelineVars

PhaseReturns ==
    /\ AtPhase /\ pc = "returned"
    /\ Pipe!TaskContinues
    /\ UNCHANGED vars

PhaseRaises ==
    /\ AtPhase /\ pc \in {"raised", "exited", "submitFailed"}
    /\ Pipe!TaskRaises
    /\ UNCHANGED vars

\* The thread that runs the pipeline, inside the phase and outside it.
MainThread == PipelineStep \/ PhaseCallerStep \/ PhaseReturns \/ PhaseRaises

PhasedNext == MainThread \/ PhaseTick \/ PhaseWorkerStep

\* Tasks return; no thread is starved; a job of the phase may hang for ever.
PhasedSpec ==
    PhasedInit /\ [][PhasedNext]_phasedVars /\ WF_phasedVars(MainThread) /\ PoolFairness

-----------------------------------------------------------------------------

PhaseWasCalled == pc # "start"

\* No task that follows the phase executes while an item of the phase is
\* unfinished, still queued or still running.
DownstreamSeesWholeSet ==
    [][ \A n \in 1..Len(ran') :
          n > Len(ran) /\ ran'[n] # <<PhaseJob, PhaseTask>> /\ PhaseWasCalled
            => \A i \in Items : fut[i] \in {"ok", "error"} ]_phasedVars

\* The step records of PipelineResult tell what was executed.
ResultIsAudited == Pipe!ResultIsAudited

\* When the jobs of the items end, so does the pipeline, and an item that fails
\* does not stop its siblings: once the phase was called every item ends, unless
\* the budget was spent or the pool could not start a thread.
PipelineEnds ==
    JobsEnd =>
        /\ <>(status # "running")
        /\ PhaseWasCalled ~> \/ late \/ pc = "submitFailed"
                             \/ \A i \in Items : fut[i] \in Ended
=============================================================================
