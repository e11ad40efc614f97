---------------------------- MODULE PipelineRun ----------------------------
(***************************************************************************)
(* Pipeline.run and Job.run of pipeline.py: jobs one after the other, the  *)
(* tasks of a job one after the other.  A task that returns False stops    *)
(* its own job; an exception stops the pipeline without a result.          *)
(***************************************************************************)
EXTENDS Naturals, Sequences

CONSTANT NumTasks       \* NumTasks[j] is the number of tasks of the j-th job

VARIABLES
    job,       \* the job being run; Len(NumTasks) + 1 after the last
    task,      \* the task to run next; 0 before should_skip is asked
    records,   \* the `skipped` field of the step records so far
    status,    \* "running", "ok" (a PipelineResult), "raised"
    ran        \* history: the <<job, task>> pairs executed, in order

vars == <<job, task, records, status, ran>>

Jobs == 1..Len(NumTasks)

Init ==
    /\ job = 1
    /\ task = 0
    /\ records = <<>>
    /\ status = "running"
    /\ ran = <<>>

Running == status = "running" /\ job \in Jobs

\* records.append(PipelineStepRecord(...)), then the next job.
Record(skipped) ==
    /\ records' = Append(records, skipped)
    /\ job' = job + 1
    /\ task' = 0

SkipJob ==
    /\ Running /\ task = 0
    /\ Record(TRUE)
    /\ UNCHANGED <<status, ran>>

EnterJob ==
    /\ Running /\ task = 0
    /\ task' = 1
    /\ UNCHANGED <<job, records, status, ran>>

ShouldSkipRaises ==
    /\ Running /\ task = 0
    /\ status' = "raised"
    /\ UNCHANGED <<job, task, records, ran>>

AtTask == Running /\ task \in 1..NumTasks[job]

\* Every way of executing the task at hand.
Executes == AtTask /\ ran' = Append(ran, <<job, task>>)

TaskContinues ==
    /\ Executes
    /\ task' = task + 1
    /\ UNCHANGED <<job, records, status>>

\* Deviation: a gate's False ends the pipeline, not only its job.
GateEndsPipeline ==
    /\ Executes
    /\ status' = "ok"
    /\ UNCHANGED <<job, task, records>>

\* task.run(ctx) is False: Job.run returns, the job counts as run.
TaskStops ==
    /\ Executes
    /\ Record(FALSE)
    /\ UNCHANGED status

\* Deviation: the exception is swallowed and the pipeline goes on.
RaiseSwallowed ==
    /\ Executes
    /\ Record(FALSE)
    /\ UNCHANGED status

TaskRaises ==
    /\ Executes
    /\ status' = "raised"
    /\ UNCHANGED <<job, task, records>>

ChainEnds ==
    /\ Running /\ task = NumTasks[job] + 1
    /\ Record(FALSE)
    /\ UNCHANGED <<status, ran>>

Finish ==
    /\ status = "running"
    /\ job = Len(NumTasks) + 1
    /\ status' = "ok"
    /\ UNCHANGED <<job, task, records, ran>>

Next ==
    \/ SkipJob \/ EnterJob \/ ShouldSkipRaises
    \/ TaskContinues \/ TaskStops \/ TaskRaises
    \/ ChainEnds \/ Finish

Spec == Init /\ [][Next]_vars

-----------------------------------------------------------------------------

\* The n-th execution starts a later job at its first task, or is the task after
\* the one before it.
FollowsOn(n) ==
    \/ ran[n][2] = 1 /\ (n > 1 => ran[n - 1][1] < ran[n][1])
    \/ n > 1 /\ ran[n] = <<ran[n - 1][1], ran[n - 1][2] + 1>>

\* The result of a finished pipeline tells what was executed: one record per job,
\* tasks ran in list order and from the first of their job on, and a job ran a
\* task exactly when its record does not say skipped.
ResultIsAudited ==
    status = "ok" =>
        /\ Len(records) = Len(NumTasks)
        /\ \A n \in 1..Len(ran) : FollowsOn(n)
        /\ \A j \in Jobs :
              (\E n \in 1..Len(ran) : ran[n][1] = j) <=> ~records[j] /\ NumTasks[j] > 0
=============================================================================
