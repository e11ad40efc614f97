-------------------------- MODULE MCPhasedPipeline --------------------------
EXTENDS PhasedPipeline

\* A job before the phase, a job with a task on each side of it, an empty job,
\* a job after.
FourJobs == <<1, 3, 0, 1>>
AllOutcomes == {"ok", "error", "exit"}
=============================================================================
