------------------------------ MODULE MCRegistry ------------------------------
(* The model registry and the record of the training runs, checked side by *)
(* side: their steps are not combined, as neither reads the state of the   *)
(* other.                                                                  *)
EXTENDS MlflowRegistry, TrainingRuns
CONSTANTS c1, c2, t1, t2

TwoClients == {c1, c2}
TwoTrainers == {t1, t2}

RegistryInit == Init /\ RunsInit
RegistryNext ==
    \/ Next /\ RunsInit /\ UNCHANGED runsVars
    \/ RunsNext /\ Init /\ UNCHANGED vars
=============================================================================
