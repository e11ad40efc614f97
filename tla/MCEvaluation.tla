---------------------------- MODULE MCEvaluation ----------------------------
(***************************************************************************)
(* The three evaluators for TLC, side by side: they share no state, so an  *)
(* instance of one runs while the others stay where they start.            *)
(***************************************************************************)
EXTENDS RegimeLabels, Overfitting, CostModel

EvaluationInit == RegimeInit /\ OverfittingInit /\ CostInit

EvaluationNext ==
    \/ Close    /\ OverfittingInit /\ CostInit /\ UNCHANGED <<matrix, costVars>>
    \/ Estimate /\ RegimeInit /\ CostInit /\ UNCHANGED <<regimeVars, costVars>>
    \/ CostNext /\ RegimeInit /\ OverfittingInit /\ UNCHANGED <<regimeVars, matrix>>

\* A crash day, a dip, a calm day and a rally, in percent.
SomeReturns == {-4, -1, 1, 3}
SomeDayIC == <<1, 0, -1, 1, 0, -1>>

\* Candidates that swap places out of sample, and one that is flat over two slices
\* and better than all others over the rest.
SomeSeries == { <<1, 2, 4, 7>>, <<3, 1, -1, 2>>, <<-2, 3, 1, 4>>,
                <<5, -1, 2, 1>>, <<0, 1, 3, -2>>, <<2, 2, 3, 4>> }

\* A negative component is refused, and "slipage" is a misspelt key.
SomeBps == {-1, 0, 2, 3}
Stamped == [fee |-> 2, spread |-> 3]
=============================================================================
