------------------------- MODULE MCDecisionLedger -------------------------
EXTENDS DecisionLedger, LedgerAccess
CONSTANTS w1, w2, k1, k2

R(k, v, kind) == [key |-> k, verdict |-> v, kind |-> kind]

\* A batch of two, a conflicting verdict for one of its keys, a row with a NULL
\* reason beside a good one, an invalid verdict behind a good row found nowhere
\* else, and a row that cannot be bound behind a good one.
SomeBatches == {
    <<R(k1, "allow", "good"), R(k2, "allow", "good")>>,
    <<R(k2, "block", "good")>>,
    <<R(k1, "halve", "null"), R(k2, "halve", "good")>>,
    <<R(k1, "block", "good"), R(k2, "deny", "invalid")>>,
    <<R(k1, "allow", "good"), R(k2, "allow", "unbindable")>> }

TwoWriters == {w1, w2}

\* The writers and a process that only opens ledgers, checked side by side: neither
\* reads the state of the other, so that their steps are not combined.
LedgerInit == Init /\ AccessInit
LedgerNext ==
    \/ Next /\ AccessInit /\ UNCHANGED accessVars
    \/ AccessNext /\ Init /\ UNCHANGED vars
=============================================================================
