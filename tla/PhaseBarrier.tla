--------------------------- MODULE PhaseBarrier ---------------------------
(***************************************************************************)
(* What a parallel phase is to its caller: a barrier over the items.  The  *)
(* call returns when all items are done, raises the timeout only when no   *)
(* item can start any more, and lets a worker's BaseException out when     *)
(* nothing is left to do.  A call that could not hand out all its items    *)
(* ("submitFailed") promises nothing.                                      *)
(***************************************************************************)
CONSTANT Items

VARIABLES
    item,      \* "todo", "busy", "done" or "dropped"
    outcome    \* "open", or how the call ended

vars == <<item, outcome>>

Init ==
    /\ item = [i \in Items |-> "todo"]
    /\ outcome = "open"

Move(i, from, to) == item[i] = from /\ item' = [item EXCEPT ![i] = to]

Begin(i) ==
    /\ outcome \in {"open", "submitFailed"}
    /\ Move(i, "todo", "busy")
    /\ UNCHANGED outcome

\* A busy item ends whenever it likes, also after the caller gave up on it.
End(i) == Move(i, "busy", "done") /\ UNCHANGED outcome

Drop(i) == outcome = "open" /\ Move(i, "todo", "dropped") /\ UNCHANGED outcome

CallEnds ==
    /\ outcome = "open"
    /\ \/ outcome' \in {"returned", "exited"} /\ \A i \in Items : item[i] = "done"
       \/ outcome' = "raised" /\ \A i \in Items : item[i] # "todo"
       \/ outcome' = "submitFailed"
    /\ UNCHANGED item

Next == CallEnds \/ \E i \in Items : Begin(i) \/ End(i) \/ Drop(i)

Spec == Init /\ [][Next]_vars
=============================================================================
