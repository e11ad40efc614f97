----------------------------- MODULE NetSafety -----------------------------
(***************************************************************************)
(* call_with_timeout and FetchBudget of net_safety.py.  Each call runs fn  *)
(* in a daemon thread of its own, waits for it for a limited time, and     *)
(* hands back its value or None; a thread that is too late is abandoned    *)
(* and goes on.  The duration of a call is charged to a budget, which      *)
(* several calling threads may share.                                      *)
(*                                                                         *)
(* Time is counted in ticks, of which Second make up the 1.0 s of the      *)
(* code.  Only fn takes time: a caller whose wait is over goes on before   *)
(* the next tick.                                                          *)
(***************************************************************************)
EXTENDS Integers, FiniteSets

CONSTANTS
    Callers,      \* threads that share the FetchBudget
    Total,        \* budget.total_sec, in ticks
    Timeout,      \* timeout_sec, in ticks
    Second,       \* 1.0 s, in ticks
    MaxCalls,     \* bound: calls the callers make together
    MaxThreads    \* threads the process may have alive at once

ASSUME TimeAssumption == {Total, Timeout, Second} \subseteq Nat \ {0}
ASSUME BoundAssumption == MaxCalls \in Nat /\ MaxThreads \in Nat

VARIABLES
    consumed,    \* FetchBudget.consumed
    pc,          \* "idle", "checked", "joining", "joined", "charging", "raised"
    call,        \* number of each caller's current call
    limit,       \* effective_timeout
    age,         \* time since t0 of the current call
    base,        \* the value of `consumed` that += has read
    answer,      \* what the current call is going to return
    thread,      \* state of the daemon thread of each call
    box,         \* the result_box of each call
    got,         \* history: what each call returned
    spent        \* history: the time all calls took together

vars == <<consumed, pc, call, limit, age, base, answer, thread, box, got, spent>>

Calls == 1..MaxCalls
NoAnswer == 0                 \* None; the value of the n-th call's fn is n
Empty == 0
Exc == MaxCalls + 1           \* an exception in the box

Init ==
    /\ consumed = 0
    /\ pc = [c \in Callers |-> "idle"]
    /\ call = [c \in Callers |-> 0]
    /\ limit = [c \in Callers |-> 0]
    /\ age = [c \in Callers |-> 0]
    /\ base = [c \in Callers |-> 0]
    /\ answer = [c \in Callers |-> NoAnswer]
    /\ thread = [c \in Callers |-> [n \in Calls |-> "none"]]
    /\ box = [c \in Callers |-> [n \in Calls |-> Empty]]
    /\ got = [c \in Callers |-> [n \in Calls |-> NoAnswer]]
    /\ spent = 0

-----------------------------------------------------------------------------

Exhausted == consumed >= Total

Remaining == IF consumed < Total THEN Total - consumed ELSE 0

\* Deviation: a call inside a budget is limited by its own timeout only.
EffectiveTimeoutUncapped == Timeout

\* min(timeout_sec, max(1.0, budget.remaining()))
EffectiveTimeout ==
    LET floor == IF Remaining > Second THEN Remaining ELSE Second
    IN  IF Timeout < floor THEN Timeout ELSE floor

\* Deviation: one result_box outlives the calls of its caller.
SharedBox(n) == 1

\* The result_box the thread of the n-th call writes, and that call reads.
BoxOf(n) == n

LiveThreads ==
    Cardinality({cn \in Callers \X Calls : thread[cn[1]][cn[2]] = "running"})

\* The caller has reached the call of call_with_timeout.
Ready(c) ==
    /\ pc[c] = "idle"
    /\ Cardinality({cn \in Callers \X Calls : cn[2] <= call[cn[1]]}) < MaxCalls

\* The budget is exhausted: None at once.
ShortCircuit(c) ==
    /\ Ready(c)
    /\ Exhausted
    /\ call' = [call EXCEPT ![c] = @ + 1]
    /\ UNCHANGED <<consumed, pc, limit, age, base, answer, thread, box, got, spent>>

CheckBudget(c) ==
    /\ Ready(c)
    /\ ~Exhausted
    /\ call' = [call EXCEPT ![c] = @ + 1]
    /\ pc' = [pc EXCEPT ![c] = "checked"]
    /\ UNCHANGED <<consumed, limit, age, base, answer, thread, box, got, spent>>

StartThread(c) ==
    /\ pc[c] = "checked"
    /\ LiveThreads < MaxThreads
    /\ limit' = [limit EXCEPT ![c] = EffectiveTimeout]
    /\ age' = [age EXCEPT ![c] = 0]
    /\ thread' = [thread EXCEPT ![c][call[c]] = "running"]
    /\ pc' = [pc EXCEPT ![c] = "joining"]
    /\ UNCHANGED <<consumed, call, base, answer, box, got, spent>>

\* worker.start() raises RuntimeError, outside the try block.
StartThreadFails(c) ==
    /\ pc[c] = "checked"
    /\ LiveThreads >= MaxThreads
    /\ pc' = [pc EXCEPT ![c] = "raised"]
    /\ UNCHANGED <<consumed, call, limit, age, base, answer, thread, box, got, spent>>

\* _runner ends, whether or not anyone still waits for it: with a value, with
\* an exception in the box, or with a BaseException and nothing in the box.
RunnerEnds(c, n) ==
    /\ thread[c][n] = "running"
    /\ thread' = [thread EXCEPT ![c][n] = "ended"]
    /\ \E r \in {n, Exc} : box' \in {box, [box EXCEPT ![c][BoxOf(n)] = r]}
    /\ UNCHANGED <<consumed, pc, call, limit, age, base, answer, got, spent>>

\* Deviation: the caller waits for the thread without a limit.
JoinForever(c) ==
    /\ pc[c] = "joining"
    /\ thread[c][call[c]] = "ended"
    /\ pc' = [pc EXCEPT ![c] = "joined"]
    /\ UNCHANGED <<consumed, call, limit, age, base, answer, thread, box, got, spent>>

JoinReturns(c) ==
    /\ pc[c] = "joining"
    /\ thread[c][call[c]] = "ended" \/ age[c] >= limit[c]
    /\ pc' = [pc EXCEPT ![c] = "joined"]
    /\ UNCHANGED <<consumed, call, limit, age, base, answer, thread, box, got, spent>>

\* Deviation: a call that timed out is free of charge.
JudgeChargingAnswersOnly(c) ==
    /\ pc[c] = "joined"
    /\ LET r == box[c][BoxOf(call[c])]
           timedOut == thread[c][call[c]] = "running"
       IN  /\ answer' = [answer EXCEPT ![c] =
                            IF timedOut \/ r \in {Empty, Exc} THEN NoAnswer ELSE r]
           /\ pc' = [pc EXCEPT ![c] = IF timedOut THEN "idle" ELSE "charging"]
    /\ base' = [base EXCEPT ![c] = consumed]
    /\ spent' = spent + age[c]
    /\ UNCHANGED <<consumed, call, limit, age, thread, box, got>>

\* is_alive, the result_box, and the first half of budget.charge: the value
\* of self.consumed is on the stack while float(seconds) is called.
Judge(c) ==
    /\ pc[c] = "joined"
    /\ LET r == box[c][BoxOf(call[c])]
           timedOut == thread[c][call[c]] = "running"
       IN  answer' = [answer EXCEPT ![c] =
                        IF timedOut \/ r \in {Empty, Exc} THEN NoAnswer ELSE r]
    /\ base' = [base EXCEPT ![c] = consumed]
    /\ spent' = spent + age[c]
    /\ pc' = [pc EXCEPT ![c] = "charging"]
    /\ UNCHANGED <<consumed, call, limit, age, thread, box, got>>

\* Deviation: the limit of the call is charged, not its duration.
ChargeLimit(c) ==
    /\ pc[c] = "charging"
    /\ consumed' = base[c] + limit[c]
    /\ got' = [got EXCEPT ![c][call[c]] = answer[c]]
    /\ pc' = [pc EXCEPT ![c] = "idle"]
    /\ UNCHANGED <<call, limit, age, base, answer, thread, box, spent>>

Charge(c) ==
    /\ pc[c] = "charging"
    /\ consumed' = base[c] + age[c]
    /\ got' = [got EXCEPT ![c][call[c]] = answer[c]]
    /\ pc' = [pc EXCEPT ![c] = "idle"]
    /\ UNCHANGED <<call, limit, age, base, answer, thread, box, spent>>

-----------------------------------------------------------------------------

Waiting(c) == pc[c] = "joining" /\ thread[c][call[c]] = "running" /\ age[c] < limit[c]

\* Time passes while callers wait for their threads.
Tick ==
    /\ \E c \in Callers : Waiting(c)
    /\ \A c \in Callers : Waiting(c) \/ pc[c] \in {"idle", "raised"}
    /\ age' = [c \in Callers |-> IF Waiting(c) THEN age[c] + 1 ELSE age[c]]
    /\ UNCHANGED <<consumed, pc, call, limit, base, answer, thread, box, got, spent>>

CallerStep(c) ==
    \/ ShortCircuit(c) \/ CheckBudget(c) \/ StartThread(c) \/ StartThreadFails(c)
    \/ JoinReturns(c) \/ Judge(c) \/ Charge(c)

Next ==
    \/ Tick
    \/ \E c \in Callers : CallerStep(c) \/ \E n \in Calls : RunnerEnds(c, n)

Spec == Init /\ [][Next]_vars

\* The clock runs and callers are scheduled; fn may hang for ever.
FairSpec == Spec /\ WF_vars(Tick) /\ \A c \in Callers : WF_vars(CallerStep(c))

-----------------------------------------------------------------------------

\* A call returns the value of its own fn or None: the late answer of an
\* abandoned thread never reaches a later call.
OwnAnswerOnly ==
    \A c \in Callers, n \in Calls : got[c][n] \in {NoAnswer, n}

\* Only one of the callers has used the budget so far.
Unshared == \E c \in Callers : \A d \in Callers \ {c} : call[d] = 0

\* A single caller overshoots the budget by less than the one-second floor,
\* however its calls end.
OvershootBelowFloor == Unshared => consumed < Total + Second

\* A single caller's budget is charged with all the time its calls took, those
\* it gave up on included.
ChargedInFull ==
    Unshared /\ (\A c \in Callers : pc[c] # "charging") => consumed = spent

\* However charges of several callers interleave, the budget never counts more
\* time than was spent (it may count less: += is not atomic).
NeverOvercharged == consumed <= spent

\* fn may hang: its caller gets control back all the same.
CallerGetsBack == \A c \in Callers : pc[c] = "joining" ~> pc[c] \in {"idle", "raised"}
=============================================================================
