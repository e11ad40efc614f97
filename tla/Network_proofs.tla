--------------------------- MODULE Network_proofs ---------------------------
(***************************************************************************)
(* Proofs about the two modules that keep the network from hurting their   *)
(* callers: call_with_timeout and FetchBudget, for every number of callers,*)
(* calls and threads and every budget and timeout, and send, for every     *)
(* number of attempts and of sends.                                        *)
(***************************************************************************)
EXTENDS NetSafety, Notify, TLAPS

(* call_with_timeout and FetchBudget.                                      *)

PCs == {"idle", "checked", "joining", "joined", "charging", "raised"}

Counters ==
    /\ consumed \in Nat /\ spent \in Nat
    /\ pc \in [Callers -> PCs]
    /\ call \in [Callers -> Nat]
    /\ limit \in [Callers -> Nat] /\ age \in [Callers -> Nat] /\ base \in [Callers -> Nat]

\* What a call may hand back, at each place it passes through.
AnswersAreOwn ==
    /\ box \in [Callers -> [Calls -> Nat]]
    /\ got \in [Callers -> [Calls -> Calls \cup {NoAnswer}]]
    /\ answer = [c \in Callers |-> answer[c]]
    /\ \A c \in Callers, n \in Calls : box[c][n] \in {Empty, n, Exc}
    /\ \A c \in Callers : pc[c] = "charging" /\ call[c] \in Calls => answer[c] \in {NoAnswer, call[c]}
    /\ OwnAnswerOnly

\* The two halves of a charge.
ChargesAreSpent ==
    /\ NeverOvercharged
    /\ \A c \in Callers : pc[c] = "charging" => base[c] + age[c] <= spent

\* A caller that is busy has begun a call.
BusyHasCalled == \A c \in Callers : call[c] = 0 => pc[c] = "idle"

Alone(c) == \A d \in Callers \ {c} : call[d] = 0

\* What a caller that has the budget to itself relies on.
AloneKeepsBooks(c) ==
    /\ pc[c] = "charging" => base[c] = consumed /\ spent = consumed + age[c]
    /\ pc[c] # "charging" => spent = consumed
    /\ pc[c] = "checked" => consumed < Total
    /\ pc[c] \in {"joining", "joined"} =>
          age[c] <= limit[c] /\ consumed + limit[c] < Total + Second
    /\ spent < Total + Second

IInv ==
    /\ Counters
    /\ AnswersAreOwn
    /\ ChargesAreSpent
    /\ BusyHasCalled
    /\ \A c \in Callers : Alone(c) => AloneKeepsBooks(c)

-----------------------------------------------------------------------------

\* A new budget satisfies the invariant.
LEMMA InitIInv == Init => IInv
<1> SUFFICES ASSUME Init PROVE IInv
  OBVIOUS
<1> USE TimeAssumption, BoundAssumption
<1>1. Counters
  BY DEF Init, Counters, PCs
<1>2. AnswersAreOwn
  BY DEF Init, AnswersAreOwn, OwnAnswerOnly, Empty, NoAnswer
<1>3. ChargesAreSpent
  BY DEF Init, ChargesAreSpent, NeverOvercharged
<1>4. BusyHasCalled
  BY DEF Init, BusyHasCalled
<1>5. ASSUME NEW c \in Callers PROVE AloneKeepsBooks(c)
  <2>1. pc[c] = "idle" /\ consumed = 0 /\ spent = 0
    BY DEF Init
  <2>2. 0 < Total + Second
    OBVIOUS
  <2> QED
    BY <2>1, <2>2 DEF AloneKeepsBooks
<1> QED
  BY <1>1, <1>2, <1>3, <1>4, <1>5 DEF IInv

\* The limit of a call keeps the overshoot below the floor.
LEMMA LimitKeepsFloor ==
  ASSUME consumed \in Nat, consumed < Total
  PROVE  EffectiveTimeout \in Nat /\ consumed + EffectiveTimeout < Total + Second
  BY TimeAssumption DEF EffectiveTimeout, Remaining

-----------------------------------------------------------------------------
(* One conjunct at a time.                                                 *)

\* Every step keeps the counters' types.
LEMMA StepCounters == IInv /\ [Next]_vars => Counters'
<1> SUFFICES ASSUME IInv, [Next]_vars PROVE Counters'
  OBVIOUS
<1> USE DEF IInv, Counters, PCs
<1>1. ASSUME NEW c \in Callers, CallerStep(c) PROVE Counters'
  <2>1. CASE ShortCircuit(c)
    BY <2>1 DEF ShortCircuit
  <2>2. CASE CheckBudget(c)
    BY <2>2 DEF CheckBudget
  <2>3. CASE StartThread(c)
    <3>1. EffectiveTimeout \in Nat
      BY TimeAssumption DEF EffectiveTimeout, Remaining
    <3> QED
      BY <2>3, <3>1 DEF StartThread
  <2>4. CASE StartThreadFails(c)
    BY <2>4 DEF StartThreadFails
  <2>5. CASE JoinReturns(c)
    BY <2>5 DEF JoinReturns
  <2>6. CASE Judge(c)
    BY <2>6 DEF Judge
  <2>7. CASE Charge(c)
    BY <2>7 DEF Charge
  <2> QED
    BY <1>1, <2>1, <2>2, <2>3, <2>4, <2>5, <2>6, <2>7 DEF CallerStep
<1>2. ASSUME NEW c \in Callers, NEW n \in Calls, RunnerEnds(c, n) PROVE Counters'
  BY <1>2 DEF RunnerEnds
<1>3. CASE Tick
  BY <1>3 DEF Tick
<1>4. CASE UNCHANGED vars
  BY <1>4 DEF vars
<1> QED
  BY <1>1, <1>2, <1>3, <1>4 DEF Next

\* Every step leaves a caller with an answer of its own call or none.
LEMMA StepAnswers == IInv /\ [Next]_vars => AnswersAreOwn'
<1> SUFFICES ASSUME IInv, [Next]_vars PROVE AnswersAreOwn'
  OBVIOUS
<1> USE BoundAssumption DEF IInv, Counters, AnswersAreOwn, OwnAnswerOnly, Calls, Empty, NoAnswer, Exc
<1>1. ASSUME NEW c \in Callers, CallerStep(c) PROVE AnswersAreOwn'
  <2>1. CASE ShortCircuit(c)
    BY <2>1 DEF ShortCircuit, Ready
  <2>2. CASE CheckBudget(c)
    BY <2>2 DEF CheckBudget, Ready
  <2>3. CASE StartThread(c) \/ StartThreadFails(c) \/ JoinReturns(c)
    BY <2>3 DEF StartThread, StartThreadFails, JoinReturns
  <2>4. CASE Judge(c)
    <3> DEFINE r == box[c][BoxOf(call[c])]
               given == IF thread[c][call[c]] = "running" \/ r \in {Empty, Exc} THEN NoAnswer ELSE r
    <3>1. answer' = [answer EXCEPT ![c] = given] /\ UNCHANGED <<call, box, got>>
      BY <2>4 DEF Judge
    <3>2. call[c] \in Calls => given \in {NoAnswer, call[c]}
      BY DEF BoxOf
    <3> QED
      BY <2>4, <3>1, <3>2 DEF Judge
  <2>5. CASE Charge(c)
    <3> DEFINE k == call[c]
               own == [got[c] EXCEPT ![k] = answer[c]]
    <3>1. got' = [got EXCEPT ![c] = own] /\ UNCHANGED <<call, answer, box>>
      BY <2>5 DEF Charge
    <3>2. got[c] \in [Calls -> Calls \cup {NoAnswer}] /\ \A n \in Calls : got[c][n] \in {NoAnswer, n}
      OBVIOUS
    <3>3. k \in Calls => answer[c] \in {NoAnswer, k}
      BY <2>5 DEF Charge
    <3> HIDE DEF k
    <3>4. own \in [Calls -> Calls \cup {NoAnswer}] /\ \A n \in Calls : own[n] \in {NoAnswer, n}
      BY <3>2, <3>3
    <3> HIDE DEF own
    <3>5. got' \in [Callers -> [Calls -> Calls \cup {NoAnswer}]] /\ OwnAnswerOnly'
      BY <3>1, <3>4
    <3> QED
      BY <2>5, <3>1, <3>5 DEF Charge
  <2> QED
    BY <1>1, <2>1, <2>2, <2>3, <2>4, <2>5 DEF CallerStep
<1>2. ASSUME NEW c \in Callers, NEW n \in Calls, RunnerEnds(c, n) PROVE AnswersAreOwn'
  <2>1. PICK r \in {n, Exc} : box' \in {box, [box EXCEPT ![c][n] = r]}
    BY <1>2 DEF RunnerEnds, BoxOf
  <2> DEFINE own == [box[c] EXCEPT ![n] = r]
  <2>2. own \in [Calls -> Nat] /\ \A m \in Calls : own[m] \in {Empty, m, Exc}
    <3>1. r \in Nat /\ r \in {n, Exc} /\ box[c] \in [Calls -> Nat]
      OBVIOUS
    <3>2. \A m \in Calls : box[c][m] \in {Empty, m, Exc}
      OBVIOUS
    <3> QED
      BY <3>1, <3>2
  <2>3. box' = box \/ box' = [box EXCEPT ![c] = own]
    BY <2>1
  <2> HIDE DEF own
  <2>4. box' \in [Callers -> [Calls -> Nat]]
    BY <2>2, <2>3
  <2>5. \A d \in Callers, m \in Calls : box'[d][m] \in {Empty, m, Exc}
    BY <2>2, <2>3
  <2> QED
    BY <1>2, <2>4, <2>5 DEF RunnerEnds
<1>3. CASE Tick \/ UNCHANGED vars
  BY <1>3 DEF Tick, vars
<1> QED
  BY <1>1, <1>2, <1>3 DEF Next

\* What is charged, and what a caller is about to charge, was spent.
LEMMA StepCharges == IInv /\ [Next]_vars => ChargesAreSpent'
<1> SUFFICES ASSUME IInv, [Next]_vars PROVE ChargesAreSpent'
  OBVIOUS
<1> USE DEF IInv, Counters, ChargesAreSpent, NeverOvercharged
<1>1. ASSUME NEW c \in Callers, CallerStep(c) PROVE ChargesAreSpent'
  <2>1. CASE ShortCircuit(c) \/ CheckBudget(c) \/ StartThreadFails(c) \/ JoinReturns(c)
    BY <2>1 DEF ShortCircuit, CheckBudget, StartThreadFails, JoinReturns
  <2>2. CASE StartThread(c)
    BY <2>2 DEF StartThread
  <2>3. CASE Judge(c)
    BY <2>3 DEF Judge
  <2>4. CASE Charge(c)
    BY <2>4 DEF Charge
  <2> QED
    BY <1>1, <2>1, <2>2, <2>3, <2>4 DEF CallerStep
<1>2. ASSUME NEW c \in Callers, NEW n \in Calls, RunnerEnds(c, n) PROVE ChargesAreSpent'
  BY <1>2 DEF RunnerEnds
<1>3. CASE Tick
  BY <1>3 DEF Tick, Waiting
<1>4. CASE UNCHANGED vars
  BY <1>4 DEF vars
<1> QED
  BY <1>1, <1>2, <1>3, <1>4 DEF Next

\* A caller that is busy has called.
LEMMA StepBusy == IInv /\ [Next]_vars => BusyHasCalled'
<1> SUFFICES ASSUME IInv, [Next]_vars PROVE BusyHasCalled'
  OBVIOUS
<1> USE DEF IInv, Counters, BusyHasCalled
<1>1. ASSUME NEW c \in Callers, CallerStep(c) PROVE BusyHasCalled'
  BY <1>1 DEF CallerStep, Ready, ShortCircuit, CheckBudget, StartThread, StartThreadFails,
              JoinReturns, Judge, Charge
<1>2. ASSUME NEW c \in Callers, NEW n \in Calls, RunnerEnds(c, n) PROVE BusyHasCalled'
  BY <1>2 DEF RunnerEnds
<1>3. CASE Tick \/ UNCHANGED vars
  BY <1>3 DEF Tick, vars
<1> QED
  BY <1>1, <1>2, <1>3 DEF Next

\* A caller that has the budget to itself is the one that steps, or nobody touches
\* what it relies on.
LEMMA StepAlone ==
  IInv /\ [Next]_vars => \A c \in Callers : Alone(c)' => AloneKeepsBooks(c)'
<1> SUFFICES ASSUME IInv, [Next]_vars, NEW c \in Callers, Alone(c)' PROVE AloneKeepsBooks(c)'
  OBVIOUS
<1> USE TimeAssumption DEF IInv, Counters, PCs
<1>1. ASSUME NEW d \in Callers, CallerStep(d) PROVE AloneKeepsBooks(c)'
  <2>1. call[d] = 0 => pc[d] = "idle"
    BY DEF BusyHasCalled
  <2>2. call'[d] # 0
    BY <1>1, <2>1 DEF CallerStep, Ready, ShortCircuit, CheckBudget, StartThread,
                      StartThreadFails, JoinReturns, Judge, Charge
  <2>3. c = d
    BY <2>2 DEF Alone
  <2>4. \A e \in Callers \ {c} : call[e] = call'[e]
    BY <1>1, <2>3 DEF CallerStep, Ready, ShortCircuit, CheckBudget, StartThread,
                      StartThreadFails, JoinReturns, Judge, Charge
  <2>5. AloneKeepsBooks(c)
    BY <2>4 DEF Alone
  <2> USE <2>3, <2>5 DEF AloneKeepsBooks
  <2>6. CASE ShortCircuit(c)
    BY <2>6 DEF ShortCircuit
  <2>7. CASE CheckBudget(c)
    BY <2>7 DEF CheckBudget, Exhausted, Ready
  <2>8. CASE StartThread(c)
    <3>1. EffectiveTimeout \in Nat /\ consumed + EffectiveTimeout < Total + Second
      BY <2>8, LimitKeepsFloor DEF StartThread
    <3> QED
      BY <2>8, <3>1 DEF StartThread
  <2>9. CASE StartThreadFails(c)
    BY <2>9 DEF StartThreadFails
  <2>10. CASE JoinReturns(c)
    BY <2>10 DEF JoinReturns
  <2>11. CASE Judge(c)
    BY <2>11 DEF Judge
  <2>12. CASE Charge(c)
    BY <2>12 DEF Charge
  <2> QED
    BY <1>1, <2>6, <2>7, <2>8, <2>9, <2>10, <2>11, <2>12 DEF CallerStep
<1> SUFFICES ASSUME \/ Tick \/ UNCHANGED vars
                    \/ \E d \in Callers, n \in Calls : RunnerEnds(d, n)
             PROVE  AloneKeepsBooks(c)'
  BY <1>1 DEF Next
<1>2. AloneKeepsBooks(c)
  BY DEF Alone, Tick, vars, RunnerEnds
<1>3. CASE Tick
  BY <1>2, <1>3 DEF AloneKeepsBooks, Tick, Waiting
<1>4. CASE UNCHANGED vars
  BY <1>2, <1>4 DEF AloneKeepsBooks, vars
<1>5. ASSUME NEW d \in Callers, NEW n \in Calls, RunnerEnds(d, n) PROVE AloneKeepsBooks(c)'
  BY <1>2, <1>5 DEF AloneKeepsBooks, RunnerEnds
<1> QED
  BY <1>3, <1>4, <1>5

\* Answers stay with their call and charges within what was spent
\* (net_safety.py:67-172).
THEOREM Inductive == Spec => []IInv
<1>1. IInv /\ [Next]_vars => IInv'
  BY StepCounters, StepAnswers, StepCharges, StepBusy, StepAlone DEF IInv
<1> QED
  BY InitIInv, <1>1, PTL DEF Spec

-----------------------------------------------------------------------------

\* The late answer of an abandoned thread never reaches another call
\* (net_safety.py:128-138, :142-160).
THEOREM LateAnswersAreLost == Spec => []OwnAnswerOnly
<1>1. IInv => OwnAnswerOnly
  BY DEF IInv, AnswersAreOwn
<1> QED
  BY Inductive, <1>1, PTL

\* Charges that interleave lose time, they never invent it (net_safety.py:81-82).
THEOREM ChargesNeverInvent == Spec => []NeverOvercharged
<1>1. IInv => NeverOvercharged
  BY DEF IInv, ChargesAreSpent
<1> QED
  BY Inductive, <1>1, PTL

\* A single caller's budget is charged in full (net_safety.py:142-172).
THEOREM SoleCallerPaysAll == Spec => []ChargedInFull
<1>1. IInv => ChargedInFull
  BY DEF IInv, Alone, AloneKeepsBooks, ChargedInFull, Unshared
<1> QED
  BY Inductive, <1>1, PTL

\* A single caller overshoots by less than the floor (net_safety.py:119-122).
THEOREM SoleCallerStaysNear == Spec => []OvershootBelowFloor
<1>1. IInv => OvershootBelowFloor
  BY TimeAssumption
     DEF IInv, Counters, PCs, ChargesAreSpent, NeverOvercharged, Alone, AloneKeepsBooks,
         OvershootBelowFloor, Unshared
<1> QED
  BY Inductive, <1>1, PTL

-----------------------------------------------------------------------------
(* send.                                                                   *)

SendSteps == {"idle", "trying", "backoff", "failing"}

SendCounters ==
    /\ sending \in SendSteps
    /\ sends \in Nat /\ failures \in Nat /\ delivered \in Nat /\ quiet \in Nat

\* Every send is accounted for, the one under way not yet.
EverySendCounted == sends = quiet + failures + (IF sending = "idle" THEN 0 ELSE 1)

\* A failure that is retried is a transient one.
RetriesAreTransient ==
    /\ sending = "trying" => last \in Transient \cup {"none"}
    /\ sending = "backoff" => last \in Transient

SendIInv == SendCounters /\ EverySendCounted /\ TrueMeansDelivered /\ RetriesAreTransient

\* Before the first send nothing is counted.
LEMMA SendInitIInv == SendInit => SendIInv
  BY DEF SendInit, SendIInv, SendCounters, SendSteps, EverySendCounted, TrueMeansDelivered, RetriesAreTransient

\* Every step of a send keeps its outcome and its count together.
LEMMA SendStepIInv == SendIInv /\ [SendNext]_sendVars => SendIInv'
<1> SUFFICES ASSUME SendIInv, [SendNext]_sendVars PROVE SendIInv'
  OBVIOUS
<1> USE DEF SendIInv, SendCounters, SendSteps, EverySendCounted, TrueMeansDelivered, RetriesAreTransient
<1>1. CASE SendSuppressed
  BY <1>1 DEF SendSuppressed, Call
<1>2. CASE SendTries
  BY <1>2 DEF SendTries, Call
<1>3. CASE SendCannotBuild
  BY <1>3 DEF SendCannotBuild, Call
<1>4. CASE PostSucceeds
  BY <1>4 DEF PostSucceeds
<1>5. ASSUME NEW e \in Exceptions, PostFails(e) PROVE SendIInv'
  <2>1. delivered' \in Nat
    BY <1>5 DEF PostFails
  <2>2. sending' = "backoff" => e \in Transient
    BY <1>5 DEF PostFails, IsTransient
  <2> QED
    BY <1>5, <2>1, <2>2 DEF PostFails
<1>6. CASE BackoffEnds
  BY <1>6 DEF BackoffEnds
<1>7. CASE Fail
  BY <1>7 DEF Fail
<1>8. CASE UNCHANGED sendVars
  BY <1>8 DEF sendVars
<1> QED
  BY <1>1, <1>2, <1>3, <1>4, <1>5, <1>6, <1>7, <1>8 DEF SendNext

\* Every send that ended is counted once, as delivered or as lost
\* (notify.py:202-266).
THEOREM SendInductive == SendSpec => []SendIInv
  BY SendInitIInv, SendStepIInv, PTL DEF SendSpec

\* send returns True only for a notification that was accepted
\* (notify.py:214-215, :243-249).
THEOREM TrueIsDelivered == SendSpec => []TrueMeansDelivered
<1>1. SendIInv => TrueMeansDelivered
  BY DEF SendIInv
<1> QED
  BY SendInductive, <1>1, PTL

\* _send_failures counts the lost notifications, each once (notify.py:261-262).
THEOREM CounterIsExact == SendSpec => []CounterMatchesLosses
<1>1. SendIInv => CounterMatchesLosses
  BY DEF SendIInv, SendCounters, EverySendCounted, CounterMatchesLosses
<1> QED
  BY SendInductive, <1>1, PTL

\* A permanent failure is never retried (notify.py:76-88, :252-253).
THEOREM PermanentIsFinal == SendSpec => NoPostAfterPermanent
<1>1. SendIInv /\ [SendNext]_sendVars => [(last \in Permanent /\ sends' = sends) => sending' # "trying"]_sendVars
  <2> SUFFICES ASSUME SendIInv, SendNext, last \in Permanent, sends' = sends
               PROVE  sending' # "trying"
    BY DEF sendVars
  <2>1. sending \notin {"trying", "backoff"} /\ sends \in Nat
    BY DEF SendIInv, SendCounters, RetriesAreTransient, Transient, Permanent
  <2>2. ~SendTries
    BY <2>1 DEF SendTries, Call
  <2> QED
    BY <2>1, <2>2 DEF SendNext, SendSuppressed, SendCannotBuild, Call, PostSucceeds, PostFails,
                      BackoffEnds, Fail
<1> QED
  BY SendInductive, <1>1, PTL DEF SendSpec, NoPostAfterPermanent
=============================================================================
