------------------------------- MODULE Notify -------------------------------
(***************************************************************************)
(* send of notify.py: one POST to ntfy, tried again after a transient      *)
(* failure, never an exception into the monitor that sends.  The network   *)
(* and the server are external: a request may be accepted although its     *)
(* answer is lost.                                                         *)
(***************************************************************************)
EXTENDS Naturals

CONSTANTS
    SendAttempts,   \* SEND_ATTEMPTS
    MaxSends        \* bound: sends the process makes

ASSUME SendAssumption == {SendAttempts, MaxSends} \subseteq Nat \ {0}

VARIABLES
    sending,         \* "idle", "trying", "backoff", "failing"
    sends,      \* sends begun
    attempt,    \* the attempt of the current send, 0 before the first
    last,       \* class of the last exception
    failures,   \* _send_failures
    result,     \* what the last send returned: "none" before the first return
    delivered,  \* history: POSTs of the current send the server accepted
    quiet       \* history: sends that succeeded or were suppressed

sendVars == <<sending, sends, attempt, last, failures, result, delivered, quiet>>

\* What _is_transient tells apart: a 5xx, a URLError, a timeout or another
\* OSError on one side; a 4xx and every other exception on the other.
Transient == {"http5xx", "url", "os"}
Permanent == {"http4xx", "other"}
Exceptions == Transient \cup Permanent

\* Deviation: every HTTPError is a URLError, and a URLError is transient.
IsTransientByBaseClass(e) == e \in Transient \cup {"http4xx"}

IsTransient(e) == e \in Transient

SendInit ==
    /\ sending = "idle"
    /\ sends = 0
    /\ attempt = 0
    /\ last = "none"
    /\ failures = 0
    /\ result = "none"
    /\ delivered = 0
    /\ quiet = 0

-----------------------------------------------------------------------------

\* A new call of send, with its local variables fresh.
Call ==
    /\ sending = "idle"
    /\ sends < MaxSends
    /\ sends' = sends + 1
    /\ last' = "none"
    /\ delivered' = 0

\* RENQUANT_NO_NOTIFY: False, and not counted as a failure.
SendSuppressed ==
    /\ Call
    /\ attempt' = 0
    /\ result' = "suppressed"
    /\ quiet' = quiet + 1
    /\ UNCHANGED <<sending, failures>>

SendTries ==
    /\ Call
    /\ attempt' = 1
    /\ sending' = "trying"
    /\ UNCHANGED <<failures, result, quiet>>

\* Topic, headers, body or request cannot be built (an unreadable env file is
\* no error, an undecodable one is).
SendCannotBuild ==
    /\ Call
    /\ attempt' = 0
    /\ sending' = "failing"
    /\ UNCHANGED <<failures, result, quiet>>

\* urlopen(...).read() comes back.
PostSucceeds ==
    /\ sending = "trying"
    /\ delivered' = delivered + 1
    /\ quiet' = quiet + 1
    /\ result' = "true"
    /\ sending' = "idle"
    /\ UNCHANGED <<sends, attempt, last, failures>>

\* urlopen or read raises.  An HTTP status is an answer to a request that was
\* refused; any other failure may hit before or after the server accepted it.
PostFails(e) ==
    /\ sending = "trying"
    /\ delivered' \in IF e \in {"http4xx", "http5xx"} THEN {delivered}
                      ELSE {delivered, delivered + 1}
    /\ last' = e
    /\ sending' = IF attempt >= SendAttempts \/ ~IsTransient(e) THEN "failing" ELSE "backoff"
    /\ UNCHANGED <<sends, attempt, failures, result, quiet>>

\* Deviation: the sleeping attempt is not counted.
BackoffWithoutCount ==
    /\ sending = "backoff"
    /\ sending' = "trying"
    /\ UNCHANGED <<sends, attempt, last, failures, result, delivered, quiet>>

\* time.sleep(delay), then the next attempt.
BackoffEnds ==
    /\ sending = "backoff"
    /\ attempt' = attempt + 1
    /\ sending' = "trying"
    /\ UNCHANGED <<sends, last, failures, result, delivered, quiet>>

\* Deviation: only a send that used up its attempts is counted.
FailUncounted ==
    /\ sending = "failing"
    /\ failures' = IF attempt = SendAttempts THEN failures + 1 ELSE failures
    /\ result' = "false"
    /\ sending' = "idle"
    /\ UNCHANGED <<sends, attempt, last, delivered, quiet>>

\* Deviation: a send whose attempts ran out on transients counts as sent.
FailOptimistic ==
    /\ sending = "failing"
    /\ failures' = failures + 1
    /\ result' = IF IsTransient(last) THEN "true" ELSE "false"
    /\ sending' = "idle"
    /\ UNCHANGED <<sends, attempt, last, delivered, quiet>>

\* The outer except: count, log, False.  (+= on the module global has no point
\* at which CPython switches threads.)
Fail ==
    /\ sending = "failing"
    /\ failures' = failures + 1
    /\ result' = "false"
    /\ sending' = "idle"
    /\ UNCHANGED <<sends, attempt, last, delivered, quiet>>

SendNext ==
    \/ SendSuppressed \/ SendTries \/ SendCannotBuild
    \/ PostSucceeds \/ (\E e \in Exceptions : PostFails(e))
    \/ BackoffEnds \/ Fail

SendSpec == SendInit /\ [][SendNext]_sendVars

\* Sockets time out and sleeps end; nobody is bound to call send again.
FairSendSpec ==
    /\ SendSpec
    /\ WF_sendVars(PostSucceeds \/ (\E e \in Exceptions : PostFails(e)) \/ BackoffEnds \/ Fail)

-----------------------------------------------------------------------------

\* True is returned only for a notification the server has accepted, however
\* many attempts it took.
TrueMeansDelivered == sending = "idle" /\ result = "true" => delivered > 0

\* The fail-soft counter is the number of alarms that were tried and reported
\* lost: suppressed ones do not count, a retry does not count twice.
CounterMatchesLosses == sending = "idle" => sends = quiet + failures

\* A request that is wrong is not repeated: after a 4xx (or an unexpected
\* exception) the same send makes no further POST.
NoPostAfterPermanent ==
    [][(last \in Permanent /\ sends' = sends) => sending' # "trying"]_sendVars

\* A send answers within its attempts: it can neither retry for ever nor hang.
EverySendReturns == sending # "idle" ~> sending = "idle"
=============================================================================
