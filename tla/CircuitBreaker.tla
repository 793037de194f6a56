--------------------------- MODULE CircuitBreaker ---------------------------
(***************************************************************************)
(* The circuit breaker of EmbeddingClient (embeddings/client.py) and the   *)
(* requests that pass it: retries, the fallback to one text at a time, the *)
(* answers that count for or against the service, cancellation and close.  *)
(*                                                                         *)
(* The service answers when it likes, and the request that was answered    *)
(* records it later: between the two, other requests check and record.     *)
(* Time passes in ticks; instead of _circuit_open_until the model keeps    *)
(* the time that remains until then.                                       *)
(***************************************************************************)
EXTENDS Naturals, FiniteSets

CONSTANTS Request,
          Texts,       \* how many texts each request sends
          Threshold,   \* _circuit_threshold
          Reset,       \* _circuit_reset_time, in ticks
          MaxRetries,  \* of retry_operation: 2 in the code
          NotSet       \* None of _circuit_open_until

CircuitAssumption ==
  /\ Texts \in [Request -> Nat \ {0}]
  /\ Threshold \in Nat \ {0} /\ Reset \in Nat \ {0} /\ MaxRetries \in Nat
  /\ NotSet \notin Nat

VARIABLES
  failures,   \* _circuit_failure_count, of which only Threshold values matter
  remaining,  \* time until _circuit_open_until: 0 when it has passed, or NotSet
  pc,         \* where each request stands
  answer,     \* what the service, or the connection, made of its attempt
  attempt,    \* retries so far
  left,       \* texts that remain of the fallback to single texts, 0 outside of it
  up,         \* the service answers
  \* history
  streak,     \* failures recorded since the last success or close
  quiet,      \* ticks since the last failure was recorded, at most Reset
  outage,     \* the service has been down
  probes      \* requests let through after the reset time, and not over yet

circuit == <<failures, remaining>>
history == <<streak, quiet, outage>>
vars == <<circuit, pc, answer, attempt, left, up, history, probes>>

Least(a, b) == IF a < b THEN a ELSE b

\* "invalid" is a success with a body of no use, "input" stands for 413, 400 and 422.
Healthy == {"ok", "invalid", "input", "odd"}
Faulty == {"transient", "server"}     \* ConnectError, timeout, 502-504; other 5xx

Init ==
  /\ failures = 0 /\ remaining = NotSet
  /\ pc = [r \in Request |-> "idle"] /\ answer = [r \in Request |-> "ok"]
  /\ attempt = [r \in Request |-> 0] /\ left = [r \in Request |-> 0]
  /\ up = TRUE
  /\ streak = 0 /\ quiet = Reset /\ outage = FALSE /\ probes = {}

-----------------------------------------------------------------------------
Open == remaining # NotSet /\ remaining > 0

\* Mutant of End: a fallback that was given up is not forgotten.
EndKeepsLeft(r) ==
  /\ pc' = [pc EXCEPT ![r] = "idle"]
  /\ left' = left /\ attempt' = [attempt EXCEPT ![r] = 0]
  /\ answer' = [answer EXCEPT ![r] = "ok"] /\ probes' = probes \ {r}

\* The request ends, with a result or an error.
End(r) ==
  /\ pc' = [pc EXCEPT ![r] = "idle"]
  /\ left' = [left EXCEPT ![r] = 0] /\ attempt' = [attempt EXCEPT ![r] = 0]
  /\ answer' = [answer EXCEPT ![r] = "ok"] /\ probes' = probes \ {r}

\* Mutant of RecordSuccess: the circuit is closed, but the count is kept.
RecordSuccessKeepsCount ==
  /\ failures' = failures /\ remaining' = NotSet
  /\ streak' = 0 /\ UNCHANGED <<quiet, outage>>

RecordSuccess ==
  /\ failures' = 0 /\ remaining' = NotSet
  /\ streak' = 0 /\ UNCHANGED <<quiet, outage>>

\* Mutant of RecordFailure: an open circuit is extended from its old end.
RecordFailureAdds ==
  /\ failures' = Least(failures + 1, Threshold)
  /\ remaining' = IF failures' < Threshold THEN remaining
                  ELSE IF remaining = NotSet THEN Reset ELSE Least(remaining + Reset, 2 * Reset)
  /\ streak' = Least(streak + 1, Threshold) /\ quiet' = 0 /\ UNCHANGED outage

RecordFailure ==
  /\ failures' = Least(failures + 1, Threshold)
  /\ remaining' = IF failures' = Threshold THEN Reset ELSE remaining
  /\ streak' = Least(streak + 1, Threshold) /\ quiet' = 0 /\ UNCHANGED outage

\* Mutant of Reject: a rejected request counts as a failed one.
RejectRecords(r) ==
  /\ pc[r] \in {"idle", "single"} /\ Open
  /\ RecordFailure /\ End(r) /\ UNCHANGED up

(* _check_circuit raises CircuitBreakerOpenError: at once, or for the next *)
(* of the single texts, which ends the whole request.                      *)
Reject(r) ==
  /\ pc[r] \in {"idle", "single"} /\ Open
  /\ End(r) /\ UNCHANGED <<circuit, up, history>>

(* _check_circuit lets the request through, also when the reset time is    *)
(* over; the attempt that follows is the first one.                        *)
Check(r) ==
  /\ pc[r] \in {"idle", "single"} /\ ~Open
  /\ pc' = [pc EXCEPT ![r] = "send"] /\ attempt' = [attempt EXCEPT ![r] = 0]
  /\ probes' = IF remaining = 0 THEN probes \cup {r} ELSE probes
  /\ UNCHANGED <<circuit, answer, left, up, history>>

(* The answer to an attempt; the task of the request will see it later.    *)
Answer(r) ==
  /\ pc[r] = "send"
  /\ \E a \in IF up THEN Healthy ELSE Faulty : answer' = [answer EXCEPT ![r] = a]
  /\ pc' = [pc EXCEPT ![r] = "answered"]
  /\ UNCHANGED <<circuit, attempt, left, up, history, probes>>

Received(r, a) == pc[r] = "answered" /\ answer[r] = a

(* retry_operation waits and tries again; the circuit is not asked.        *)
Retry(r) ==
  /\ Received(r, "transient") /\ attempt[r] < MaxRetries
  /\ attempt' = [attempt EXCEPT ![r] = @ + 1] /\ pc' = [pc EXCEPT ![r] = "send"]
  /\ UNCHANGED <<circuit, answer, left, up, history, probes>>

(* All retries have failed, or a server error that is not retried.         *)
Fail(r) ==
  /\ \/ Received(r, "transient") /\ attempt[r] = MaxRetries
     \/ Received(r, "server")
  /\ RecordFailure /\ End(r) /\ UNCHANGED up

\* Mutant of Refuse: whatever the status, the service is to blame.
RefuseCounts(r) ==
  /\ Received(r, "input")
  /\ RecordFailure /\ End(r) /\ UNCHANGED up

(* The backend refuses the input: neither a failure nor a success.         *)
Refuse(r) ==
  /\ Received(r, "input")
  /\ End(r) /\ UNCHANGED <<circuit, up, history>>

(* Success; of the fallback to single texts, the next one follows. That    *)
(* the response is invalid is found out later, and ends the whole request. *)
Succeed(r) ==
  /\ Received(r, "ok") \/ Received(r, "invalid")
  /\ RecordSuccess
  /\ IF answer[r] = "ok" /\ left[r] > 1
     THEN /\ left' = [left EXCEPT ![r] = @ - 1]
          /\ pc' = [pc EXCEPT ![r] = "single"] /\ probes' = probes \ {r}
          /\ UNCHANGED <<attempt, answer>>
     ELSE End(r)
  /\ UNCHANGED up

(* Any other exception: a batch is sent again, one text at a time, and a   *)
(* single text fails. Nothing is recorded.                                 *)
FallBack(r) ==
  /\ Received(r, "odd")
  /\ IF left[r] = 0 /\ Texts[r] > 1
     THEN /\ left' = [left EXCEPT ![r] = Texts[r]]
          /\ pc' = [pc EXCEPT ![r] = "single"]
          /\ UNCHANGED <<attempt, answer, probes>>
     ELSE End(r)
  /\ UNCHANGED <<circuit, up, history>>

(* A request is cancelled while it awaits.                                 *)
Cancel(r) ==
  /\ pc[r] \in {"send", "answered"}
  /\ End(r) /\ UNCHANGED <<circuit, up, history>>

(* close resets the circuit; requests under way go on.                     *)
Close ==
  /\ RecordSuccess
  /\ UNCHANGED <<pc, answer, attempt, left, up, probes>>

Tick ==
  /\ remaining' = IF Open THEN remaining - 1 ELSE remaining
  /\ quiet' = Least(quiet + 1, Reset)
  /\ UNCHANGED <<failures, pc, answer, attempt, left, up, streak, outage, probes>>

(* The service goes down, or comes back.                                   *)
Switch ==
  /\ up' = ~up /\ outage' = TRUE
  /\ UNCHANGED <<circuit, pc, answer, attempt, left, streak, quiet, probes>>

Work(r) ==
  Answer(r) \/ Retry(r) \/ Fail(r) \/ Refuse(r) \/ Succeed(r) \/ FallBack(r)

Next ==
  \/ \E r \in Request : Reject(r) \/ Check(r) \/ Work(r) \/ Cancel(r)
  \/ Close \/ Tick \/ Switch

(* Time passes; answers and timeouts come and tasks run; callers come      *)
(* again.                                                                  *)
Fairness ==
  /\ WF_vars(Tick)
  /\ \A r \in Request : WF_vars(Work(r)) /\ WF_vars(Check(r) \/ Reject(r))

Spec == Init /\ [][Next]_vars
FairSpec == Spec /\ Fairness

-----------------------------------------------------------------------------
TypeOK ==
  /\ failures \in 0 .. Threshold /\ remaining \in {NotSet} \cup 0 .. Reset
  /\ pc \in [Request -> {"idle", "send", "answered", "single"}]
  /\ answer \in [Request -> Healthy \cup Faulty]
  /\ attempt \in [Request -> 0 .. MaxRetries]
  /\ left \in [Request -> Nat]
  /\ \A r \in Request : left[r] \in 0 .. Texts[r] /\ (pc[r] = "idle" => left[r] = 0)
  /\ up \in BOOLEAN /\ outage \in BOOLEAN
  /\ streak \in 0 .. Threshold /\ quiet \in 0 .. Reset /\ probes \subseteq Request

(* The circuit has an opening time exactly when _circuit_threshold         *)
(* failures have been recorded with no success and no close in between,    *)
(* however the answers of concurrent requests and of the single texts of a *)
(* fallback come in.                                                       *)
OpensAfterStreak == (remaining # NotSet) <=> (streak = Threshold)

(* A circuit that rejects does so for _circuit_reset_time after the last   *)
(* failure that was recorded, and not longer.                              *)
RejectsForResetTime == Open => remaining + quiet = Reset

(* Only a service that has been down is ever blamed: refused inputs, odd   *)
(* errors and cancelled requests do not add up to an open circuit.         *)
OnlyOutagesCount == failures > 0 => outage

(* A service that stays up is asked again: in the end no request is        *)
(* rejected, though every caller comes back as soon as it is rejected.     *)
RecoversFromOutage == <>[]up => <>[]~Open

(* "After the reset time passes, the circuit enters "half-open" state and  *)
(* allows one request through" (_check_circuit).                           *)
HalfOpenAllowsOne == Cardinality(probes) <= 1

-----------------------------------------------------------------------------
(* The inductive invariant.                                                *)

\* The failures are those of the streak, and an answer that blames the service is one
\* of a service that has been down.
IInv ==
  /\ TypeOK /\ OpensAfterStreak /\ RejectsForResetTime /\ OnlyOutagesCount
  /\ failures = streak
  /\ (~up => outage)
  /\ \A r \in Request : answer[r] \in Faulty => outage
=============================================================================
