--------------------------- MODULE HealthBreaker ---------------------------
(***************************************************************************)
(* Delivery to one webhook: _deliver_and_record of fault_detector.py, the  *)
(* retries of webhooks.deliver and the webhook_health row of faults.py.    *)
(* derivation_health.py keeps the same row per (derivation, target), with  *)
(* the two threads of the engine as workers and a single attempt.          *)
(*                                                                         *)
(* Every event has a thread of its own, nothing limits how many run at     *)
(* once, and each has its own autocommit connection: the test of           *)
(* `disabled`, the outcome and the one or two statements that record it    *)
(* are separate steps, and so is the human's enable.                       *)
(***************************************************************************)
EXTENDS Integers

CONSTANTS
  Worker,        \* delivery threads that may be alive at once
  Threshold,     \* disable_threshold
  MaxAttempts,   \* webhooks.MAX_ATTEMPTS
  MaxEnables,    \* bound: times a human calls enable
  MaxBreaks      \* bound: times the process dies or a statement raises

ASSUME LimitAssumption ==
  /\ Threshold \in Nat \ {0} /\ MaxAttempts \in Nat \ {0}
  /\ MaxEnables \in Nat /\ MaxBreaks \in Nat

VARIABLES
  row,       \* the health row; row.failures counts up to Threshold and stays there
  pc,        \* where each thread is
  tries,     \* attempts each thread has made for its event
  late,      \* threads started while disabled, with no enable since
  endpoint,  \* what a POST to the URL meets
  enables, breaks

vars == <<row, pc, tries, late, endpoint, enables, breaks>>

Pc == {"idle", "check", "deliver", "success", "failure", "disable"}
Endpoint == {"up", "down", "forbidden"}   \* 2xx; timeout or other status; refused by validate_url
NoRow == [failures |-> 0, disabled |-> FALSE]   \* also what a missing row means to every reader

Go(w, to) == pc' = [pc EXCEPT ![w] = to]
-----------------------------------------------------------------------------
\* _fire_webhooks starts a thread for an event.
Start(w) ==
  /\ pc[w] = "idle" /\ Go(w, "check")
  /\ late' = [late EXCEPT ![w] = row.disabled]
  /\ UNCHANGED <<row, tries, endpoint, enables, breaks>>

\* Mutant: the thread trusts that nobody would start it for a disabled webhook.
CheckNothing(w) ==
  /\ pc[w] = "check" /\ Go(w, "deliver")
  /\ tries' = [tries EXCEPT ![w] = 0]
  /\ UNCHANGED <<row, late, endpoint, enables, breaks>>

\* is_webhook_disabled
Check(w) ==
  /\ pc[w] = "check"
  /\ Go(w, IF row.disabled THEN "idle" ELSE "deliver")
  /\ tries' = [tries EXCEPT ![w] = 0]
  /\ UNCHANGED <<row, late, endpoint, enables, breaks>>

\* One attempt of deliver(): a refused URL is not retried, any other failure
\* is, until the attempts are used up.
Attempt(w) ==
  /\ pc[w] = "deliver"
  /\ tries' = [tries EXCEPT ![w] = @ + 1]
  /\ \/ endpoint = "up" /\ Go(w, "success")
     \/ endpoint = "forbidden" /\ Go(w, "failure")
     \/ endpoint = "down" /\ Go(w, IF tries[w] + 1 < MaxAttempts THEN "deliver" ELSE "failure")
  /\ UNCHANGED <<row, late, endpoint, enables, breaks>>

\* record_webhook_success, record_target_success
RecordSuccess(w) ==
  /\ pc[w] = "success" /\ Go(w, "idle")
  /\ row' = [row EXCEPT !.failures = 0]
  /\ UNCHANGED <<tries, late, endpoint, enables, breaks>>

\* Mutants: the threshold is one too high for the second statement; a failure
\* overwrites the count instead of adding to it.
CountFailureStrict(w) ==
  /\ pc[w] = "failure"
  /\ row' = [row EXCEPT !.failures = IF @ < Threshold THEN @ + 1 ELSE Threshold]
  /\ Go(w, IF row.failures >= Threshold THEN "disable" ELSE "idle")
  /\ UNCHANGED <<tries, late, endpoint, enables, breaks>>
CountFailureOnce(w) ==
  /\ pc[w] = "failure"
  /\ row' = [row EXCEPT !.failures = 1]
  /\ Go(w, IF 1 >= Threshold THEN "disable" ELSE "idle")
  /\ UNCHANGED <<tries, late, endpoint, enables, breaks>>

\* record_*_failure, first statement: INSERT ... RETURNING consecutive_failures
CountFailure(w) ==
  /\ pc[w] = "failure"
  /\ row' = [row EXCEPT !.failures = IF @ < Threshold THEN @ + 1 ELSE Threshold]
  /\ Go(w, IF row'.failures >= Threshold THEN "disable" ELSE "idle")
  /\ UNCHANGED <<tries, late, endpoint, enables, breaks>>

\* Second statement: UPDATE ... SET disabled = TRUE
Disable(w) ==
  /\ pc[w] = "disable" /\ Go(w, "idle")
  /\ row' = [row EXCEPT !.disabled = TRUE]
  /\ UNCHANGED <<tries, late, endpoint, enables, breaks>>

\* enable_webhook, enable_target: one UPDATE of both columns.
Enable ==
  /\ enables < MaxEnables /\ enables' = enables + 1
  /\ row' = NoRow
  /\ late' = [w \in Worker |-> FALSE]
  /\ UNCHANGED <<pc, tries, endpoint, breaks>>

EndpointChanges ==
  /\ endpoint' \in Endpoint \ {endpoint}
  /\ UNCHANGED <<row, pc, tries, late, enables, breaks>>

Break == breaks < MaxBreaks /\ breaks' = breaks + 1

\* A statement, or the connection it is made on, raises: the thread is gone and
\* says so to nobody.
Raise(w) ==
  /\ pc[w] \in {"check", "success", "failure", "disable"}
  /\ Break /\ Go(w, "idle")
  /\ UNCHANGED <<row, tries, late, endpoint, enables>>

\* The detector dies, its daemon threads with it.
Crash ==
  /\ Break /\ pc' = [w \in Worker |-> "idle"]
  /\ UNCHANGED <<row, tries, late, endpoint, enables>>
-----------------------------------------------------------------------------
Init ==
  /\ row = NoRow /\ pc = [w \in Worker |-> "idle"] /\ tries = [w \in Worker |-> 0]
  /\ late = [w \in Worker |-> FALSE] /\ endpoint \in Endpoint
  /\ enables = 0 /\ breaks = 0

Work(w) ==
  \/ Check(w) \/ Attempt(w) \/ RecordSuccess(w) \/ CountFailure(w) \/ Disable(w)

Next ==
  \/ \E w \in Worker : Start(w) \/ Work(w) \/ Raise(w)
  \/ Enable \/ EndpointChanges \/ Crash

Spec == Init /\ [][Next]_vars

\* A thread that is running gets on; whether events come is up to the plant.
FairSpec == Spec /\ \A w \in Worker : WF_vars(Work(w))
-----------------------------------------------------------------------------
\* The shape of every variable.
TypeOK ==
  /\ row \in [failures : 0 .. Threshold, disabled : BOOLEAN]
  /\ pc \in [Worker -> Pc]
  /\ tries \in [Worker -> 0 .. MaxAttempts]
  /\ late \in [Worker -> BOOLEAN]
  /\ endpoint \in Endpoint
  /\ enables \in 0 .. MaxEnables /\ breaks \in 0 .. MaxBreaks

\* No window in which a webhook over the limit is forgotten: unless the process
\* died in between or a statement raised, a thread about to disable it is at hand.
ThresholdEnforced ==
  row.failures >= Threshold /\ ~row.disabled /\ breaks = 0
    => \E w \in Worker : pc[w] = "disable"

\* webhooks.mdx:54, "disabled ... and stays that way until a human calls":
\* nothing is sent for an event that came after that, and only threads already
\* past the test may still be sending.
DisabledLeftAlone == \A w \in Worker : late[w] => pc[w] \in {"idle", "check"}

\* The same sentence about the flag: no late success, no crash and no count
\* brings a webhook back, only the enable (which leaves the threads alone).
OnlyHumanEnables ==
  [][row.disabled /\ ~row'.disabled => enables' = enables + 1]_row

\* An endpoint that has gone for good is disabled in the end, whatever
\* deliveries overlap and wherever crashes and errors fall, if events keep coming.
DeadEndpointDisabled ==
  /\ <>[](endpoint # "up")
  /\ []<>(\E w \in Worker : pc[w] = "check")
  => <>[]row.disabled
=============================================================================
