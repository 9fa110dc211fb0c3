--------------------------- MODULE CallLifecycle ---------------------------
(***************************************************************************)
(* One generation call from its hold to its settlement: the coroutine of   *)
(* the API handler (src/app/api/codex_gateway.py), the attempts it makes   *)
(* upstream under the account's semaphore, the stream or the answer it     *)
(* passes on, and the finish_call() tasks that close its call record and   *)
(* settle its hold (src/app/codex_gateway.py).                             *)
(*                                                                         *)
(* An action is what a coroutine does between two awaits.  The handler can *)
(* be cancelled at any await, and more than once: the server cancels the   *)
(* stream of a client that is gone, and every task when it stops.  What    *)
(* runs behind asyncio.shield() is a task of its own that goes on when its *)
(* waiter is cancelled.  A cancelled store call is still carried out by    *)
(* the writer, unless it was waiting for the connection: both are allowed. *)
(* How a bill is priced, and what a restart does, is in Wallet; which      *)
(* account is asked, in RoutingLeases.                                     *)
(***************************************************************************)
EXTENDS Integers, FiniteSets

CONSTANTS
  Requests,
  Accounts,
  Limit,        \* settings.gateway_account_max_concurrency
  MaxAttempts,  \* len(TEXT_RETRY_DELAYS_SECONDS) + 1
  MaxCancels,   \* bound of the model: cancellations per request
  Guarded,      \* requests to WorkBuddy, whose opener releases on any exception
  Leaving,      \* bound of the model: requests that may be cancelled
  Faulty,      \* bound of the model: requests that may meet errors of the store
  OddJson,      \* may an upstream answer 200 with JSON that is no object?
  NoAccount

ASSUME LimitAssumption == Limit \in Nat \ {0}
ASSUME BoundsAssumption == MaxAttempts \in Nat \ {0} /\ MaxCancels \in Nat
ASSUME RequestSets ==
  /\ IsFiniteSet(Requests) /\ Guarded \subseteq Requests
  /\ Leaving \subseteq Requests /\ Faulty \subseteq Requests
ASSUME NoAccountAssumption == NoAccount \notin Accounts /\ OddJson \in BOOLEAN

VARIABLES
  pc,        \* where the handler's coroutine is
  call,      \* CallContext and the request's upstream lease
  fin,       \* the finish_call() runs of the request, in order of their start
  closer,    \* the shielded lease.close() of a stream
  record,    \* call_records.status
  hold,      \* billing_requests.state
  free,      \* free permits of each account's semaphore
  cancels,   \* cancellations delivered so far
  hit,       \* where the first one arrived
  broken     \* the storage failures of the call that skip something, for the properties

vars == <<pc, call, fin, closer, record, hold, free, cancels, hit, broken>>

----------------------------------------------------------------------------
(* State *)

Phases == {"idle", "reserving", "recording", "rerecord", "choosing", "waiting",
           "sending", "unstarted", "streaming", "finishing", "closing", "last",
           "collecting", "letgo", "inline", "failing", "done"}

\* Where a storage error (of gateway_store) leaves something undone: in an opener
\* that does not catch it, before the record is closed, before the hold is settled.
Breaks == {"opener", "finalize", "settle"}
Broke(r, where) == broken' = [broken EXCEPT ![r] = @ \cup {where}]

Endings == {"success", "failed", "interrupted"}
RecordStates == Endings \cup {"none", "in_progress"}
HoldStates == {"none", "reserved", "pending", "settled", "released"}

\* permit: "lost" when nobody will give it back any more.  live: the upstream
\* connection is open.  completed, usage: the upstream said that its answer is
\* complete, and what it used.  outcome: how collect_response() is to end.
Calls == [account: Accounts \cup {NoAccount}, attempts: 0..MaxAttempts,
          permit: {"none", "held", "lost"}, live: BOOLEAN, delivered: BOOLEAN,
          completed: BOOLEAN, usage: BOOLEAN, finalized: BOOLEAN, outcome: Endings]

NewCall ==
  [account |-> NoAccount, attempts |-> 0, permit |-> "none", live |-> FALSE,
   delivered |-> FALSE, completed |-> FALSE, usage |-> FALSE, finalized |-> FALSE,
   outcome |-> "failed"]

Steps == {"none", "check", "finalize", "settle", "release", "end"}
Slots == {1, 2}
NoFinish == [step |-> "none", status |-> "failed"]
Finishes == [step: Steps, status: Endings]

\* The next finish_call() of r starts, in the first slot that is free.
Started(r, status) ==
  LET s == IF fin[r][1].step = "none" THEN 1 ELSE 2
  IN [fin EXCEPT ![r][s] = [step |-> "check", status |-> status]]

Running(r) == {s \in Slots : fin[r][s].step \notin {"none", "end"}}

\* The finish_call() the coroutine is waiting for: the last one started.
Awaited(r) == IF fin[r][2].step = "none" THEN 1 ELSE 2

\* A fault to be caught: close() gives the permit back, and so does its caller.
ReturnTwice(r) == [free EXCEPT ![call[r].account] = @ + 2]

\* The semaphore takes its permit back; "lost" permits never return.
Return(r) == [free EXCEPT ![call[r].account] = @ + 1]
Freed(c) == [c EXCEPT !.permit = "none", !.live = FALSE]

\* note_attempt(): one more attempt, on this account.
Noted(c, a) == [c EXCEPT !.account = a, !.attempts = @ + 1]

\* The permit of a coroutine that dies here is held by nobody.
Orphaned(c) == [c EXCEPT !.permit = "lost", !.live = FALSE]

\* The last event of the upstream arrived, with or without a usage report.
Answered(c, known) == [c EXCEPT !.completed = TRUE, !.usage = known]

Init ==
  /\ pc = [r \in Requests |-> "idle"]
  /\ call = [r \in Requests |-> NewCall]
  /\ fin = [r \in Requests |-> [s \in Slots |-> NoFinish]]
  /\ closer = [r \in Requests |-> "none"]
  /\ record = [r \in Requests |-> "none"]
  /\ hold = [r \in Requests |-> "none"]
  /\ free = [a \in Accounts |-> Limit]
  /\ cancels = [r \in Requests |-> 0]
  /\ hit = [r \in Requests |-> "never"]
  /\ broken = [r \in Requests |-> {}]

Goto(r, p) == pc' = [pc EXCEPT ![r] = p]

----------------------------------------------------------------------------
(* begin_call(): the hold, then the record *)

\* A request arrives; a body that can not be read is recorded all the same.
Arrive(r) ==
  /\ pc[r] = "idle"
  /\ \E p \in {"reserving", "rerecord"} : Goto(r, p)
  /\ UNCHANGED <<call, fin, closer, record, hold, free, cancels, hit, broken>>

Reserve(r) ==
  /\ pc[r] = "reserving"
  /\ hold' = [hold EXCEPT ![r] = "reserved"]
  /\ Goto(r, "recording")
  /\ UNCHANGED <<call, fin, closer, record, free, cancels, hit, broken>>

\* 402, 403 or 409: the handler's _record_call() is refused for the same reason.
ReserveRefused(r) ==
  /\ pc[r] \in {"reserving", "rerecord"} /\ hold[r] = "none"
  /\ Goto(r, "done")
  /\ UNCHANGED <<call, fin, closer, record, hold, free, cancels, hit, broken>>

Record(r) ==
  /\ pc[r] = "recording"
  /\ record' = [record EXCEPT ![r] = "in_progress"]
  /\ Goto(r, "choosing")
  /\ UNCHANGED <<call, fin, closer, hold, free, cancels, hit, broken>>

\* begin_call() meets a storage error; what it was to write is not written.
BeginFails(r) ==
  /\ r \in Faulty /\ pc[r] \in {"reserving", "recording"}
  /\ Goto(r, "rerecord")
  /\ UNCHANGED <<call, fin, closer, record, hold, free, cancels, hit, broken>>

\* The handler's except clause when it has no context yet: _record_call()
\* once more.  A second INSERT of one request_id fails, and nobody goes on.
ReRecord(r) ==
  /\ pc[r] = "rerecord"
  /\ hold' = [hold EXCEPT ![r] = "reserved"]
  /\ IF record[r] = "none"
     THEN /\ record' = [record EXCEPT ![r] = "in_progress"]
          /\ \E status \in {"failed", "interrupted"} :
               /\ cancels[r] > 0 => status = "interrupted"
               /\ fin' = Started(r, status)
          /\ Goto(r, "failing")
     ELSE /\ Goto(r, "done")
          /\ UNCHANGED <<record, fin>>
  /\ UNCHANGED <<call, closer, free, cancels, hit, broken>>

\* _record_call() meets one as well, before or after the hold.
ReRecordFails(r) ==
  /\ r \in Faulty /\ pc[r] = "rerecord"
  /\ hold' \in {hold, [hold EXCEPT ![r] = "reserved"]}
  /\ Goto(r, "done")
  /\ UNCHANGED <<call, fin, closer, record, free, cancels, hit, broken>>

----------------------------------------------------------------------------
(* Attempts: note_attempt(), the semaphore, the upstream request *)

\* What the handler does with an error: _finish_failure().
Fail(r, status) ==
  /\ fin' = Started(r, status)
  /\ Goto(r, "failing")

ChooseFails(r) ==
  /\ pc[r] = "choosing"
  /\ Fail(r, "failed")
  /\ UNCHANGED <<call, closer, record, hold, free, cancels, hit, broken>>

Attempt(r, a) ==
  /\ pc[r] = "choosing"
  /\ call' = [call EXCEPT ![r] = Noted(@, a)]
  /\ Goto(r, "waiting")
  /\ UNCHANGED <<fin, closer, record, hold, free, cancels, hit, broken>>

\* note_attempt() is refused a larger hold, or meets a storage error before or
\* after it counted the attempt: no error that is retried.
AttemptFails(r, a) ==
  /\ r \in Faulty /\ pc[r] = "choosing"
  /\ call' \in {call, [call EXCEPT ![r] = Noted(@, a)]}
  /\ Fail(r, "failed")
  /\ UNCHANGED <<closer, record, hold, free, cancels, hit, broken>>

Acquire(r) ==
  /\ pc[r] = "waiting"
  /\ free[call[r].account] > 0
  /\ free' = [free EXCEPT ![call[r].account] = @ - 1]
  /\ call' = [call EXCEPT ![r] = [@ EXCEPT !.permit = "held", !.live = TRUE]]
  /\ Goto(r, "sending")
  /\ UNCHANGED <<fin, closer, record, hold, cancels, hit, broken>>

\* A fault to be caught: the wait for a permit has no timeout.
WaitsForever(r) == FALSE

\* gateway_queue_timeout_seconds pass without a permit.
QueueTimeout(r) == pc[r] = "waiting" /\ free[call[r].account] <= 0

\* An error of an attempt is retried while attempts are left, unless its
\* status or code is not one of _retryable_text_error().
RetryOrFail(r) ==
  \/ /\ call[r].attempts < MaxAttempts
     /\ Goto(r, "choosing") /\ UNCHANGED fin
  \/ Fail(r, "failed")

WaitFails(r) ==
  /\ QueueTimeout(r)
  /\ RetryOrFail(r)
  /\ UNCHANGED <<call, closer, record, hold, free, cancels, hit, broken>>

\* An HTTP error status, a first-token timeout, a dead connection.
SendFails(r) ==
  /\ pc[r] = "sending"
  /\ free' = Return(r)
  /\ call' = [call EXCEPT ![r] = Freed(@)]
  /\ RetryOrFail(r)
  /\ UNCHANGED <<closer, record, hold, cancels, hit, broken>>

\* The statement of _mark_failure(), of _mark_network_failure() or of the success
\* fails: the Codex and Grok openers catch no storage error, and their permit is
\* gone.  open_workbuddy_chat catches it (SendFails).
SendBreaks(r) ==
  /\ r \in Faulty \ Guarded /\ pc[r] = "sending"
  /\ call' = [call EXCEPT ![r] = Orphaned(@)]
  /\ Fail(r, "failed")
  /\ Broke(r, "opener")
  /\ UNCHANGED <<closer, record, hold, free, cancels, hit>>

\* The upstream answered 200 and the first token of its SSE stream is buffered:
\* the stream is passed on to the client, or collected into one answer.
SendSucceeds(r) ==
  /\ pc[r] = "sending"
  /\ \E p \in {"unstarted", "collecting"} : Goto(r, p)
  /\ UNCHANGED <<call, fin, closer, record, hold, free, cancels, hit, broken>>

\* A JSON body (open_grok_request with stream=False): the permit is back
\* before the body is looked at.
JsonAnswered(r) ==
  /\ pc[r] = "sending"
  /\ free' = Return(r)
  /\ \E known \in BOOLEAN :
       call' = [call EXCEPT ![r] = Answered(Freed(@), known)]
  /\ fin' = Started(r, "success")
  /\ Goto(r, "inline")
  /\ UNCHANGED <<closer, record, hold, cancels, hit, broken>>

\* JSON that is no object raises after the release, and the except clause
\* releases the semaphore a second time.
JsonOdd(r) ==
  /\ OddJson /\ pc[r] = "sending"
  /\ free' = ReturnTwice(r)
  /\ call' = [call EXCEPT ![r] = Freed(@)]
  /\ RetryOrFail(r)
  /\ UNCHANGED <<closer, record, hold, cancels, hit, broken>>

----------------------------------------------------------------------------
(* A collected answer: collect_response(), whose finally closes the lease *)

\* A complete answer may still fail: an image of it cannot be stored.
Collect(r) ==
  /\ pc[r] = "collecting"
  /\ \/ \E known \in BOOLEAN, outcome \in {"success", "failed"} :
          call' = [call EXCEPT ![r] = [Answered(@, known) EXCEPT !.outcome = outcome]]
     \/ call' = [call EXCEPT ![r].outcome = "failed"]
  /\ Goto(r, "letgo")
  /\ UNCHANGED <<fin, closer, record, hold, free, cancels, hit, broken>>

\* lease.close() inside the coroutine: aclose(), then the permit.
CollectClosed(r) ==
  /\ pc[r] = "letgo"
  /\ free' = Return(r)
  /\ call' = [call EXCEPT ![r] = Freed(@)]
  /\ fin' = Started(r, call[r].outcome)
  /\ Goto(r, IF call[r].outcome = "success" THEN "inline" ELSE "failing")
  /\ UNCHANGED <<closer, record, hold, cancels, hit, broken>>

\* finish_call() of a success runs in the coroutine itself.
InlineDone(r) ==
  /\ pc[r] = "inline" /\ Running(r) = {}
  /\ Goto(r, "done")
  /\ UNCHANGED <<call, fin, closer, record, hold, free, cancels, hit, broken>>

FailingDone(r) ==
  /\ pc[r] \in {"failing", "last"} /\ fin[r][Awaited(r)].step = "end"
  /\ Goto(r, "done")
  /\ UNCHANGED <<call, fin, closer, record, hold, free, cancels, hit, broken>>

----------------------------------------------------------------------------
(* A stream: stream_response() and stream_passthrough() *)

StartStream(r) ==
  /\ pc[r] = "unstarted"
  /\ Goto(r, "streaming")
  /\ UNCHANGED <<call, fin, closer, record, hold, free, cancels, hit, broken>>

\* Text reaches the client; the last event and the usage may come or not.
Deliver(r) ==
  /\ pc[r] = "streaming"
  /\ \/ ~call[r].delivered /\ call' = [call EXCEPT ![r].delivered = TRUE]
     \/ /\ ~call[r].completed
        /\ \E known \in BOOLEAN :
             call' = [call EXCEPT ![r] = Answered(@, known)]
  /\ UNCHANGED <<pc, fin, closer, record, hold, free, cancels, hit, broken>>

\* The upstream's stream ends, complete or not: straight to the finally clause.
StreamEnds(r) ==
  /\ pc[r] = "streaming"
  /\ closer' = [closer EXCEPT ![r] = "aclose"]
  /\ Goto(r, "closing")
  /\ UNCHANGED <<call, fin, record, hold, free, cancels, hit, broken>>

\* An idle timeout, an oversized event, a broken connection.
StreamFails(r) ==
  /\ pc[r] = "streaming"
  /\ fin' = Started(r, "failed")
  /\ Goto(r, "finishing")
  /\ UNCHANGED <<call, closer, record, hold, free, cancels, hit, broken>>

StreamFinished(r) ==
  /\ pc[r] = "finishing" /\ fin[r][Awaited(r)].step = "end"
  /\ closer' = [closer EXCEPT ![r] = "aclose"]
  /\ Goto(r, "closing")
  /\ UNCHANGED <<call, fin, record, hold, free, cancels, hit, broken>>

\* The finally clause after lease.close(): a call nobody finished is finished.
StreamClosed(r) ==
  /\ pc[r] = "closing" /\ closer[r] = "end"
  /\ IF call[r].finalized
     THEN Goto(r, "done") /\ UNCHANGED fin
     ELSE /\ fin' = Started(r, IF call[r].completed THEN "success" ELSE "failed")
          /\ Goto(r, "last")
  /\ UNCHANGED <<call, closer, record, hold, free, cancels, hit, broken>>

\* The shielded lease.close().
CloseLease(r) ==
  /\ closer[r] = "aclose"
  /\ closer' = [closer EXCEPT ![r] = "end"]
  /\ free' = Return(r)
  /\ call' = [call EXCEPT ![r] = Freed(@)]
  /\ UNCHANGED <<pc, fin, record, hold, cancels, hit, broken>>

----------------------------------------------------------------------------
(* finish_call() *)

\* A fault to be caught: the hold is settled before the record is closed.
MoneyFirst(step) ==
  CASE step = "check" -> "settle"
    [] step = "settle" -> "finalize"
    [] step = "finalize" -> "release"
    [] OTHER -> "end"

\* The order of finish_call(): the record, the money, the routing lease.
After(step) ==
  CASE step = "check" -> "finalize"
    [] step = "finalize" -> "settle"
    [] step = "settle" -> "release"
    [] OTHER -> "end"

To(r, s, step) == fin' = [fin EXCEPT ![r][s].step = step]

\* What settle() makes of an open hold.  An unsuccessful call without a usage
\* report is billed for the bytes it delivered.
Settled(r, status) ==
  IF hold[r] \notin {"reserved", "pending"} THEN hold[r]
  ELSE IF call[r].usage \/ (status # "success" /\ call[r].delivered) THEN "settled"
  ELSE IF status = "success" /\ call[r].attempts > 0 THEN "pending"
  ELSE "released"

FinishCheck(r, s) ==
  /\ fin[r][s].step = "check"
  /\ To(r, s, IF call[r].finalized THEN "end" ELSE After("check"))
  /\ UNCHANGED <<pc, call, closer, record, hold, free, cancels, hit, broken>>

\* finalize_call(): only a record in progress is closed.
Finalized(r, s) == IF record[r] = "in_progress" THEN fin[r][s].status ELSE record[r]

FinishRecord(r, s) ==
  /\ fin[r][s].step = "finalize"
  /\ record' = [record EXCEPT ![r] = Finalized(r, s)]
  /\ To(r, s, After("finalize"))
  /\ UNCHANGED <<pc, call, closer, hold, free, cancels, hit, broken>>

FinishSettle(r, s) ==
  /\ fin[r][s].step = "settle"
  /\ hold' = [hold EXCEPT ![r] = Settled(r, fin[r][s].status)]
  /\ To(r, s, After("settle"))
  /\ UNCHANGED <<pc, call, closer, record, free, cancels, hit, broken>>

\* complete_route() and context.finalized = True.
FinishRelease(r, s) ==
  /\ fin[r][s].step = "release"
  /\ call' = [call EXCEPT ![r].finalized = TRUE]
  /\ To(r, s, "end")
  /\ UNCHANGED <<pc, closer, record, hold, free, cancels, hit, broken>>

\* A storage error before the record is closed, or between that and the end of
\* settle(): the finally clause is next, and marks the call as finalized.
FinishFails(r, s) ==
  LET step == fin[r][s].step
  IN /\ r \in Faulty /\ step \in {"finalize", "settle"}
     /\ To(r, s, "release")
     /\ Broke(r, step)
     /\ UNCHANGED <<pc, call, closer, record, hold, free, cancels, hit>>

FinishStep(r, s) ==
  \/ FinishCheck(r, s) \/ FinishRecord(r, s) \/ FinishSettle(r, s)
  \/ FinishFails(r, s) \/ FinishRelease(r, s)

----------------------------------------------------------------------------
(* Cancellation *)

\* CancelledError is raised at the await r is at; hit keeps the first one.
Cancelled(r, phases) ==
  /\ pc[r] \in phases
  /\ r \in Leaving /\ cancels[r] < MaxCancels
  /\ cancels' = [cancels EXCEPT ![r] = @ + 1]
  /\ hit' = [hit EXCEPT ![r] = IF @ = "never" THEN pc[r] ELSE @]
  /\ UNCHANGED broken

\* Before there is a context; the statement that was awaited may be done.
CancelBegin(r) ==
  /\ Cancelled(r, {"reserving", "recording"})
  /\ \/ UNCHANGED <<hold, record>>
     \/ pc[r] = "reserving" /\ hold' = [hold EXCEPT ![r] = "reserved"] /\ UNCHANGED record
     \/ pc[r] = "recording" /\ record' = [record EXCEPT ![r] = "in_progress"] /\ UNCHANGED hold
  /\ Goto(r, "rerecord")
  /\ UNCHANGED <<call, fin, closer, free>>

\* _record_call() in the except clause is cancelled as well.
CancelReRecord(r) ==
  /\ Cancelled(r, {"rerecord"})
  /\ hold' \in {hold, [hold EXCEPT ![r] = "reserved"]}
  /\ record' \in {record} \cup
       IF hold'[r] = "reserved" /\ record[r] = "none"
       THEN {[record EXCEPT ![r] = "in_progress"]} ELSE {}
  /\ Goto(r, "done")
  /\ UNCHANGED <<call, fin, closer, free>>

CancelChoosing(r) ==
  /\ Cancelled(r, {"choosing", "waiting"})
  /\ Fail(r, "interrupted")
  /\ UNCHANGED <<call, closer, record, hold, free>>

\* The except clauses of the Codex and Grok openers name GatewayError,
\* PoolTimeout, HTTPError and OSError: the permit of a cancelled one is gone.
CancelSending(r) ==
  /\ r \notin Guarded
  /\ Cancelled(r, {"sending"})
  /\ call' = [call EXCEPT ![r] = Orphaned(@)]
  /\ Fail(r, "interrupted")
  /\ UNCHANGED <<closer, record, hold, free>>

\* open_workbuddy_chat catches BaseException: the permit comes back, after the
\* aclose() of the response if there is one.
CancelGuarded(r) ==
  /\ r \in Guarded
  /\ Cancelled(r, {"sending"})
  /\ \/ free' = Return(r) /\ call' = [call EXCEPT ![r] = Freed(@)] /\ Fail(r, "interrupted")
     \/ /\ call' = [call EXCEPT ![r].outcome = "interrupted"]
        /\ Goto(r, "letgo")
        /\ UNCHANGED <<free, fin>>
  /\ UNCHANGED <<closer, record, hold>>

\* The client is gone before the first byte: the generator is never entered.
CancelUnstarted(r) ==
  /\ Cancelled(r, {"unstarted"})
  /\ call' = [call EXCEPT ![r].permit = "lost"]
  /\ Goto(r, "done")
  /\ UNCHANGED <<fin, closer, record, hold, free>>

CancelStreaming(r) ==
  /\ Cancelled(r, {"streaming"})
  /\ fin' = Started(r, "interrupted")
  /\ Goto(r, "finishing")
  /\ UNCHANGED <<call, closer, record, hold, free>>

CancelCollecting(r) ==
  /\ Cancelled(r, {"collecting"})
  /\ call' = [call EXCEPT ![r].outcome = "interrupted"]
  /\ Goto(r, "letgo")
  /\ UNCHANGED <<fin, closer, record, hold, free>>

\* In lease.close(), after closed = True and before the release.
CancelLetGo(r) ==
  /\ Cancelled(r, {"letgo"})
  /\ call' = [call EXCEPT ![r] = Orphaned(@)]
  /\ Fail(r, "interrupted")
  /\ UNCHANGED <<closer, record, hold, free>>

\* In a finish_call() that is not shielded: its finally clause still runs up
\* to the next await, and the handler calls _finish_failure().
CancelInline(r) ==
  LET step == fin[r][1].step
      rest == [fin EXCEPT ![r][1].step = IF step \in {"check", "release"} THEN "end"
                                         ELSE "release"]
  IN /\ Cancelled(r, {"inline"})
     /\ step \notin {"none", "end"}
     /\ record' \in {record} \cup IF step = "finalize"
                                  THEN {[record EXCEPT ![r] = Finalized(r, 1)]} ELSE {}
     /\ hold' \in {hold} \cup IF step = "settle"
                              THEN {[hold EXCEPT ![r] = Settled(r, fin[r][1].status)]} ELSE {}
     /\ fin' = IF step \in {"check", "release"}
               THEN [rest EXCEPT ![r][2] = [step |-> "check", status |-> "interrupted"]]
               ELSE rest
     /\ Goto(r, IF step \in {"check", "release"} THEN "failing" ELSE "inline")
     /\ UNCHANGED <<call, closer, free>>

\* A fault to be caught: without the shield the finish_call() dies with its waiter.
Unshielded(r) == [fin EXCEPT ![r][Awaited(r)].step = "end"]

\* asyncio.shield(): the finish_call() goes on.
Shielded(r) == fin

CancelFailing(r) ==
  /\ Cancelled(r, {"failing", "last"})
  /\ fin' = Shielded(r)
  /\ Goto(r, "done")
  /\ UNCHANGED <<call, closer, record, hold, free>>

CancelFinishing(r) ==
  /\ Cancelled(r, {"finishing"})
  /\ fin' = Shielded(r)
  /\ closer' = [closer EXCEPT ![r] = "aclose"]
  /\ Goto(r, "closing")
  /\ UNCHANGED <<call, record, hold, free>>

\* In the finally clause: the lines after lease.close() are not reached, and
\* the shielded close goes on.
CancelClosing(r) ==
  /\ Cancelled(r, {"closing"})
  /\ Goto(r, "done")
  /\ UNCHANGED <<call, fin, closer, record, hold, free>>

----------------------------------------------------------------------------
Begin(r) ==
  \/ Arrive(r) \/ Reserve(r) \/ ReserveRefused(r) \/ Record(r) \/ BeginFails(r)
  \/ ReRecord(r) \/ ReRecordFails(r)

Ask(r) ==
  \/ ChooseFails(r)
  \/ \E a \in Accounts : Attempt(r, a) \/ AttemptFails(r, a)
  \/ Acquire(r) \/ WaitFails(r)
  \/ SendFails(r) \/ SendBreaks(r) \/ SendSucceeds(r) \/ JsonAnswered(r) \/ JsonOdd(r)

PassOn(r) ==
  \/ Collect(r) \/ CollectClosed(r) \/ InlineDone(r) \/ FailingDone(r)
  \/ StartStream(r) \/ Deliver(r) \/ StreamEnds(r) \/ StreamFails(r)
  \/ StreamFinished(r) \/ StreamClosed(r)

Cancel(r) ==
  \/ CancelBegin(r) \/ CancelReRecord(r) \/ CancelChoosing(r) \/ CancelSending(r)
  \/ CancelGuarded(r) \/ CancelUnstarted(r) \/ CancelStreaming(r)
  \/ CancelCollecting(r) \/ CancelLetGo(r)
  \/ CancelInline(r) \/ CancelFailing(r) \/ CancelFinishing(r) \/ CancelClosing(r)

\* A handler's coroutine (those of the Anthropic and Gemini endpoints are
\* written like that of the Responses endpoint), and the tasks behind
\* asyncio.shield().
Run(r) == Begin(r) \/ Ask(r) \/ PassOn(r)
Tasks(r) == CloseLease(r) \/ \E s \in Slots : FinishStep(r, s)

Next == \E r \in Requests : Run(r) \/ Tasks(r) \/ Cancel(r)

Spec == Init /\ [][Next]_vars

\* The loop runs every coroutine and task that can go on; an upstream answers,
\* fails or runs into one of the timeouts; a client reads its stream or goes
\* away.  Requests need not arrive, and nothing needs to be cancelled.
FairSpec ==
  /\ Spec
  /\ \A r \in Requests : WF_vars(pc[r] # "idle" /\ Run(r)) /\ WF_vars(Tasks(r))

----------------------------------------------------------------------------
(* Properties *)

\* Type invariant of the context, the tasks, the rows and the semaphores.
TypeOK ==
  /\ pc \in [Requests -> Phases]
  /\ call \in [Requests -> Calls]
  /\ fin \in [Requests -> [Slots -> Finishes]]
  /\ closer \in [Requests -> {"none", "aclose", "end"}]
  /\ record \in [Requests -> RecordStates]
  /\ hold \in [Requests -> HoldStates]
  /\ free \in [Accounts -> Nat]
  /\ cancels \in [Requests -> 0..MaxCancels]
  /\ hit \in [Requests -> Phases \cup {"never"}]
  /\ broken \in [Requests -> SUBSET Breaks]

\* Never more upstream connections of one account at once than its semaphore
\* admits, through retries, failures, double finishes and cancellations; it
\* relies on upstreams whose JSON bodies are objects (open_grok_request).
ConcurrencyLimit ==
  \A a \in Accounts : Cardinality({r \in Requests : call[r].account = a /\ call[r].live}) <= Limit

\* The money is only touched when the call record says how the call ended:
\* start() trusts the record when it decides about an open hold (finish_call).
RecordFirst ==
  \A r \in Requests : hold[r] \in {"pending", "settled", "released"} => record[r] \in Endings

\* Nothing of r is running or will run any more.
Quiet(r) == pc[r] = "done" /\ Running(r) = {} /\ closer[r] # "aclose"

\* The awaits at which a first cancellation skips finish_call(), or its settle().
Unfinished == {"reserving", "recording", "rerecord", "unstarted", "closing", "inline"}

\* The tables are closed for r, but for what a storage error of finish_call() skipped.
RecordClosed(r) == record[r] \in Endings \/ "finalize" \in broken[r]
HoldClosed(r) ==
  \/ hold[r] \in {"pending", "settled", "released"}
  \/ "finalize" \in broken[r] \/ "settle" \in broken[r]

\* A call that is over is closed in both tables, whatever ended it and however
\* often it was cancelled, unless its first cancellation came before there was
\* a context, before the stream began, or in the few lines after it ended, or a
\* storage error broke off its finish_call(): the record only one before the
\* record is closed, the hold only one before it is settled.
AccountedFor ==
  \A r \in Requests : Quiet(r) /\ record[r] # "none" /\ hit[r] \notin Unfinished =>
    RecordClosed(r) /\ HoldClosed(r)

\* The permit of a call that is over is back, unless a cancellation found the
\* coroutine in the opener, in an unstarted stream or in an unshielded close, or
\* a storage error left an opener that catches none.
PermitBack ==
  \A r \in Requests : Quiet(r) /\ call[r].permit # "none" =>
    /\ call[r].permit = "lost"
    /\ \/ hit[r] \in {"sending", "unstarted", "collecting", "letgo"}
       \/ "opener" \in broken[r]

\* These cancellations and these storage errors are the only ways in which a
\* call leaves anything behind, wherever it ends or is cancelled, once or again
\* and again: an open record, a hold that waits for its expiry, or a permit.
CallsLeaveNothing == AccountedFor /\ PermitBack

\* Text that reached the client is billed once the call is over, if the store
\* does not fail: "the client already received text. Bill that text" (finish_call).
DeliveredIsBilled ==
  \A r \in Requests : Quiet(r) /\ call[r].delivered /\ broken[r] = {} =>
    hold[r] \in {"settled", "pending"}

\* Every call that arrived comes to rest, even when permits have been lost:
\* no wait in the handler is without a timeout.
CallEnds(r) == pc[r] # "idle" ~> Quiet(r)
=============================================================================
