----------------------------- MODULE CallProofs -----------------------------
(***************************************************************************)
(* Proofs about CallLifecycle: types, the order of record and money, the   *)
(* limit on the connections of an account, and what is left of a call that *)
(* is over: its record and its hold are closed and its permit is back, but *)
(* for the first cancellations and the errors of the store that            *)
(* AccountedFor and PermitBack name.                                       *)
(*                                                                         *)
(* Everything but the permits is a fact about one request at a time: Local *)
(* relates the await its handler is at, its lease, its finish_call() runs  *)
(* and its two rows, and no other request's step disturbs it.  The permits *)
(* of an account are conserved: the free ones, and one for every request   *)
(* that holds or has lost one, are never more than Limit.                  *)
(*                                                                         *)
(* After them follow those about a call's streamed answer (Relay), with    *)
(* the laws of lists that they need.                                       *)
(***************************************************************************)
EXTENDS CallLifecycle, Sequences, FiniteSetTheorems, WellFoundedInduction, TLAPS

Early == {"idle", "reserving", "recording", "rerecord"}
Asking == {"choosing", "waiting"}
Holding == {"sending", "unstarted", "streaming", "finishing", "collecting", "letgo"}

\* What the place of the handler says about its upstream lease.
Leased(r) ==
  /\ pc[r] \in Early => call[r].attempts = 0
  /\ pc[r] = "choosing" => call[r].attempts < MaxAttempts
  /\ pc[r] \in Early \cup Asking => call[r].permit = "none" /\ closer[r] = "none"
  /\ pc[r] \in Holding => call[r].permit = "held" /\ closer[r] = "none"
  /\ closer[r] = "aclose" => call[r].permit = "held"
  /\ call[r].permit # "none" \/ pc[r] = "waiting" => call[r].account \in Accounts
  /\ call[r].live => call[r].permit # "none"

\* What the place of the handler and its finish_call() runs say about the rows.
Recorded(r) ==
  /\ pc[r] \in {"idle", "reserving", "recording"} => record[r] = "none"
  /\ pc[r] \notin Early \cup {"done"} => record[r] # "none"
  /\ \A s \in Slots :
       /\ fin[r][s].step \in {"check", "finalize"} => record[r] # "none"
       /\ fin[r][s].step = "settle" => record[r] \in Endings
  /\ hold[r] \in {"pending", "settled", "released"} => record[r] \in Endings

Local == \A r \in Requests : Leased(r) /\ Recorded(r)

\* Nothing of q changes.
Same(q) ==
  /\ pc'[q] = pc[q] /\ call'[q] = call[q] /\ fin'[q] = fin[q]
  /\ closer'[q] = closer[q] /\ record'[q] = record[q] /\ hold'[q] = hold[q]

\* A step of r keeps the types and what is known of r, and leaves the others alone.
Kept(r) == TypeOK' /\ Leased(r)' /\ Recorded(r)' /\ \A q \in Requests \ {r} : Same(q)

-----------------------------------------------------------------------------
LEMMA LocalInit == Init => TypeOK /\ Local
<1>. SUFFICES ASSUME Init PROVE TypeOK /\ Local
  OBVIOUS
<1>1. TypeOK
  BY LimitAssumption, BoundsAssumption
  DEF Init, TypeOK, Phases, NewCall, Calls, NoFinish, Finishes, Steps, Endings, RecordStates, HoldStates
<1>2. ASSUME NEW r \in Requests PROVE Leased(r) /\ Recorded(r)
  BY BoundsAssumption DEF Init, Leased, Recorded, NewCall, NoFinish, Early, Asking, Holding, Endings
<1>. QED  BY <1>1, <1>2 DEF Local

\* The lease of r becomes c.
CallBecomes(r, c) ==
  /\ call' \in [Requests -> Calls] /\ call'[r] = c
  /\ \A q \in Requests \ {r} : call'[q] = call[q]

LEMMA CallChange ==
  ASSUME TypeOK, NEW r \in Requests, NEW c \in Calls, call' = [call EXCEPT ![r] = c]
  PROVE  CallBecomes(r, c)
BY DEF TypeOK, CallBecomes

\* A finish_call() of r starts, and no other changes.
RunStarts(r) ==
  /\ fin' \in [Requests -> [Slots -> Finishes]]
  /\ \A q \in Requests \ {r} : fin'[q] = fin[q]
  /\ \A s \in Slots : fin'[r][s] = fin[r][s] \/ fin'[r][s].step = "check"

LEMMA StartedRuns ==
  ASSUME TypeOK, NEW r \in Requests, NEW status \in Endings, fin' = Started(r, status)
  PROVE  RunStarts(r)
<1>. DEFINE n == [step |-> "check", status |-> status]
            t == IF fin[r][1].step = "none" THEN 1 ELSE 2
<1>1. n \in Finishes /\ n.step = "check" /\ t \in Slots
  BY DEF Finishes, Steps, Slots
<1>2. fin' = [fin EXCEPT ![r] = [fin[r] EXCEPT ![t] = n]]
  BY DEF Started, TypeOK
<1>3. fin \in [Requests -> [Slots -> Finishes]]
  BY DEF TypeOK
<1>. HIDE DEF n, t
<1>4. [fin[r] EXCEPT ![t] = n] \in [Slots -> Finishes]
  BY <1>1, <1>3
<1>. QED  BY <1>1, <1>2, <1>3, <1>4 DEF RunStarts

\* Where an attempt that failed leads to.
Goes(r, p) == pc' \in [Requests -> Phases] /\ pc'[r] = p /\ \A q \in Requests \ {r} : pc'[q] = pc[q]

LEMMA Going ==
  ASSUME TypeOK, NEW r \in Requests, NEW p \in Phases, Goto(r, p)
  PROVE  Goes(r, p)
BY DEF TypeOK, Goto, Goes

LEMMA Failing ==
  ASSUME TypeOK, NEW r \in Requests, NEW status \in Endings, Fail(r, status)
  PROVE  RunStarts(r) /\ Goes(r, "failing")
BY StartedRuns, Going DEF Fail, Phases

LEMMA Retrying ==
  ASSUME TypeOK, NEW r \in Requests, RetryOrFail(r)
  PROVE  \/ Goes(r, "choosing") /\ fin' = fin /\ call[r].attempts < MaxAttempts
         \/ Goes(r, "failing") /\ RunStarts(r)
BY Failing, Going DEF RetryOrFail, Phases, Endings

\* Permits that come back leave a number of free ones.
LEMMA Returning ==
  ASSUME TypeOK, NEW r \in Requests
  PROVE  Return(r) \in [Accounts -> Nat] /\ ReturnTwice(r) \in [Accounts -> Nat]
<1>. DEFINE a == call[r].account
<1>1. free \in [Accounts -> Nat]
  BY DEF TypeOK
<1>2. Return(r) = [free EXCEPT ![a] = free[a] + 1] /\ ReturnTwice(r) = [free EXCEPT ![a] = free[a] + 2]
  BY DEF Return, ReturnTwice
<1>. HIDE DEF a
<1>3. CASE a \in Accounts
  BY <1>1, <1>2, <1>3
<1>4. CASE a \notin Accounts
  BY <1>1, <1>2, <1>4
<1>. QED  BY <1>3, <1>4

\* The changes of a call: each is a call again.
LEMMA CallChanges ==
  ASSUME NEW c \in Calls
  PROVE  /\ Freed(c) \in Calls /\ Freed(c).permit = "none" /\ Freed(c).live = FALSE
         /\ Freed(c).attempts = c.attempts /\ Freed(c).account = c.account
         /\ Orphaned(c) \in Calls /\ Orphaned(c).permit = "lost" /\ Orphaned(c).live = FALSE
         /\ Orphaned(c).attempts = c.attempts /\ Orphaned(c).account = c.account
<1>1. /\ Freed(c) \in Calls /\ Freed(c).permit = "none" /\ Freed(c).live = FALSE
      /\ Freed(c).attempts = c.attempts /\ Freed(c).account = c.account
  BY DEF Calls, Freed
<1>2. /\ Orphaned(c) \in Calls /\ Orphaned(c).permit = "lost" /\ Orphaned(c).live = FALSE
      /\ Orphaned(c).attempts = c.attempts /\ Orphaned(c).account = c.account
  BY DEF Calls, Orphaned
<1>. QED  BY <1>1, <1>2

LEMMA NotedCall ==
  ASSUME NEW c \in Calls, NEW a \in Accounts, c.attempts < MaxAttempts
  PROVE  /\ Noted(c, a) \in Calls /\ Noted(c, a).account = a
         /\ Noted(c, a).permit = c.permit /\ Noted(c, a).live = c.live
<1>1. c.attempts + 1 \in 0..MaxAttempts
  BY BoundsAssumption DEF Calls
<1>. DEFINE n == c.attempts + 1
<1>2. Noted(c, a) = [c EXCEPT !.account = a, !.attempts = n]
  BY DEF Noted
<1>. HIDE DEF n
<1>. QED  BY <1>1, <1>2 DEF Calls, n

LEMMA AnsweredCall ==
  ASSUME NEW c \in Calls, NEW known \in BOOLEAN
  PROVE  /\ Answered(c, known) \in Calls
         /\ Answered(c, known).permit = c.permit /\ Answered(c, known).live = c.live
         /\ Answered(c, known).attempts = c.attempts /\ Answered(c, known).account = c.account
<1>1. CASE known = TRUE
  BY <1>1 DEF Calls, Answered
<1>2. CASE known = FALSE
  BY <1>2 DEF Calls, Answered
<1>. QED  BY <1>1, <1>2

\* d is c but for what the client or the upstream said.
SameLease(c, d) ==
  /\ d \in Calls /\ d.permit = c.permit /\ d.live = c.live
  /\ d.attempts = c.attempts /\ d.account = c.account

LEMMA Outcomes ==
  ASSUME NEW c \in Calls, NEW e \in Endings
  PROVE  /\ SameLease(c, [c EXCEPT !.outcome = e])
         /\ SameLease(c, [c EXCEPT !.delivered = TRUE])
         /\ SameLease(c, [c EXCEPT !.finalized = TRUE])
BY DEF Calls, SameLease

LEMMA BeginKept ==
  ASSUME NEW r \in Requests, TypeOK, Leased(r), Recorded(r), Begin(r)
  PROVE  Kept(r)
<1>. USE LimitAssumption, BoundsAssumption
     DEF TypeOK, Kept, Leased, Recorded, Same, Goto, Early, Asking, Holding, Phases
<1>1. CASE Arrive(r)
  BY <1>1 DEF Arrive
<1>2. CASE Reserve(r)
  BY <1>2 DEF Reserve, HoldStates
<1>3. CASE ReserveRefused(r)
  BY <1>3 DEF ReserveRefused
<1>4. CASE Record(r)
  BY <1>4 DEF Record, RecordStates, Endings
<1>5. CASE ReRecord(r)
  <2>1. /\ pc[r] = "rerecord" /\ hold' = [hold EXCEPT ![r] = "reserved"]
        /\ UNCHANGED <<call, closer, free, cancels, hit, broken>>
    BY <1>5 DEF ReRecord
  <2>2. \/ /\ record' = [record EXCEPT ![r] = "in_progress"]
           /\ RunStarts(r) /\ Goes(r, "failing") /\ record[r] = "none"
        \/ Goes(r, "done") /\ UNCHANGED <<record, fin>>
    BY <1>5, StartedRuns, Going DEF ReRecord, Endings
  <2>3. TypeOK'
    BY <2>1, <2>2 DEF RunStarts, Goes, RecordStates, HoldStates
  <2>4. Leased(r)'
    BY <2>1, <2>2 DEF Goes
  <2>5. Recorded(r)'
    BY <2>1, <2>2 DEF RunStarts, Goes, Endings
  <2>6. \A q \in Requests \ {r} : Same(q)
    BY <2>1, <2>2 DEF RunStarts, Goes
  <2>. QED  BY <2>3, <2>4, <2>5, <2>6
<1>6. CASE BeginFails(r)
  BY <1>6 DEF BeginFails
<1>7. CASE ReRecordFails(r)
  BY <1>7 DEF ReRecordFails, HoldStates, Endings
<1>. QED  BY <1>1, <1>2, <1>3, <1>4, <1>5, <1>6, <1>7 DEF Begin

LEMMA AskKept ==
  ASSUME NEW r \in Requests, TypeOK, Leased(r), Recorded(r), Ask(r)
  PROVE  Kept(r)
<1>. USE LimitAssumption, BoundsAssumption, NoAccountAssumption
     DEF Kept, Leased, Recorded, Same, Early, Asking, Holding
<1>0. call[r] \in Calls /\ call[r].attempts \in Nat
  BY DEF TypeOK, Calls
<1>. DEFINE freed == Freed(call[r])
<1>f. /\ freed \in Calls /\ freed.permit = "none" /\ freed.live = FALSE
      /\ freed.attempts = call[r].attempts
  BY <1>0, CallChanges
<1>. HIDE DEF freed
<1>1. CASE ChooseFails(r)
  <2>1. RunStarts(r) /\ Goes(r, "failing")
    BY <1>1, Failing DEF ChooseFails, Endings
  <2>. QED  BY <1>1, <2>1 DEF ChooseFails, RunStarts, Goes, TypeOK
<1>2. ASSUME NEW a \in Accounts, Attempt(r, a) PROVE Kept(r)
  <2>. DEFINE c == Noted(call[r], a)
  <2>1. call[r].attempts < MaxAttempts /\ call[r].permit = "none" /\ ~call[r].live
    BY <1>2 DEF Attempt
  <2>2. c \in Calls /\ c.account = a /\ c.permit = "none" /\ ~c.live
    BY <1>0, <2>1, NotedCall
  <2>3. call' = [call EXCEPT ![r] = c]
    BY <1>2 DEF Attempt, TypeOK
  <2>. HIDE DEF c
  <2>4. CallBecomes(r, c) /\ Goes(r, "waiting")
    BY <1>2, <2>2, <2>3, CallChange, Going DEF Attempt, Phases
  <2>. QED  BY <1>2, <2>1, <2>2, <2>4 DEF Attempt, CallBecomes, Goes, TypeOK
<1>3. CASE Acquire(r)
  <2>. DEFINE c == [call[r] EXCEPT !.permit = "held", !.live = TRUE]
  <2>1. c \in Calls /\ c.permit = "held" /\ c.account = call[r].account
    BY <1>0 DEF Calls
  <2>2. call' = [call EXCEPT ![r] = c]
    BY <1>3 DEF Acquire, TypeOK
  <2>. HIDE DEF c
  <2>3. CallBecomes(r, c) /\ Goes(r, "sending")
    BY <1>3, <2>1, <2>2, CallChange, Going DEF Acquire, Phases
  <2>4. free' \in [Accounts -> Nat]
    BY <1>3 DEF Acquire, TypeOK
  <2>. QED  BY <1>3, <2>1, <2>3, <2>4 DEF Acquire, CallBecomes, Goes, TypeOK
<1>4. CASE WaitFails(r)
  <2>1. pc[r] = "waiting" /\ UNCHANGED <<call, closer, record, hold, free, cancels, hit, broken>>
    BY <1>4 DEF WaitFails, QueueTimeout
  <2>2. \/ Goes(r, "choosing") /\ fin' = fin /\ call[r].attempts < MaxAttempts
        \/ Goes(r, "failing") /\ RunStarts(r)
    BY <1>4, Retrying DEF WaitFails
  <2>. QED  BY <2>1, <2>2 DEF RunStarts, Goes, TypeOK
<1>5. CASE SendFails(r) \/ JsonOdd(r)
  <2>1. /\ pc[r] = "sending" /\ UNCHANGED <<closer, record, hold, cancels, hit, broken>>
        /\ call' = [call EXCEPT ![r] = freed] /\ free' \in [Accounts -> Nat]
    BY <1>5, Returning DEF SendFails, JsonOdd, freed, TypeOK
  <2>2. \/ Goes(r, "choosing") /\ fin' = fin /\ call[r].attempts < MaxAttempts
        \/ Goes(r, "failing") /\ RunStarts(r)
    BY <1>5, Retrying DEF SendFails, JsonOdd
  <2>3. CallBecomes(r, freed)
    BY <2>1, <1>f, CallChange
  <2>4. TypeOK'
    BY <2>1, <2>2, <2>3 DEF RunStarts, Goes, CallBecomes, TypeOK
  <2>5. Leased(r)'
    BY <1>f, <2>1, <2>2, <2>3 DEF Goes, CallBecomes
  <2>6. Recorded(r)'
    BY <2>1, <2>2 DEF RunStarts, Goes
  <2>7. \A q \in Requests \ {r} : Same(q)
    BY <2>1, <2>2, <2>3 DEF RunStarts, Goes, CallBecomes
  <2>. QED  BY <2>4, <2>5, <2>6, <2>7
<1>6. CASE SendSucceeds(r)
  BY <1>6 DEF SendSucceeds, TypeOK, Goto, Phases
<1>7. CASE JsonAnswered(r)
  <2>1. PICK known \in BOOLEAN : call' = [call EXCEPT ![r] = Answered(freed, known)]
    BY <1>7, Zenon DEF JsonAnswered, freed
  <2>. DEFINE c == Answered(freed, known)
  <2>2. c \in Calls /\ c.permit = "none" /\ c.live = FALSE
    BY <1>f, AnsweredCall
  <2>. HIDE DEF c
  <2>3. CallBecomes(r, c)
    BY <2>1, <2>2, CallChange DEF c
  <2>4. RunStarts(r) /\ Goes(r, "inline") /\ free' \in [Accounts -> Nat]
    BY <1>7, StartedRuns, Going, Returning DEF JsonAnswered, Phases, Endings
  <2>5. pc[r] = "sending" /\ UNCHANGED <<closer, record, hold, cancels, hit, broken>>
    BY <1>7 DEF JsonAnswered
  <2>. QED  BY <2>2, <2>3, <2>4, <2>5 DEF RunStarts, Goes, CallBecomes, TypeOK
<1>8. ASSUME NEW a \in Accounts, AttemptFails(r, a) PROVE Kept(r)
  <2>1. /\ pc[r] = "choosing" /\ RunStarts(r) /\ Goes(r, "failing")
        /\ UNCHANGED <<closer, record, hold, free, cancels, hit, broken>>
    BY <1>8, Failing DEF AttemptFails, Endings
  <2>2. \E c : /\ CallBecomes(r, c)
              /\ c.permit = "none" /\ ~c.live
    <3>1. call[r].permit = "none" /\ ~call[r].live /\ call[r].attempts < MaxAttempts
      BY <2>1
    <3>2. CASE call' = call
      BY <1>0, <3>1, <3>2 DEF CallBecomes, TypeOK
    <3>3. CASE call' = [call EXCEPT ![r] = Noted(@, a)]
      <4>1. Noted(call[r], a) \in Calls /\ Noted(call[r], a).permit = "none" /\ ~Noted(call[r], a).live
        BY <1>0, <3>1, NotedCall
      <4>2. call' = [call EXCEPT ![r] = Noted(call[r], a)]
        BY <3>3 DEF TypeOK
      <4>. QED  BY <4>1, <4>2, CallChange
    <3>. QED  BY <1>8, <3>2, <3>3 DEF AttemptFails
  <2>3. PICK c : CallBecomes(r, c) /\ c.permit = "none" /\ ~c.live
    BY <2>2
  <2>. QED  BY <2>1, <2>3 DEF RunStarts, Goes, CallBecomes, TypeOK
<1>9. CASE SendBreaks(r)
  <2>1. pc[r] = "sending" /\ UNCHANGED <<closer, record, hold, free, cancels, hit>>
        /\ RunStarts(r) /\ Goes(r, "failing")
    BY <1>9, Failing DEF SendBreaks, Endings
  <2>2. broken' \in [Requests -> SUBSET Breaks]
    BY <1>9 DEF SendBreaks, Broke, Breaks, TypeOK
  <2>3. /\ CallBecomes(r, Orphaned(call[r]))
        /\ Orphaned(call[r]).permit = "lost" /\ Orphaned(call[r]).live = FALSE
        /\ Orphaned(call[r]).account = call[r].account
    BY <1>0, <1>9, CallChange, CallChanges DEF SendBreaks, TypeOK
  <2>. QED  BY <2>1, <2>2, <2>3 DEF RunStarts, Goes, CallBecomes, TypeOK
<1>. QED  BY <1>1, <1>2, <1>3, <1>4, <1>5, <1>6, <1>7, <1>8, <1>9 DEF Ask

LEMMA PassOnKept ==
  ASSUME NEW r \in Requests, TypeOK, Leased(r), Recorded(r), PassOn(r)
  PROVE  Kept(r)
<1>. USE BoundsAssumption, NoAccountAssumption
     DEF Kept, Leased, Recorded, Same, Early, Asking, Holding
<1>0. call[r] \in Calls
  BY DEF TypeOK
<1>1. CASE Collect(r)
  <2>1. \E d : call' = [call EXCEPT ![r] = d] /\ SameLease(call[r], d)
    <3>1. CASE call' = [call EXCEPT ![r].outcome = "failed"]
      BY <1>0, <3>1, Outcomes DEF TypeOK, Endings
    <3>2. CASE \E known \in BOOLEAN, outcome \in {"success", "failed"} :
                 call' = [call EXCEPT ![r] = [Answered(@, known) EXCEPT !.outcome = outcome]]
      <4>1. PICK known \in BOOLEAN, outcome \in {"success", "failed"} :
                 call' = [call EXCEPT ![r] = [Answered(call[r], known) EXCEPT !.outcome = outcome]]
        BY <3>2, Zenon DEF TypeOK
      <4>2. SameLease(call[r], Answered(call[r], known))
        BY <1>0, AnsweredCall DEF SameLease
      <4>3. SameLease(Answered(call[r], known), [Answered(call[r], known) EXCEPT !.outcome = outcome])
        <5>1. outcome \in Endings /\ Answered(call[r], known) \in Calls
          BY <4>2 DEF SameLease, Endings
        <5>. QED  BY ONLY <5>1, Outcomes
      <4>. QED  BY <4>1, <4>2, <4>3 DEF SameLease
    <3>. QED  BY <1>1, <3>1, <3>2, Zenon DEF Collect
  <2>2. PICK d : call' = [call EXCEPT ![r] = d] /\ SameLease(call[r], d)
    BY <2>1
  <2>3. CallBecomes(r, d) /\ Goes(r, "letgo")
    BY <1>1, <2>2, CallChange, Going DEF Collect, SameLease, Phases
  <2>4. pc[r] = "collecting" /\ UNCHANGED <<fin, closer, record, hold, free, cancels, hit, broken>>
    BY <1>1 DEF Collect
  <2>. QED  BY <2>2, <2>3, <2>4 DEF SameLease, CallBecomes, Goes, TypeOK
<1>2. CASE CollectClosed(r)
  <2>1. CallBecomes(r, Freed(call[r])) /\ free' \in [Accounts -> Nat]
    BY <1>0, <1>2, CallChanges, CallChange, Returning DEF CollectClosed, TypeOK
  <2>2. RunStarts(r)
    <3>1. call[r].outcome \in Endings
      BY <1>0 DEF Calls
    <3>. QED  BY <1>2, <3>1, StartedRuns DEF CollectClosed
  <2>3. Goes(r, "inline") \/ Goes(r, "failing")
    BY <1>2, Going DEF CollectClosed, Phases
  <2>4. pc[r] = "letgo" /\ UNCHANGED <<closer, record, hold, cancels, hit, broken>>
    BY <1>2 DEF CollectClosed
  <2>5. TypeOK'
    BY <2>1, <2>2, <2>3, <2>4 DEF RunStarts, Goes, CallBecomes, TypeOK
  <2>6. Leased(r)'
    BY <1>0, <2>1, <2>3, <2>4, CallChanges DEF Goes, CallBecomes
  <2>7. Recorded(r)'
    BY <2>2, <2>3, <2>4 DEF RunStarts, Goes
  <2>8. \A q \in Requests \ {r} : Same(q)
    BY <2>1, <2>2, <2>3, <2>4 DEF RunStarts, Goes, CallBecomes
  <2>. QED  BY <2>5, <2>6, <2>7, <2>8
<1>3. CASE InlineDone(r) \/ FailingDone(r) \/ StartStream(r)
  <2>1. Goes(r, "done") \/ Goes(r, "streaming")
    BY <1>3, Going DEF InlineDone, FailingDone, StartStream, Phases
  <2>2. pc[r] \in {"inline", "failing", "last", "unstarted"}
        /\ (pc[r] # "unstarted" => Goes(r, "done"))
    BY <1>3, Going DEF InlineDone, FailingDone, StartStream, Phases
  <2>3. UNCHANGED <<call, fin, closer, record, hold, free, cancels, hit, broken>>
    BY <1>3 DEF InlineDone, FailingDone, StartStream
  <2>. QED  BY <2>1, <2>2, <2>3 DEF Goes, TypeOK
<1>4. CASE Deliver(r)
  <2>1. \E d : call' = [call EXCEPT ![r] = d] /\ SameLease(call[r], d)
    <3>1. CASE call' = [call EXCEPT ![r].delivered = TRUE]
      BY <1>0, <3>1, Outcomes DEF TypeOK, Endings
    <3>2. CASE \E known \in BOOLEAN : call' = [call EXCEPT ![r] = Answered(@, known)]
      <4>1. PICK known \in BOOLEAN : call' = [call EXCEPT ![r] = Answered(call[r], known)]
        BY <3>2, Zenon DEF TypeOK
      <4>. QED  BY <1>0, <4>1, AnsweredCall DEF SameLease
    <3>. QED  BY <1>4, <3>1, <3>2, Zenon DEF Deliver
  <2>2. PICK d : call' = [call EXCEPT ![r] = d] /\ SameLease(call[r], d)
    BY <2>1
  <2>3. CallBecomes(r, d)
    BY <2>2, CallChange DEF SameLease
  <2>4. pc[r] = "streaming" /\ UNCHANGED <<pc, fin, closer, record, hold, free, cancels, hit, broken>>
    BY <1>4 DEF Deliver
  <2>. QED  BY <2>2, <2>3, <2>4 DEF SameLease, CallBecomes, TypeOK
<1>5. CASE StreamEnds(r) \/ StreamFinished(r)
  <2>1. Goes(r, "closing") /\ pc[r] \in Holding \cap {"streaming", "finishing"}
    BY <1>5, Going DEF StreamEnds, StreamFinished, Phases
  <2>2. closer' = [closer EXCEPT ![r] = "aclose"] /\ UNCHANGED <<call, fin, record, hold, free, cancels, hit, broken>>
    BY <1>5 DEF StreamEnds, StreamFinished
  <2>. QED  BY <2>1, <2>2 DEF Goes, TypeOK
<1>6. CASE StreamFails(r)
  <2>1. RunStarts(r) /\ Goes(r, "finishing")
    BY <1>6, StartedRuns, Going DEF StreamFails, Phases, Endings
  <2>2. pc[r] = "streaming" /\ UNCHANGED <<call, closer, record, hold, free, cancels, hit, broken>>
    BY <1>6 DEF StreamFails
  <2>. QED  BY <2>1, <2>2 DEF RunStarts, Goes, TypeOK
<1>7. CASE StreamClosed(r)
  <2>1. \/ Goes(r, "done") /\ fin' = fin
        \/ Goes(r, "last") /\ RunStarts(r)
    <3>1. CASE call[r].finalized
      BY <1>7, <3>1, Going DEF StreamClosed, Phases
    <3>2. CASE ~call[r].finalized
      BY <1>7, <3>2, StartedRuns, Going DEF StreamClosed, Phases, Endings
    <3>. QED  BY <3>1, <3>2
  <2>2. pc[r] = "closing" /\ UNCHANGED <<call, closer, record, hold, free, cancels, hit, broken>>
    BY <1>7 DEF StreamClosed
  <2>. QED  BY <2>1, <2>2 DEF RunStarts, Goes, TypeOK
<1>. QED  BY <1>1, <1>2, <1>3, <1>4, <1>5, <1>6, <1>7 DEF PassOn

LEMMA TasksKept ==
  ASSUME NEW r \in Requests, TypeOK, Leased(r), Recorded(r), Tasks(r)
  PROVE  Kept(r)
<1>. USE BoundsAssumption, NoAccountAssumption
     DEF Kept, Leased, Recorded, Same, Early, Asking, Holding
<1>0. call[r] \in Calls
  BY DEF TypeOK
<1>1. CASE CloseLease(r)
  <2>1. CallBecomes(r, Freed(call[r])) /\ free' \in [Accounts -> Nat]
    BY <1>0, <1>1, CallChanges, CallChange, Returning DEF CloseLease, TypeOK
  <2>2. closer[r] = "aclose" /\ closer' = [closer EXCEPT ![r] = "end"]
        /\ UNCHANGED <<pc, fin, record, hold, cancels, hit, broken>>
    BY <1>1 DEF CloseLease
  <2>. QED  BY <1>0, <2>1, <2>2, CallChanges, ZenonT(60) DEF CallBecomes, TypeOK
<1>2. ASSUME NEW s \in Slots, FinishStep(r, s) PROVE Kept(r)
  <2>0. fin[r][s] \in Finishes /\ fin[r][s].status \in Endings
    BY DEF TypeOK, Finishes
  <2>s. ASSUME NEW step \in Steps, To(r, s, step)
        PROVE  /\ fin' \in [Requests -> [Slots -> Finishes]] /\ fin'[r][s].step = step
               /\ \A q \in Requests \ {r} : fin'[q] = fin[q]
               /\ \A t \in Slots \ {s} : fin'[r][t] = fin[r][t]
    <3>. DEFINE f == [fin[r][s] EXCEPT !.step = step]
    <3>1. f \in Finishes /\ f.step = step
      BY <2>0 DEF Finishes
    <3>2. fin' = [fin EXCEPT ![r] = [fin[r] EXCEPT ![s] = f]]
      BY <2>s DEF To, TypeOK
    <3>. HIDE DEF f
    <3>. QED  BY <3>1, <3>2 DEF TypeOK
  <2>1. CASE FinishCheck(r, s)
    <3>1. fin[r][s].step = "check" /\ UNCHANGED <<pc, call, closer, record, hold, free, cancels, hit, broken>>
      BY <2>1 DEF FinishCheck
    <3>2. To(r, s, "end") \/ To(r, s, "finalize")
      BY <2>1 DEF FinishCheck, After
    <3>. QED  BY <2>s, <3>1, <3>2, ZenonT(60) DEF TypeOK, Steps
  <2>2. CASE FinishRecord(r, s)
    <3>1. /\ fin[r][s].step = "finalize" /\ record' = [record EXCEPT ![r] = Finalized(r, s)]
          /\ To(r, s, "settle") /\ UNCHANGED <<pc, call, closer, hold, free, cancels, hit, broken>>
      BY <2>2 DEF FinishRecord, After
    <3>2. Finalized(r, s) \in Endings
      BY <2>0, <3>1 DEF Finalized, TypeOK, RecordStates
    <3>. QED  BY <2>s, <3>1, <3>2 DEF TypeOK, Steps, RecordStates, Endings
  <2>3. CASE FinishSettle(r, s)
    <3>1. /\ fin[r][s].step = "settle" /\ hold' = [hold EXCEPT ![r] = Settled(r, fin[r][s].status)]
          /\ To(r, s, "release") /\ UNCHANGED <<pc, call, closer, record, free, cancels, hit, broken>>
      BY <2>3 DEF FinishSettle, After
    <3>2. Settled(r, fin[r][s].status) \in HoldStates
      BY DEF Settled, TypeOK, HoldStates
    <3>. QED  BY <2>s, <3>1, <3>2 DEF TypeOK, Steps
  <2>4. CASE FinishRelease(r, s)
    <3>. DEFINE d == [call[r] EXCEPT !.finalized = TRUE]
    <3>1. /\ fin[r][s].step = "release" /\ call' = [call EXCEPT ![r] = d]
          /\ To(r, s, "end") /\ UNCHANGED <<pc, closer, record, hold, free, cancels, hit, broken>>
      BY <2>4 DEF FinishRelease, TypeOK
    <3>2. SameLease(call[r], d)
      BY <1>0, Outcomes DEF Endings
    <3>. HIDE DEF d
    <3>3. CallBecomes(r, d)
      BY <3>1, <3>2, CallChange DEF SameLease
    <3>4. /\ fin' \in [Requests -> [Slots -> Finishes]] /\ fin'[r][s].step = "end"
          /\ \A q \in Requests \ {r} : fin'[q] = fin[q]
          /\ \A t \in Slots \ {s} : fin'[r][t] = fin[r][t]
      BY <2>s, <3>1 DEF Steps
    <3>5. TypeOK'
      BY <3>1, <3>3, <3>4 DEF TypeOK, CallBecomes
    <3>6. Leased(r)'
      BY <3>1, <3>2, <3>3 DEF SameLease, CallBecomes
    <3>7. Recorded(r)'
      BY <3>1, <3>4
    <3>8. \A q \in Requests \ {r} : Same(q)
      BY <3>1, <3>3, <3>4 DEF CallBecomes
    <3>. QED  BY <3>5, <3>6, <3>7, <3>8
  <2>5. CASE FinishFails(r, s)
    <3>1. /\ fin[r][s].step \in {"finalize", "settle"} /\ To(r, s, "release")
          /\ UNCHANGED <<pc, call, closer, record, hold, free, cancels, hit>>
      BY <2>5 DEF FinishFails
    <3>2. broken' \in [Requests -> SUBSET Breaks]
      BY <2>5, <3>1 DEF FinishFails, Broke, Breaks, TypeOK
    <3>3. /\ fin' \in [Requests -> [Slots -> Finishes]] /\ fin'[r][s].step = "release"
          /\ \A q \in Requests \ {r} : fin'[q] = fin[q]
          /\ \A t \in Slots \ {s} : fin'[r][t] = fin[r][t]
      BY <2>s, <3>1 DEF Steps
    <3>4. Recorded(r)'
      BY <3>1, <3>3
    <3>. QED  BY <3>1, <3>2, <3>3, <3>4 DEF TypeOK
  <2>. QED  BY <1>2, <2>1, <2>2, <2>3, <2>4, <2>5 DEF FinishStep
<1>. QED  BY <1>1, <1>2 DEF Tasks

LEMMA Cancelling ==
  ASSUME TypeOK, NEW r \in Requests, NEW ps, Cancelled(r, ps)
  PROVE  /\ pc[r] \in ps /\ cancels' \in [Requests -> 0..MaxCancels]
         /\ hit' \in [Requests -> Phases \cup {"never"}] /\ broken' = broken
<1>1. cancels[r] + 1 \in 0..MaxCancels
  BY BoundsAssumption DEF TypeOK, Cancelled
<1>2. cancels' = [cancels EXCEPT ![r] = cancels[r] + 1]
  BY DEF Cancelled, TypeOK
<1>3. cancels' \in [Requests -> 0..MaxCancels]
  BY <1>1, <1>2 DEF TypeOK
<1>. QED  BY <1>3 DEF Cancelled, TypeOK

LEMMA CancelKept ==
  ASSUME NEW r \in Requests, TypeOK, Leased(r), Recorded(r), Cancel(r)
  PROVE  Kept(r)
<1>. USE BoundsAssumption, NoAccountAssumption
     DEF Kept, Leased, Recorded, Same, Early, Asking, Holding
<1>0. call[r] \in Calls
  BY DEF TypeOK
<1>1. CASE CancelBegin(r)
  <2>1. pc[r] \in {"reserving", "recording"} /\ cancels' \in [Requests -> 0..MaxCancels]
        /\ hit' \in [Requests -> Phases \cup {"never"}] /\ broken' = broken /\ Goes(r, "rerecord")
    BY <1>1, Cancelling, Going DEF CancelBegin, Phases
  <2>2. \/ UNCHANGED <<hold, record>>
        \/ hold' = [hold EXCEPT ![r] = "reserved"] /\ UNCHANGED record
        \/ record' = [record EXCEPT ![r] = "in_progress"] /\ UNCHANGED hold
    BY <1>1 DEF CancelBegin
  <2>3. UNCHANGED <<call, fin, closer, free>>
    BY <1>1 DEF CancelBegin
  <2>. QED  BY <2>1, <2>2, <2>3, ZenonT(60) DEF Goes, TypeOK, HoldStates, RecordStates, Endings
<1>2. CASE CancelReRecord(r)
  <2>1. pc[r] = "rerecord" /\ cancels' \in [Requests -> 0..MaxCancels]
        /\ hit' \in [Requests -> Phases \cup {"never"}] /\ broken' = broken /\ Goes(r, "done")
    BY <1>2, Cancelling, Going DEF CancelReRecord, Phases
  <2>2. hold' = hold \/ hold' = [hold EXCEPT ![r] = "reserved"]
    BY <1>2 DEF CancelReRecord
  <2>3. record' = record \/ (record[r] = "none" /\ record' = [record EXCEPT ![r] = "in_progress"])
    BY <1>2 DEF CancelReRecord
  <2>4. UNCHANGED <<call, fin, closer, free>>
    BY <1>2 DEF CancelReRecord
  <2>5. hold' \in [Requests -> HoldStates] /\ record' \in [Requests -> RecordStates]
    BY <2>2, <2>3 DEF TypeOK, HoldStates, RecordStates
  <2>6. /\ hold'[r] = hold[r] \/ hold'[r] = "reserved"
        /\ record'[r] = record[r] \/ record[r] = "none"
        /\ \A q \in Requests \ {r} : hold'[q] = hold[q] /\ record'[q] = record[q]
    BY <2>2, <2>3 DEF TypeOK
  <2>7. record'[r] # "none" \/ record'[r] = record[r]
    BY <2>3 DEF TypeOK
  <2>8. Recorded(r)'
    BY <2>1, <2>4, <2>6, <2>7 DEF Goes, Endings
  <2>. QED  BY <2>1, <2>4, <2>5, <2>6, <2>8 DEF Goes, TypeOK
<1>3. CASE CancelChoosing(r)
  <2>1. pc[r] \in {"choosing", "waiting"} /\ cancels' \in [Requests -> 0..MaxCancels]
        /\ hit' \in [Requests -> Phases \cup {"never"}] /\ broken' = broken /\ Goes(r, "failing") /\ RunStarts(r)
    BY <1>3, Cancelling, Failing DEF CancelChoosing, Endings
  <2>2. UNCHANGED <<call, closer, record, hold, free>>
    BY <1>3 DEF CancelChoosing
  <2>. QED  BY <2>1, <2>2 DEF Goes, RunStarts, TypeOK
<1>4. CASE CancelSending(r) \/ CancelLetGo(r)
  <2>1. pc[r] \in {"sending", "letgo"} /\ cancels' \in [Requests -> 0..MaxCancels]
        /\ hit' \in [Requests -> Phases \cup {"never"}] /\ broken' = broken /\ Goes(r, "failing") /\ RunStarts(r)
    BY <1>4, Cancelling, Failing DEF CancelSending, CancelLetGo, Endings
  <2>2. call' = [call EXCEPT ![r] = Orphaned(call[r])] /\ UNCHANGED <<closer, record, hold, free>>
    BY <1>4 DEF CancelSending, CancelLetGo, TypeOK
  <2>3. CallBecomes(r, Orphaned(call[r]))
    BY <1>0, <2>2, CallChange, CallChanges
  <2>4. TypeOK'
    BY <2>1, <2>2, <2>3 DEF Goes, RunStarts, CallBecomes, TypeOK
  <2>5. Leased(r)'
    BY <1>0, <2>1, <2>2, <2>3, CallChanges DEF Goes, CallBecomes
  <2>6. Recorded(r)'
    BY <2>1, <2>2 DEF Goes, RunStarts
  <2>7. \A q \in Requests \ {r} : Same(q)
    BY <2>1, <2>2, <2>3 DEF Goes, RunStarts, CallBecomes
  <2>. QED  BY <2>4, <2>5, <2>6, <2>7
<1>5. CASE CancelGuarded(r)
  <2>1. pc[r] = "sending" /\ cancels' \in [Requests -> 0..MaxCancels]
        /\ hit' \in [Requests -> Phases \cup {"never"}] /\ broken' = broken /\ UNCHANGED <<closer, record, hold>>
    BY <1>5, Cancelling DEF CancelGuarded
  <2>2. CASE free' = Return(r) /\ call' = [call EXCEPT ![r] = Freed(@)] /\ Fail(r, "interrupted")
    <3>1. CallBecomes(r, Freed(call[r])) /\ free' \in [Accounts -> Nat]
      BY <1>0, <2>2, CallChange, CallChanges, Returning DEF TypeOK
    <3>2. Goes(r, "failing") /\ RunStarts(r)
      BY <2>2, Failing DEF Endings
    <3>3. TypeOK'
      BY <2>1, <3>1, <3>2 DEF Goes, RunStarts, CallBecomes, TypeOK
    <3>4. Leased(r)'
      BY <1>0, <2>1, <3>1, <3>2, CallChanges DEF Goes, CallBecomes
    <3>5. Recorded(r)'
      BY <2>1, <3>2 DEF Goes, RunStarts
    <3>6. \A q \in Requests \ {r} : Same(q)
      BY <2>1, <3>1, <3>2 DEF Goes, RunStarts, CallBecomes
    <3>. QED  BY <3>3, <3>4, <3>5, <3>6
  <2>3. CASE /\ call' = [call EXCEPT ![r].outcome = "interrupted"]
             /\ Goto(r, "letgo") /\ UNCHANGED <<free, fin>>
    <3>. DEFINE d == [call[r] EXCEPT !.outcome = "interrupted"]
    <3>1. call' = [call EXCEPT ![r] = d] /\ SameLease(call[r], d)
      BY <1>0, <2>3, Outcomes DEF TypeOK, Endings
    <3>. HIDE DEF d
    <3>2. CallBecomes(r, d) /\ Goes(r, "letgo")
      BY <2>3, <3>1, CallChange, Going DEF SameLease, Phases
    <3>3. TypeOK'
      BY <2>1, <2>3, <3>2 DEF Goes, CallBecomes, TypeOK
    <3>4. Leased(r)'
      BY <2>1, <2>3, <3>1, <3>2 DEF Goes, SameLease, CallBecomes
    <3>5. Recorded(r)'
      BY <2>1, <2>3, <3>2 DEF Goes
    <3>6. \A q \in Requests \ {r} : Same(q)
      BY <2>1, <2>3, <3>2 DEF Goes, CallBecomes
    <3>. QED  BY <3>3, <3>4, <3>5, <3>6
  <2>. QED  BY <1>5, <2>2, <2>3 DEF CancelGuarded
<1>6. CASE CancelUnstarted(r)
  <2>. DEFINE d == [call[r] EXCEPT !.permit = "lost"]
  <2>1. pc[r] = "unstarted" /\ cancels' \in [Requests -> 0..MaxCancels]
        /\ hit' \in [Requests -> Phases \cup {"never"}] /\ broken' = broken /\ Goes(r, "done")
    BY <1>6, Cancelling, Going DEF CancelUnstarted, Phases
  <2>2. call' = [call EXCEPT ![r] = d] /\ UNCHANGED <<fin, closer, record, hold, free>>
    BY <1>6 DEF CancelUnstarted, TypeOK
  <2>3. d \in Calls /\ d.permit = "lost" /\ d.account = call[r].account
    BY <1>0 DEF Calls
  <2>. HIDE DEF d
  <2>4. CallBecomes(r, d)
    BY <2>2, <2>3, CallChange
  <2>. QED  BY <2>1, <2>2, <2>3, <2>4 DEF Goes, CallBecomes, TypeOK
<1>7. CASE CancelStreaming(r)
  <2>1. pc[r] = "streaming" /\ cancels' \in [Requests -> 0..MaxCancels]
        /\ hit' \in [Requests -> Phases \cup {"never"}] /\ broken' = broken /\ Goes(r, "finishing") /\ RunStarts(r)
    BY <1>7, Cancelling, StartedRuns, Going DEF CancelStreaming, Endings, Phases
  <2>2. UNCHANGED <<call, closer, record, hold, free>>
    BY <1>7 DEF CancelStreaming
  <2>. QED  BY <2>1, <2>2 DEF Goes, RunStarts, TypeOK
<1>8. CASE CancelCollecting(r)
  <2>. DEFINE d == [call[r] EXCEPT !.outcome = "interrupted"]
  <2>1. pc[r] = "collecting" /\ cancels' \in [Requests -> 0..MaxCancels]
        /\ hit' \in [Requests -> Phases \cup {"never"}] /\ broken' = broken /\ Goes(r, "letgo")
    BY <1>8, Cancelling, Going DEF CancelCollecting, Phases
  <2>2. call' = [call EXCEPT ![r] = d] /\ SameLease(call[r], d)
        /\ UNCHANGED <<fin, closer, record, hold, free>>
    BY <1>0, <1>8, Outcomes DEF CancelCollecting, TypeOK, Endings
  <2>. HIDE DEF d
  <2>3. CallBecomes(r, d)
    BY <2>2, CallChange DEF SameLease
  <2>. QED  BY <2>1, <2>2, <2>3 DEF Goes, SameLease, CallBecomes, TypeOK
<1>9. CASE CancelFailing(r) \/ CancelFinishing(r) \/ CancelClosing(r)
  <2>1. pc[r] \in {"failing", "last", "finishing", "closing"} /\ cancels' \in [Requests -> 0..MaxCancels]
        /\ hit' \in [Requests -> Phases \cup {"never"}] /\ broken' = broken
    BY <1>9, Cancelling DEF CancelFailing, CancelFinishing, CancelClosing
  <2>2. \/ Goes(r, "done") /\ closer' = closer
        \/ Goes(r, "closing") /\ closer' = [closer EXCEPT ![r] = "aclose"] /\ pc[r] = "finishing"
    BY <1>9, Going, Cancelling DEF CancelFailing, CancelFinishing, CancelClosing, Phases
  <2>3. UNCHANGED <<call, fin, record, hold, free>>
    BY <1>9 DEF CancelFailing, CancelFinishing, CancelClosing, Shielded
  <2>. QED  BY <2>1, <2>2, <2>3 DEF Goes, TypeOK
<1>10. CASE CancelInline(r)
  <2>. DEFINE step == fin[r][1].step
              one == [fin[r][1] EXCEPT !.step = IF step \in {"check", "release"} THEN "end" ELSE "release"]
              new == [step |-> "check", status |-> "interrupted"]
  <2>1. pc[r] = "inline" /\ cancels' \in [Requests -> 0..MaxCancels]
        /\ hit' \in [Requests -> Phases \cup {"never"}] /\ broken' = broken /\ UNCHANGED <<call, closer, free>>
    BY <1>10, Cancelling DEF CancelInline
  <2>2. Goes(r, "failing") \/ Goes(r, "inline")
    BY <1>10, Going DEF CancelInline, Phases
  <2>3. fin[r] \in [Slots -> Finishes] /\ 1 \in Slots /\ 2 \in Slots /\ step \in Steps
    BY DEF TypeOK, Slots, Finishes
  <2>4. one \in Finishes /\ one.step \in {"end", "release"} /\ new \in Finishes /\ new.step = "check"
    BY <2>3 DEF Finishes, Steps, Endings
  <2>5. fin' \in {[fin EXCEPT ![r] = [fin[r] EXCEPT ![1] = one]],
                [fin EXCEPT ![r] = [[fin[r] EXCEPT ![1] = one] EXCEPT ![2] = new]]}
    BY <1>10, <2>3 DEF CancelInline, TypeOK
  <2>6. record' = record \/ (step = "finalize" /\ record' = [record EXCEPT ![r] = Finalized(r, 1)])
    BY <1>10 DEF CancelInline
  <2>7. hold' = hold \/ (step = "settle" /\ hold' = [hold EXCEPT ![r] = Settled(r, fin[r][1].status)])
    BY <1>10 DEF CancelInline
  <2>8. step = "finalize" => Finalized(r, 1) \in Endings
    BY <2>3 DEF Finalized, TypeOK, RecordStates, Finishes
  <2>9. Settled(r, fin[r][1].status) \in HoldStates
    BY DEF Settled, TypeOK, HoldStates
  <2>10. /\ fin' \in [Requests -> [Slots -> Finishes]]
         /\ \A q \in Requests \ {r} : fin'[q] = fin[q]
         /\ \A s \in Slots : fin'[r][s] = fin[r][s] \/ fin'[r][s].step \in {"end", "release", "check"}
    <3>. HIDE DEF one, new
    <3>. QED  BY <2>3, <2>4, <2>5 DEF TypeOK, Slots
  <2>. HIDE DEF one, new
  <2>r. /\ record' \in [Requests -> RecordStates]
        /\ record[r] # "none" /\ (record'[r] = record[r] \/ record'[r] \in Endings)
        /\ \A q \in Requests \ {r} : record'[q] = record[q]
    <3>1. CASE record' = record
      BY <2>1, <3>1 DEF TypeOK
    <3>2. CASE step = "finalize" /\ record' = [record EXCEPT ![r] = Finalized(r, 1)]
      BY <2>1, <2>8, <3>2 DEF TypeOK, RecordStates
    <3>. QED  BY <2>6, <3>1, <3>2
  <2>h. /\ hold' \in [Requests -> HoldStates]
        /\ hold'[r] = hold[r] \/ record[r] \in Endings
        /\ \A q \in Requests \ {r} : hold'[q] = hold[q]
    BY <2>3, <2>7, <2>9 DEF TypeOK
  <2>11. TypeOK'
    BY <2>1, <2>2, <2>r, <2>h, <2>10 DEF TypeOK, Goes
  <2>12. Leased(r)'
    BY <2>1, <2>2 DEF Goes
  <2>13. Recorded(r)'
    BY <2>1, <2>2, <2>r, <2>h, <2>10 DEF Goes, Endings
  <2>14. \A q \in Requests \ {r} : Same(q)
    BY <2>1, <2>2, <2>r, <2>h, <2>10 DEF Goes
  <2>. QED  BY <2>11, <2>12, <2>13, <2>14
<1>. QED  BY <1>1, <1>2, <1>3, <1>4, <1>5, <1>6, <1>7, <1>8, <1>9, <1>10 DEF Cancel

-----------------------------------------------------------------------------
(* Types, and the record before the money *)

LEMMA LocalStep == TypeOK /\ Local /\ [Next]_vars => TypeOK' /\ Local'
<1>. SUFFICES ASSUME TypeOK, Local, [Next]_vars PROVE TypeOK' /\ Local'
  OBVIOUS
<1>1. ASSUME NEW r \in Requests, Run(r) \/ Tasks(r) \/ Cancel(r)
      PROVE  TypeOK' /\ Local'
  <2>1. Leased(r) /\ Recorded(r)
    BY DEF Local
  <2>2. Kept(r)
    BY <1>1, <2>1, BeginKept, AskKept, PassOnKept, TasksKept, CancelKept DEF Run
  <2>3. ASSUME NEW q \in Requests \ {r} PROVE Leased(q)' /\ Recorded(q)'
    BY <2>2, <2>3 DEF Kept, Same, Local, Leased, Recorded
  <2>. QED  BY <2>2, <2>3 DEF Kept, Local
<1>2. CASE UNCHANGED vars
  BY <1>2 DEF vars, TypeOK, Local, Leased, Recorded
<1>. QED  BY <1>1, <1>2 DEF Next

LEMMA LocalAlways == Spec => [](TypeOK /\ Local)
<1>1. Init => TypeOK /\ Local
  BY LocalInit
<1>2. TypeOK /\ Local /\ [Next]_vars => (TypeOK /\ Local)'
  BY LocalStep
<1>. QED  BY <1>1, <1>2, PTL DEF Spec

\* The context, the shielded tasks, the rows and the semaphores keep their
\* types, for any number of requests, accounts, attempts and cancellations.
THEOREM CallTypes == Spec => []TypeOK
<1>1. TypeOK /\ Local => TypeOK
  OBVIOUS
<1>. QED  BY <1>1, LocalAlways, PTL

\* The money of a call is only touched when its record says how it ended
\* (finish_call), whatever runs it takes and however often it is cancelled.
THEOREM RecordFirstAlways == Spec => []RecordFirst
<1>1. TypeOK /\ Local => RecordFirst
  BY DEF Local, Recorded, RecordFirst
<1>. QED  BY <1>1, LocalAlways, PTL

-----------------------------------------------------------------------------
(* Permits are conserved *)

Holders(c, a) == {r \in Requests : c[r].permit # "none" /\ c[r].account = a}
Conserved == \A a \in Accounts : free[a] + Cardinality(Holders(call, a)) <= Limit

\* What a step of r does with permits: nothing, or it only loses one; it takes
\* one; or it gives one back.
Unmoved ==
  /\ free' = free
  /\ \A q \in Requests : call'[q].permit # "none" =>
       call[q].permit # "none" /\ call'[q].account = call[q].account
Others(r) == \A q \in Requests \ {r} : call'[q] = call[q]
Takes(r) ==
  /\ free[call[r].account] > 0 /\ call[r].account \in Accounts
  /\ free' = [free EXCEPT ![call[r].account] = @ - 1]
  /\ call'[r].account = call[r].account /\ Others(r)
Gives(r) ==
  /\ call[r].permit # "none" /\ call[r].account \in Accounts
  /\ free' = Return(r) /\ call'[r].permit = "none" /\ Others(r)

LEMMA Giving ==
  ASSUME TypeOK, NEW r \in Requests, NEW c \in Calls, c.permit = "none", Leased(r),
         call[r].permit # "none", call' = [call EXCEPT ![r] = c], free' = Return(r)
  PROVE  Gives(r)
BY CallChange DEF CallBecomes, Gives, Others, Leased

LEMMA Losing ==
  ASSUME TypeOK, NEW r \in Requests, NEW c \in Calls, call' = [call EXCEPT ![r] = c],
         free' = free,
         c.permit # "none" => call[r].permit # "none" /\ c.account = call[r].account
  PROVE  Unmoved
BY CallChange DEF CallBecomes, Unmoved

LEMMA Moving ==
  ASSUME TypeOK, Local, ~OddJson, NEW r \in Requests, Run(r) \/ Tasks(r) \/ Cancel(r)
  PROVE  Unmoved \/ Takes(r) \/ Gives(r)
<1>0. /\ call[r] \in Calls /\ Leased(r)
      /\ pc[r] \in Holding => call[r].permit = "held"
      /\ closer[r] = "aclose" => call[r].permit = "held"
      /\ pc[r] \in Asking => call[r].permit = "none"
  BY DEF TypeOK, Local, Leased
<1>f. Freed(call[r]) \in Calls /\ Freed(call[r]).permit = "none"
  BY <1>0, CallChanges
<1>o. Orphaned(call[r]) \in Calls /\ Orphaned(call[r]).account = call[r].account
  BY <1>0, CallChanges
<1>s. ASSUME NEW d, SameLease(call[r], d), call' = [call EXCEPT ![r] = d], free' = free
      PROVE  Unmoved
  BY <1>s, Losing DEF SameLease
<1>1. CASE UNCHANGED <<call, free>>
  BY <1>1 DEF Unmoved
<1>2. CASE Acquire(r)
  <2>. DEFINE c == [call[r] EXCEPT !.permit = "held", !.live = TRUE]
  <2>1. c \in Calls /\ c.account = call[r].account
    BY <1>0 DEF Calls
  <2>2. call' = [call EXCEPT ![r] = c]
    BY <1>2 DEF Acquire, TypeOK
  <2>. HIDE DEF c
  <2>3. CallBecomes(r, c)
    BY <2>1, <2>2, CallChange
  <2>4. call[r].account \in Accounts
    BY <1>0, <1>2 DEF Acquire, Leased
  <2>. QED  BY <1>2, <2>1, <2>3, <2>4 DEF Acquire, Takes, Others, CallBecomes
<1>3. ASSUME NEW a \in Accounts, Attempt(r, a) PROVE Unmoved
  <2>1. call[r].attempts < MaxAttempts /\ pc[r] = "choosing" /\ free' = free
        /\ call' = [call EXCEPT ![r] = Noted(call[r], a)]
    BY <1>0, <1>3 DEF Attempt, Leased, TypeOK
  <2>2. Noted(call[r], a) \in Calls /\ Noted(call[r], a).permit = "none"
    BY <1>0, <2>1, NotedCall DEF Asking
  <2>. QED  BY <2>1, <2>2, Losing
<1>4. CASE SendFails(r) \/ CollectClosed(r) \/ CloseLease(r)
  <2>1. call' = [call EXCEPT ![r] = Freed(call[r])] /\ free' = Return(r)
        /\ (pc[r] \in Holding \/ closer[r] = "aclose")
    BY <1>4 DEF SendFails, CollectClosed, CloseLease, Holding, TypeOK
  <2>. QED  BY <1>0, <1>f, <2>1, Giving
<1>5. CASE JsonAnswered(r)
  <2>1. PICK known \in BOOLEAN : call' = [call EXCEPT ![r] = Answered(Freed(call[r]), known)]
    BY <1>5, Zenon DEF JsonAnswered, TypeOK
  <2>2. Answered(Freed(call[r]), known) \in Calls /\ Answered(Freed(call[r]), known).permit = "none"
    BY <1>f, AnsweredCall
  <2>3. pc[r] \in Holding /\ free' = Return(r)
    BY <1>5 DEF JsonAnswered, Holding
  <2>. QED  BY <1>0, <2>1, <2>2, <2>3, Giving
<1>6. CASE Collect(r) \/ Deliver(r)
  <2>1. free' = free
    BY <1>6 DEF Collect, Deliver
  <2>2. CASE \E known \in BOOLEAN : call' = [call EXCEPT ![r] = Answered(@, known)]
    <3>1. PICK known \in BOOLEAN : call' = [call EXCEPT ![r] = Answered(call[r], known)]
      BY <2>2, Zenon DEF TypeOK
    <3>. QED  BY <1>0, <1>s, <2>1, <3>1, AnsweredCall DEF SameLease
  <2>3. CASE \E known \in BOOLEAN, outcome \in {"success", "failed"} :
               call' = [call EXCEPT ![r] = [Answered(@, known) EXCEPT !.outcome = outcome]]
    <3>1. PICK known \in BOOLEAN, outcome \in {"success", "failed"} :
               call' = [call EXCEPT ![r] = [Answered(call[r], known) EXCEPT !.outcome = outcome]]
      BY <2>3, Zenon DEF TypeOK
    <3>2. SameLease(call[r], Answered(call[r], known))
      BY <1>0, AnsweredCall DEF SameLease
    <3>3. SameLease(Answered(call[r], known), [Answered(call[r], known) EXCEPT !.outcome = outcome])
      <4>1. outcome \in Endings /\ Answered(call[r], known) \in Calls
        BY <3>2 DEF SameLease, Endings
      <4>. QED  BY ONLY <4>1, Outcomes
    <3>4. SameLease(call[r], [Answered(call[r], known) EXCEPT !.outcome = outcome])
      BY <3>2, <3>3 DEF SameLease
    <3>. QED  BY <1>s, <2>1, <3>1, <3>4
  <2>4. CASE \/ call' = [call EXCEPT ![r].outcome = "failed"]
             \/ call' = [call EXCEPT ![r].delivered = TRUE]
    BY <1>0, <1>s, <2>1, <2>4, Outcomes DEF Endings
  <2>. QED  BY <1>6, <2>2, <2>3, <2>4, Zenon DEF Collect, Deliver
<1>7. ASSUME NEW s \in Slots, FinishRelease(r, s) PROVE Unmoved
  BY <1>0, <1>7, <1>s, Outcomes DEF FinishRelease, Endings
<1>8. CASE CancelSending(r) \/ CancelLetGo(r)
  <2>1. call' = [call EXCEPT ![r] = Orphaned(call[r])] /\ free' = free /\ pc[r] \in Holding
    BY <1>8 DEF CancelSending, CancelLetGo, Cancelled, Holding, TypeOK
  <2>. QED  BY <1>0, <1>o, <2>1, Losing
<1>9. CASE CancelGuarded(r)
  <2>0. pc[r] \in Holding
    BY <1>9 DEF CancelGuarded, Cancelled, Holding
  <2>1. CASE free' = Return(r) /\ call' = [call EXCEPT ![r] = Freed(@)]
    BY <1>0, <1>f, <2>0, <2>1, Giving
  <2>2. CASE free' = free /\ call' = [call EXCEPT ![r].outcome = "interrupted"]
    BY <1>0, <1>s, <2>2, Outcomes DEF Endings
  <2>. QED  BY <1>9, <2>1, <2>2 DEF CancelGuarded
<1>10. CASE CancelUnstarted(r)
  <2>. DEFINE d == [call[r] EXCEPT !.permit = "lost"]
  <2>1. call' = [call EXCEPT ![r] = d] /\ free' = free /\ pc[r] \in Holding
    BY <1>10 DEF CancelUnstarted, Cancelled, Holding, TypeOK
  <2>2. d \in Calls /\ d.account = call[r].account
    BY <1>0 DEF Calls
  <2>. HIDE DEF d
  <2>. QED  BY <1>0, <2>1, <2>2, Losing
<1>b. CASE SendBreaks(r)
  <2>1. call' = [call EXCEPT ![r] = Orphaned(call[r])] /\ free' = free /\ pc[r] \in Holding
    BY <1>b DEF SendBreaks, Holding, TypeOK
  <2>. QED  BY <1>0, <1>o, <2>1, Losing
<1>n. ASSUME NEW a \in Accounts, AttemptFails(r, a) PROVE Unmoved
  <2>1. call[r].attempts < MaxAttempts /\ pc[r] = "choosing" /\ free' = free
        /\ (call' = call \/ call' = [call EXCEPT ![r] = Noted(call[r], a)])
    BY <1>0, <1>n DEF AttemptFails, Leased, TypeOK
  <2>2. Noted(call[r], a) \in Calls /\ Noted(call[r], a).permit = "none"
    BY <1>0, <2>1, NotedCall DEF Asking
  <2>3. CASE UNCHANGED <<call, free>>
    BY <2>3 DEF Unmoved
  <2>. QED  BY <2>1, <2>2, <2>3, Losing
<1>11. CASE CancelCollecting(r)
  BY <1>0, <1>11, <1>s, Outcomes DEF CancelCollecting, Endings
<1>12. CASE Begin(r)
  BY <1>1, <1>12 DEF Begin, Arrive, Reserve, ReserveRefused, Record, BeginFails, ReRecord, ReRecordFails
<1>13. CASE Ask(r)
  BY <1>1, <1>2, <1>3, <1>4, <1>5, <1>b, <1>n, <1>13 DEF Ask, ChooseFails, WaitFails, SendSucceeds, JsonOdd
<1>14. CASE PassOn(r)
  BY <1>1, <1>4, <1>6, <1>14
  DEF PassOn, InlineDone, FailingDone, StartStream, StreamEnds, StreamFails, StreamFinished, StreamClosed
<1>15. CASE Tasks(r)
  BY <1>1, <1>4, <1>7, <1>15 DEF Tasks, FinishStep, FinishCheck, FinishRecord, FinishSettle, FinishFails
<1>16. CASE Cancel(r)
  BY <1>1, <1>8, <1>9, <1>10, <1>11, <1>16
  DEF Cancel, CancelBegin, CancelReRecord, CancelChoosing, CancelStreaming, CancelInline,
      CancelFailing, CancelFinishing, CancelClosing
<1>. QED  BY <1>12, <1>13, <1>14, <1>15, <1>16 DEF Run

LEMMA ConservedStep ==
  ASSUME TypeOK, TypeOK', Local, Conserved, ~OddJson, [Next]_vars
  PROVE  Conserved'
<1>. SUFFICES ASSUME NEW a \in Accounts
              PROVE  free'[a] + Cardinality(Holders(call', a)) <= Limit
  BY DEF Conserved
<1>0. /\ \A c : IsFiniteSet(Holders(c, a)) /\ Cardinality(Holders(c, a)) \in Nat
      /\ free[a] \in Nat /\ free'[a] \in Nat
      /\ free[a] + Cardinality(Holders(call, a)) <= Limit
  BY RequestSets, FS_Subset, FS_CardinalityType DEF Holders, TypeOK, Conserved
<1>1. CASE Unmoved
  <2>1. Holders(call', a) \subseteq Holders(call, a) /\ free'[a] = free[a]
    BY <1>1 DEF Holders, Unmoved
  <2>2. Cardinality(Holders(call', a)) <= Cardinality(Holders(call, a))
    BY <1>0, <2>1, FS_Subset
  <2>. QED  BY <1>0, <2>1, <2>2, LimitAssumption
<1>2. ASSUME NEW r \in Requests, Takes(r)
      PROVE  free'[a] + Cardinality(Holders(call', a)) <= Limit
  <2>1. CASE call[r].account = a
    <3>1. free'[a] = free[a] - 1 /\ Holders(call', a) \subseteq Holders(call, a) \cup {r}
      BY <1>2, <2>1 DEF Takes, Others, Holders, TypeOK
    <3>2. /\ IsFiniteSet(Holders(call, a) \cup {r})
          /\ Cardinality(Holders(call, a) \cup {r}) <= Cardinality(Holders(call, a)) + 1
      <4>. DEFINE H == Holders(call, a)
      <4>1. IsFiniteSet(H) /\ Cardinality(H) \in Nat
        BY <1>0
      <4>. HIDE DEF H
      <4>2. /\ IsFiniteSet(H \cup {r})
            /\ \/ Cardinality(H \cup {r}) = Cardinality(H)
               \/ Cardinality(H \cup {r}) = Cardinality(H) + 1
        BY <4>1, FS_AddElement
      <4>3. Cardinality(H \cup {r}) <= Cardinality(H) + 1
        BY <4>1, <4>2
      <4>. QED  BY <4>2, <4>3 DEF H
    <3>3. Cardinality(Holders(call', a)) <= Cardinality(Holders(call, a) \cup {r})
          /\ Cardinality(Holders(call, a) \cup {r}) \in Nat
      BY <3>1, <3>2, FS_Subset, FS_CardinalityType
    <3>. QED  BY <1>0, <3>1, <3>2, <3>3, LimitAssumption
  <2>2. CASE call[r].account # a
    <3>1. free'[a] = free[a] /\ Holders(call', a) \subseteq Holders(call, a)
      BY <1>2, <2>2 DEF Takes, Others, Holders, TypeOK
    <3>2. Cardinality(Holders(call', a)) <= Cardinality(Holders(call, a))
      BY <1>0, <3>1, FS_Subset
    <3>. QED  BY <1>0, <3>1, <3>2, LimitAssumption
  <2>. QED  BY <2>1, <2>2
<1>3. ASSUME NEW r \in Requests, Gives(r)
      PROVE  free'[a] + Cardinality(Holders(call', a)) <= Limit
  <2>1. CASE call[r].account = a
    <3>1. free'[a] = free[a] + 1 /\ Holders(call', a) \subseteq Holders(call, a) \ {r}
          /\ r \in Holders(call, a)
      BY <1>3, <2>1 DEF Gives, Return, Others, Holders, TypeOK
    <3>2. /\ IsFiniteSet(Holders(call, a) \ {r})
          /\ Cardinality(Holders(call, a) \ {r}) = Cardinality(Holders(call, a)) - 1
      BY <1>0, <3>1, FS_RemoveElement
    <3>3. Cardinality(Holders(call', a)) <= Cardinality(Holders(call, a) \ {r})
      BY <3>1, <3>2, FS_Subset
    <3>. QED  BY <1>0, <3>1, <3>2, <3>3, LimitAssumption
  <2>2. CASE call[r].account # a
    <3>1. free'[a] = free[a] /\ Holders(call', a) \subseteq Holders(call, a)
      BY <1>3, <2>2 DEF Gives, Return, Others, Holders, TypeOK
    <3>2. Cardinality(Holders(call', a)) <= Cardinality(Holders(call, a))
      BY <1>0, <3>1, FS_Subset
    <3>. QED  BY <1>0, <3>1, <3>2, LimitAssumption
  <2>. QED  BY <2>1, <2>2
<1>4. CASE UNCHANGED vars
  BY <1>0, <1>4 DEF vars
<1>. QED  BY <1>1, <1>2, <1>3, <1>4, Moving DEF Next

LEMMA ConservedInit == Init => Conserved
<1>. SUFFICES ASSUME Init, NEW a \in Accounts
              PROVE  free[a] + Cardinality(Holders(call, a)) <= Limit
  BY DEF Conserved
<1>1. Holders(call, a) = {} /\ free[a] = Limit
  BY DEF Holders, Init, NewCall
<1>. QED  BY <1>1, FS_EmptySet, LimitAssumption

\* No account ever has more upstream connections than its semaphore admits
\* (gateway_account_max_concurrency), through retries, double finishes and
\* cancellations, provided upstreams answer JSON bodies that are objects.
THEOREM LimitAlways == ~OddJson => (Spec => []ConcurrencyLimit)
<1>. SUFFICES ASSUME ~OddJson PROVE Spec => []ConcurrencyLimit
  OBVIOUS
<1>1. Init => TypeOK /\ Local /\ Conserved
  BY LocalInit, ConservedInit
<1>2. TypeOK /\ Local /\ Conserved /\ [Next]_vars => (TypeOK /\ Local /\ Conserved)'
  BY LocalStep, ConservedStep
<1>3. TypeOK /\ Local /\ Conserved => ConcurrencyLimit
  <2>. SUFFICES ASSUME TypeOK, Local, Conserved, NEW a \in Accounts
                PROVE  Cardinality({r \in Requests : call[r].account = a /\ call[r].live}) <= Limit
    BY DEF ConcurrencyLimit
  <2>. DEFINE lives == {r \in Requests : call[r].account = a /\ call[r].live}
  <2>1. lives \subseteq Holders(call, a)
    BY DEF Holders, Local, Leased
  <2>2. IsFiniteSet(Holders(call, a)) /\ Cardinality(Holders(call, a)) \in Nat
        /\ free[a] \in Nat /\ free[a] + Cardinality(Holders(call, a)) <= Limit
    BY RequestSets, FS_Subset, FS_CardinalityType DEF Holders, TypeOK, Conserved
  <2>. HIDE DEF lives
  <2>3. Cardinality(lives) <= Cardinality(Holders(call, a)) /\ Cardinality(lives) \in Nat
    BY <2>1, <2>2, FS_Subset, FS_CardinalityType
  <2>4. Cardinality(lives) <= Limit
    BY <2>2, <2>3, LimitAssumption
  <2>. QED  BY <2>4 DEF lives
<1>. QED  BY <1>1, <1>2, <1>3, PTL DEF Spec

-----------------------------------------------------------------------------
(* The end of a call: what is left of one that is over.  Local does not know  *)
(* where a call was first cancelled; Trace adds what the handler's place says *)
(* about that, and about the finish_call() that was started.  It is a fact    *)
(* about one request, like Local, and no other request's step disturbs it.    *)

\* Both rows of r are closed, but for what a storage error skipped.
Closed(r) == RecordClosed(r) /\ HoldClosed(r)

\* The awaits a call can only be at when it was never cancelled.
Untouched == {"idle", "reserving", "recording", "choosing", "waiting", "sending",
              "unstarted", "streaming", "collecting"}

\* What the place of the handler says about its first cancellation.
FirstHit(r) ==
  /\ pc[r] \in Untouched => hit[r] = "never"
  /\ pc[r] = "rerecord" => hit[r] \in {"never", "reserving", "recording"}
  /\ pc[r] = "inline" => hit[r] \in {"never", "inline"}
  /\ pc[r] = "letgo" => /\ hit[r] \in {"never", "sending", "collecting"}
                        /\ call[r].outcome = "success" => hit[r] = "never"

\* A record is never without a hold, and only a cancelled begin_call() leaves
\* one behind that the except clause does not know of.
Begun(r) ==
  /\ pc[r] \in Early => /\ hold[r] \in {"none", "reserved"}
                         /\ \A s \in Slots : fin[r][s].step = "none"
  /\ record[r] # "none" \/ pc[r] = "recording" => hold[r] # "none"
  /\ pc[r] = "rerecord" /\ record[r] # "none" => hit[r] \in Unfinished

\* A finish_call() was started, or need not be.
Finishing(r) == fin[r][1].step # "none"

Ended(r) ==
  /\ pc[r] \in {"finishing", "failing", "last", "inline"} => Finishing(r)
  /\ pc[r] = "closing" /\ hit[r] # "never" => Finishing(r)
  /\ pc[r] = "done" /\ record[r] # "none" =>
       Finishing(r) \/ call[r].finalized \/ hit[r] \in Unfinished
  /\ \A s \in Slots : fin[r][s].step \in {"release", "end"} => Closed(r) \/ hit[r] \in Unfinished
  /\ call[r].finalized => Closed(r) \/ hit[r] \in Unfinished

\* A permit is held by somebody who will give it back, or it was lost at one
\* of the awaits where nobody does, or by an opener that a storage error left.
Owned(r) ==
  /\ call[r].permit = "held" => pc[r] \in Holding \/ closer[r] = "aclose"
  /\ call[r].permit = "lost" =>
       hit[r] \in {"sending", "unstarted", "collecting", "letgo"} \/ "opener" \in broken[r]

Trace(r) == FirstHit(r) /\ Begun(r) /\ Ended(r) /\ Owned(r)

Traces == \A r \in Requests : Trace(r)

-----------------------------------------------------------------------------
LEMMA TracesInit == Init => Traces
<1>. SUFFICES ASSUME Init, NEW r \in Requests PROVE Trace(r)
  BY DEF Traces
<1>. QED
  BY DEF Init, Trace, FirstHit, Begun, Ended, Finishing, Owned, NewCall, NoFinish, Slots, Early, Untouched

\* A finish_call() that starts leaves the ones before it as they are.
LEMMA FirstRun ==
  ASSUME TypeOK, NEW r \in Requests, NEW status \in Endings, fin' = Started(r, status)
  PROVE  /\ fin'[r][1].step # "none"
         /\ \A s \in Slots : fin'[r][s] = fin[r][s] \/ fin'[r][s].step = "check"
<1>. DEFINE n == [step |-> "check", status |-> status]
            t == IF fin[r][1].step = "none" THEN 1 ELSE 2
<1>1. fin' = [fin EXCEPT ![r] = [fin[r] EXCEPT ![t] = n]] /\ n.step = "check"
  BY DEF Started, TypeOK
<1>2. fin \in [Requests -> [Slots -> Finishes]] /\ t \in Slots /\ 1 \in Slots
  BY DEF TypeOK, Slots
<1>3. (t = 1 /\ fin[r][1].step = "none") \/ (t = 2 /\ fin[r][1].step # "none")
  OBVIOUS
<1>. HIDE DEF n, t
<1>4. fin'[r] = [fin[r] EXCEPT ![t] = n]
  BY <1>1, <1>2
<1>5. fin'[r][t] = n /\ \A s \in Slots \ {t} : fin'[r][s] = fin[r][s]
  BY <1>2, <1>4
<1>. QED  BY <1>1, <1>2, <1>3, <1>5

\* Where an attempt that failed leads to, and what was started for it.
LEMMA Handled ==
  ASSUME TypeOK, NEW r \in Requests, RetryOrFail(r)
  PROVE  \/ pc'[r] = "choosing" /\ fin' = fin
         \/ /\ pc'[r] = "failing" /\ fin'[r][1].step # "none"
            /\ \A s \in Slots : fin'[r][s] = fin[r][s] \/ fin'[r][s].step = "check"
<1>1. CASE Fail(r, "failed")
  BY <1>1, FirstRun DEF Fail, Goto, TypeOK, Endings
<1>2. CASE Goto(r, "choosing") /\ fin' = fin
  BY <1>2 DEF Goto, TypeOK
<1>. QED  BY <1>1, <1>2 DEF RetryOrFail

\* hit keeps the place of the first cancellation, and changes for r alone.
LEMMA HitBy ==
  ASSUME TypeOK, NEW r \in Requests, NEW ps, Cancelled(r, ps)
  PROVE  /\ pc[r] \in ps
         /\ hit[r] = "never" => hit'[r] = pc[r]
         /\ hit[r] # "never" => hit'[r] = hit[r]
         /\ broken' = broken /\ \A q \in Requests \ {r} : hit'[q] = hit[q]
BY DEF Cancelled, TypeOK

\* A step of r keeps its trace and touches nobody else's hit.
Traced(r) ==
  Trace(r)' /\ \A q \in Requests \ {r} : hit'[q] = hit[q] /\ broken'[q] = broken[q]

LEMMA BeginTraced ==
  ASSUME NEW r \in Requests, TypeOK, Leased(r), Recorded(r), Trace(r), Begin(r)
  PROVE  Traced(r)
<1>. USE DEF Traced, Trace, FirstHit, Begun, Ended, Finishing, Owned, Closed, RecordClosed, HoldClosed, Untouched, Unfinished,
             Early, Holding, TypeOK
<1>1. CASE Arrive(r)
  BY <1>1 DEF Arrive, Goto, Recorded
<1>2. CASE Reserve(r)
  BY <1>2 DEF Reserve, Goto, Recorded
<1>3. CASE ReserveRefused(r)
  BY <1>3 DEF ReserveRefused, Goto
<1>4. CASE Record(r)
  BY <1>4 DEF Record, Goto, Recorded, Endings
<1>5. CASE ReRecord(r)
  <2>1. /\ pc[r] = "rerecord" /\ hold'[r] = "reserved"
        /\ UNCHANGED <<call, closer, hit, broken>>
    BY <1>5 DEF ReRecord
  <2>2. CASE record[r] = "none"
    <3>1. PICK status \in {"failed", "interrupted"} : fin' = Started(r, status)
      BY <1>5, <2>2 DEF ReRecord
    <3>2. /\ Finishing(r)'
          /\ \A s \in Slots : fin'[r][s] = fin[r][s] \/ fin'[r][s].step = "check"
      BY <3>1, FirstRun DEF Endings
    <3>3. pc'[r] = "failing"
      BY <1>5, <2>2 DEF ReRecord, Goto
    <3>. QED  BY <2>1, <2>2, <3>2, <3>3 DEF Recorded, Endings
  <2>3. CASE record[r] # "none"
    <3>1. pc'[r] = "done" /\ UNCHANGED <<record, fin>>
      BY <1>5, <2>3 DEF ReRecord, Goto
    <3>. QED  BY <2>1, <2>3, <3>1
  <2>. QED  BY <2>2, <2>3
<1>6. CASE BeginFails(r)
  BY <1>6 DEF BeginFails, Goto, Recorded
<1>7. CASE ReRecordFails(r)
  BY <1>7 DEF ReRecordFails, Goto, Recorded
<1>. QED  BY <1>1, <1>2, <1>3, <1>4, <1>5, <1>6, <1>7 DEF Begin

LEMMA AskTraced ==
  ASSUME NEW r \in Requests, TypeOK, Leased(r), Recorded(r), Trace(r), Ask(r)
  PROVE  Traced(r)
<1>. USE DEF Traced, Trace, FirstHit, Begun, Ended, Finishing, Owned, Closed, RecordClosed, HoldClosed, Untouched, Unfinished,
             Early, Holding, TypeOK
<1>0. call[r] \in Calls
  OBVIOUS
<1>. DEFINE freed == Freed(call[r])
<1>f. freed \in Calls /\ freed.permit = "none" /\ freed.finalized = call[r].finalized
  BY <1>0, CallChanges DEF Freed, Calls
<1>. HIDE DEF freed
<1>1. CASE ChooseFails(r)
  <2>1. /\ pc'[r] = "failing" /\ Finishing(r)'
        /\ \A s \in Slots : fin'[r][s] = fin[r][s] \/ fin'[r][s].step = "check"
    BY <1>1, FirstRun DEF ChooseFails, Fail, Goto, Endings
  <2>. QED  BY <1>1, <2>1 DEF ChooseFails
<1>2. ASSUME NEW a \in Accounts, Attempt(r, a) PROVE Traced(r)
  <2>1. pc[r] = "choosing" /\ pc'[r] = "waiting" /\ UNCHANGED <<fin, closer, record, hold, hit, broken>>
    BY <1>2 DEF Attempt, Goto
  <2>2. call'[r] = Noted(call[r], a)
    BY <1>2 DEF Attempt
  <2>3. call'[r].permit = call[r].permit /\ call'[r].finalized = call[r].finalized
    BY <1>0, <2>2 DEF Noted, Calls
  <2>. QED  BY <2>1, <2>3 DEF Leased
<1>3. CASE Acquire(r)
  <2>1. pc[r] = "waiting" /\ pc'[r] = "sending" /\ UNCHANGED <<fin, closer, record, hold, hit, broken>>
    BY <1>3 DEF Acquire, Goto
  <2>2. call'[r].permit = "held" /\ call'[r].finalized = call[r].finalized
    BY <1>0, <1>3 DEF Acquire, Calls
  <2>. QED  BY <2>1, <2>2
<1>4. CASE WaitFails(r)
  <2>1. pc[r] = "waiting" /\ UNCHANGED <<call, closer, record, hold, hit, broken>>
    BY <1>4 DEF WaitFails, QueueTimeout
  <2>. QED  BY <1>4, <2>1, Handled DEF WaitFails, Leased
<1>5. CASE SendFails(r) \/ JsonOdd(r)
  <2>1. pc[r] = "sending" /\ call'[r] = freed /\ UNCHANGED <<closer, record, hold, hit, broken>>
    BY <1>5 DEF SendFails, JsonOdd, freed
  <2>2. \/ pc'[r] = "choosing" /\ fin' = fin
        \/ /\ pc'[r] = "failing" /\ fin'[r][1].step # "none"
           /\ \A s \in Slots : fin'[r][s] = fin[r][s] \/ fin'[r][s].step = "check"
    BY <1>5, Handled DEF SendFails, JsonOdd
  <2>. QED  BY <1>f, <2>1, <2>2
<1>6. CASE SendSucceeds(r)
  BY <1>6 DEF SendSucceeds, Goto, Leased
<1>7. CASE JsonAnswered(r)
  <2>1. PICK known \in BOOLEAN : call' = [call EXCEPT ![r] = Answered(freed, known)]
    BY <1>7, Zenon DEF JsonAnswered, freed
  <2>2. call'[r] = Answered(freed, known)
    BY <2>1
  <2>3. call'[r].permit = "none" /\ call'[r].finalized = call[r].finalized
    BY <1>f, <2>2 DEF Answered, Calls
  <2>4. /\ pc[r] = "sending" /\ pc'[r] = "inline" /\ Finishing(r)'
        /\ \A s \in Slots : fin'[r][s] = fin[r][s] \/ fin'[r][s].step = "check"
    BY <1>7, FirstRun DEF JsonAnswered, Goto, Endings
  <2>5. UNCHANGED <<closer, record, hold, hit, broken>>
    BY <1>7 DEF JsonAnswered
  <2>. QED  BY <2>3, <2>4, <2>5
<1>8. ASSUME NEW a \in Accounts, AttemptFails(r, a) PROVE Traced(r)
  <2>1. /\ pc[r] = "choosing" /\ pc'[r] = "failing" /\ Finishing(r)'
        /\ \A s \in Slots : fin'[r][s] = fin[r][s] \/ fin'[r][s].step = "check"
    BY <1>8, FirstRun DEF AttemptFails, Fail, Goto, Endings
  <2>2. call'[r] = call[r] \/ call'[r] = Noted(call[r], a)
    BY <1>8 DEF AttemptFails
  <2>3. call'[r].permit = call[r].permit /\ call'[r].finalized = call[r].finalized
    BY <1>0, <2>2 DEF Noted, Calls
  <2>4. UNCHANGED <<closer, record, hold, hit, broken>>
    BY <1>8 DEF AttemptFails
  <2>. QED  BY <2>1, <2>3, <2>4 DEF Leased
<1>9. CASE SendBreaks(r)
  <2>1. /\ pc[r] = "sending" /\ pc'[r] = "failing" /\ Finishing(r)'
        /\ \A s \in Slots : fin'[r][s] = fin[r][s] \/ fin'[r][s].step = "check"
    BY <1>9, FirstRun DEF SendBreaks, Fail, Goto, Endings
  <2>2. call'[r].permit = "lost" /\ call'[r].finalized = call[r].finalized
    BY <1>0, <1>9 DEF SendBreaks, Orphaned, Calls
  <2>3. UNCHANGED <<closer, record, hold, hit>>
    BY <1>9 DEF SendBreaks
  <2>4. /\ broken'[r] = broken[r] \cup {"opener"}
        /\ \A q \in Requests \ {r} : broken'[q] = broken[q]
    BY <1>9 DEF SendBreaks, Broke
  <2>. QED  BY <2>1, <2>2, <2>3, <2>4
<1>. QED  BY <1>1, <1>2, <1>3, <1>4, <1>5, <1>6, <1>7, <1>8, <1>9 DEF Ask

LEMMA PassOnTraced ==
  ASSUME NEW r \in Requests, TypeOK, Leased(r), Recorded(r), Trace(r), PassOn(r)
  PROVE  Traced(r)
<1>. USE DEF Traced, Trace, FirstHit, Begun, Ended, Finishing, Owned, Closed, RecordClosed, HoldClosed, Untouched, Unfinished,
             Early, Holding, TypeOK
<1>0. call[r] \in Calls
  OBVIOUS
<1>1. CASE Collect(r)
  <2>1. pc[r] = "collecting" /\ pc'[r] = "letgo" /\ UNCHANGED <<fin, closer, record, hold, hit, broken>>
    BY <1>1 DEF Collect, Goto
  <2>2. call'[r].permit = call[r].permit /\ call'[r].finalized = call[r].finalized
    <3>1. CASE call' = [call EXCEPT ![r].outcome = "failed"]
      BY <1>0, <3>1 DEF Calls
    <3>2. CASE \E known \in BOOLEAN, outcome \in {"success", "failed"} :
                 call' = [call EXCEPT ![r] = [Answered(@, known) EXCEPT !.outcome = outcome]]
      <4>1. PICK known \in BOOLEAN, outcome \in {"success", "failed"} :
                 call' = [call EXCEPT ![r] = [Answered(call[r], known) EXCEPT !.outcome = outcome]]
        BY <3>2, Zenon DEF TypeOK
      <4>2. call'[r] = [Answered(call[r], known) EXCEPT !.outcome = outcome]
        BY <4>1
      <4>. QED  BY <1>0, <4>2 DEF Answered, Calls
    <3>. QED  BY <1>1, <3>1, <3>2, Zenon DEF Collect
  <2>. QED  BY <2>1, <2>2
<1>2. CASE CollectClosed(r)
  <2>1. pc[r] = "letgo" /\ call'[r] = Freed(call[r]) /\ UNCHANGED <<closer, record, hold, hit, broken>>
    BY <1>2 DEF CollectClosed
  <2>2. call'[r].permit = "none" /\ call'[r].finalized = call[r].finalized
    BY <1>0, <2>1 DEF Freed, Calls
  <2>3. /\ Finishing(r)'
        /\ \A s \in Slots : fin'[r][s] = fin[r][s] \/ fin'[r][s].step = "check"
    BY <1>0, <1>2, FirstRun DEF CollectClosed, Calls
  <2>4. \/ pc'[r] = "inline" /\ call[r].outcome = "success"
        \/ pc'[r] = "failing"
    BY <1>2 DEF CollectClosed, Goto
  <2>. QED  BY <2>1, <2>2, <2>3, <2>4
<1>3. CASE InlineDone(r) \/ FailingDone(r) \/ StartStream(r)
  BY <1>3 DEF InlineDone, FailingDone, StartStream, Goto
<1>4. CASE Deliver(r)
  <2>1. call'[r].permit = call[r].permit /\ call'[r].finalized = call[r].finalized
    <3>1. CASE call' = [call EXCEPT ![r].delivered = TRUE]
      BY <1>0, <3>1 DEF Calls
    <3>2. CASE \E known \in BOOLEAN : call' = [call EXCEPT ![r] = Answered(@, known)]
      <4>1. PICK known \in BOOLEAN : call' = [call EXCEPT ![r] = Answered(call[r], known)]
        BY <3>2, Zenon DEF TypeOK
      <4>2. call'[r] = Answered(call[r], known)
        BY <4>1
      <4>. QED  BY <1>0, <4>2 DEF Answered, Calls
    <3>. QED  BY <1>4, <3>1, <3>2, Zenon DEF Deliver
  <2>2. pc[r] = "streaming" /\ UNCHANGED <<pc, fin, closer, record, hold, hit, broken>>
    BY <1>4 DEF Deliver
  <2>. QED  BY <2>1, <2>2
<1>5. CASE StreamEnds(r) \/ StreamFinished(r)
  <2>1. pc[r] \in {"streaming", "finishing"} /\ pc'[r] = "closing" /\ closer'[r] = "aclose"
    BY <1>5 DEF StreamEnds, StreamFinished, Goto
  <2>2. UNCHANGED <<call, fin, record, hold, hit, broken>>
    BY <1>5 DEF StreamEnds, StreamFinished
  <2>. QED  BY <2>1, <2>2
<1>6. CASE StreamFails(r)
  <2>1. /\ pc[r] = "streaming" /\ pc'[r] = "finishing" /\ Finishing(r)'
        /\ \A s \in Slots : fin'[r][s] = fin[r][s] \/ fin'[r][s].step = "check"
    BY <1>6, FirstRun DEF StreamFails, Goto, Endings
  <2>. QED  BY <1>6, <2>1 DEF StreamFails
<1>7. CASE StreamClosed(r)
  <2>1. pc[r] = "closing" /\ closer[r] = "end" /\ UNCHANGED <<call, closer, record, hold, hit, broken>>
    BY <1>7 DEF StreamClosed
  <2>2. CASE call[r].finalized
    BY <1>7, <2>1, <2>2 DEF StreamClosed, Goto
  <2>3. CASE ~call[r].finalized
    <3>1. PICK status \in Endings : fin' = Started(r, status)
      BY <1>7, <2>3 DEF StreamClosed, Endings
    <3>2. /\ pc'[r] = "last" /\ Finishing(r)'
          /\ \A s \in Slots : fin'[r][s] = fin[r][s] \/ fin'[r][s].step = "check"
      BY <1>7, <2>3, <3>1, FirstRun DEF StreamClosed, Goto
    <3>. QED  BY <2>1, <3>2
  <2>. QED  BY <2>2, <2>3
<1>. QED  BY <1>1, <1>2, <1>3, <1>4, <1>5, <1>6, <1>7 DEF PassOn

LEMMA TasksTraced ==
  ASSUME NEW r \in Requests, TypeOK, Leased(r), Recorded(r), Trace(r), Tasks(r)
  PROVE  Traced(r)
<1>. USE DEF Traced, Trace, FirstHit, Begun, Ended, Finishing, Owned, Closed, RecordClosed, HoldClosed, Untouched, Unfinished,
             Early, Holding, TypeOK
<1>0. call[r] \in Calls
  OBVIOUS
<1>1. CASE CloseLease(r)
  <2>1. call'[r] = Freed(call[r]) /\ UNCHANGED <<pc, fin, record, hold, hit, broken>>
    BY <1>1 DEF CloseLease
  <2>2. /\ call'[r].permit = "none" /\ call'[r].finalized = call[r].finalized
        /\ call'[r].outcome = call[r].outcome
    BY <1>0, <2>1 DEF Freed, Calls
  <2>. QED  BY <2>1, <2>2
<1>2. ASSUME NEW s \in Slots, FinishStep(r, s) PROVE Traced(r)
  <2>0. fin[r][s] \in Finishes /\ fin[r][s].status \in Endings
    BY DEF Finishes
  <2>s. ASSUME NEW step \in Steps \ {"none"}, To(r, s, step)
        PROVE  /\ fin'[r][s].step = step
               /\ \A t \in Slots \ {s} : fin'[r][t] = fin[r][t]
               /\ Finishing(r) => Finishing(r)'
    <3>1. fin'[r][s].step = step /\ \A t \in Slots \ {s} : fin'[r][t] = fin[r][t]
      BY <2>0, <2>s DEF To, Finishes
    <3>. QED  BY <3>1, <2>s DEF Slots
  <2>1. CASE FinishCheck(r, s)
    <3>1. /\ fin[r][s].step = "check" /\ pc[r] \notin Early
          /\ UNCHANGED <<pc, call, closer, record, hold, hit, broken>>
      BY <2>1 DEF FinishCheck
    <3>2. (call[r].finalized /\ To(r, s, "end")) \/ To(r, s, "finalize")
      BY <2>1 DEF FinishCheck, After
    <3>3. /\ call[r].finalized \/ fin'[r][s].step = "finalize"
          /\ \A t \in Slots \ {s} : fin'[r][t] = fin[r][t]
          /\ Finishing(r) => Finishing(r)'
      BY <2>s, <3>1, <3>2 DEF Steps
    <3>. QED  BY <3>1, <3>3
  <2>2. CASE FinishRecord(r, s)
    <3>1. /\ fin[r][s].step = "finalize" /\ record' = [record EXCEPT ![r] = Finalized(r, s)]
          /\ To(r, s, "settle") /\ UNCHANGED <<pc, call, closer, hold, hit, broken>>
      BY <2>2 DEF FinishRecord, After
    <3>2. Finalized(r, s) \in Endings
      BY <2>0, <3>1 DEF Finalized, RecordStates, Recorded
    <3>3. record[r] # "none" /\ record'[r] \in Endings /\ pc[r] \notin Early
      BY <3>1, <3>2 DEF Recorded
    <3>4. /\ fin'[r][s].step = "settle" /\ \A t \in Slots \ {s} : fin'[r][t] = fin[r][t]
          /\ Finishing(r) => Finishing(r)'
      BY <2>s, <3>1 DEF Steps
    <3>. QED  BY <3>1, <3>3, <3>4
  <2>3. CASE FinishSettle(r, s)
    <3>1. /\ fin[r][s].step = "settle" /\ hold'[r] = Settled(r, fin[r][s].status)
          /\ To(r, s, "release") /\ UNCHANGED <<pc, call, closer, record, hit, broken>>
      BY <2>3 DEF FinishSettle, After
    <3>2. record[r] \in Endings /\ pc[r] \notin {"idle", "reserving", "recording"}
      BY <3>1 DEF Recorded, Endings
    <3>3. hold[r] # "none"
      BY <3>2 DEF Endings
    <3>4. hold'[r] \in {"pending", "settled", "released"}
      BY <3>1, <3>3 DEF Settled, HoldStates
    <3>5. /\ fin'[r][s].step = "release" /\ \A t \in Slots \ {s} : fin'[r][t] = fin[r][t]
          /\ Finishing(r) => Finishing(r)'
      BY <2>s, <3>1 DEF Steps
    <3>6. pc[r] \notin Early
      BY <3>1
    <3>. QED  BY <3>1, <3>2, <3>4, <3>5, <3>6
  <2>4. CASE FinishRelease(r, s)
    <3>. DEFINE d == [call[r] EXCEPT !.finalized = TRUE]
    <3>1. /\ fin[r][s].step = "release" /\ call'[r] = d
          /\ To(r, s, "end") /\ UNCHANGED <<pc, closer, record, hold, hit, broken>>
      BY <2>4 DEF FinishRelease
    <3>2. d.permit = call[r].permit /\ d.outcome = call[r].outcome /\ d.finalized = TRUE
      BY <1>0 DEF Calls
    <3>. HIDE DEF d
    <3>3. /\ fin'[r][s].step = "end" /\ \A t \in Slots \ {s} : fin'[r][t] = fin[r][t]
          /\ Finishing(r) => Finishing(r)'
      BY <2>s, <3>1 DEF Steps
    <3>. QED  BY <3>1, <3>2, <3>3
  <2>5. CASE FinishFails(r, s)
    <3>1. /\ fin[r][s].step \in {"finalize", "settle"} /\ To(r, s, "release")
          /\ broken' = [broken EXCEPT ![r] = @ \cup {fin[r][s].step}]
          /\ UNCHANGED <<pc, call, closer, record, hold, hit>>
      BY <2>5 DEF FinishFails, Broke
    <3>2. /\ broken'[r] = broken[r] \cup {fin[r][s].step}
          /\ \A q \in Requests \ {r} : broken'[q] = broken[q]
      BY <3>1
    <3>3. fin[r][s].step = "settle" => record[r] \in Endings
      BY DEF Recorded
    <3>4. Closed(r)'
      BY <3>1, <3>2, <3>3
    <3>5. /\ fin'[r][s].step = "release" /\ \A t \in Slots \ {s} : fin'[r][t] = fin[r][t]
          /\ Finishing(r) => Finishing(r)'
      BY <2>s, <3>1 DEF Steps
    <3>6. pc[r] \notin Early
      BY <3>1
    <3>7. Owned(r)'
      BY <3>1, <3>2
    <3>. QED  BY <3>1, <3>2, <3>4, <3>5, <3>6, <3>7
  <2>. QED  BY <1>2, <2>1, <2>2, <2>3, <2>4, <2>5 DEF FinishStep
<1>. QED  BY <1>1, <1>2 DEF Tasks

LEMMA CancelTraced ==
  ASSUME NEW r \in Requests, TypeOK, Leased(r), Recorded(r), Trace(r), Cancel(r)
  PROVE  Traced(r)
<1>. USE DEF Traced, Trace, FirstHit, Begun, Ended, Finishing, Owned, Closed, RecordClosed, HoldClosed, Untouched, Unfinished,
             Early, Holding, TypeOK
<1>0. call[r] \in Calls
  OBVIOUS
<1>1. CASE CancelBegin(r)
  <2>1. /\ pc[r] \in {"reserving", "recording"} /\ hit'[r] = pc[r] /\ pc'[r] = "rerecord"
        /\ UNCHANGED <<call, fin, closer>>
        /\ broken' = broken /\ \A q \in Requests \ {r} : hit'[q] = hit[q]
    BY <1>1, HitBy DEF CancelBegin, Goto
  <2>2. \/ hold'[r] = hold[r] /\ record'[r] = record[r]
        \/ hold'[r] = "reserved" /\ record'[r] = record[r]
        \/ pc[r] = "recording" /\ hold'[r] = hold[r]
    BY <1>1 DEF CancelBegin
  <2>3. record[r] = "none"
    BY <2>1 DEF Recorded
  <2>. QED  BY <2>1, <2>2, <2>3 DEF Endings
<1>2. CASE CancelReRecord(r)
  <2>1. /\ pc[r] = "rerecord" /\ pc'[r] = "done" /\ UNCHANGED <<call, fin, closer>>
        /\ hit'[r] \in Unfinished
        /\ broken' = broken /\ \A q \in Requests \ {r} : hit'[q] = hit[q]
    BY <1>2, HitBy DEF CancelReRecord, Goto
  <2>2. hold'[r] = hold[r] \/ hold'[r] = "reserved"
    BY <1>2 DEF CancelReRecord
  <2>3. record'[r] = record[r] \/ hold'[r] = "reserved"
    BY <1>2 DEF CancelReRecord
  <2>. QED  BY <2>1, <2>2, <2>3
<1>3. CASE CancelChoosing(r)
  <2>1. pc'[r] = "failing" /\ UNCHANGED <<call, closer, record, hold>>
    BY <1>3 DEF CancelChoosing, Fail, Goto
  <2>2. Cancelled(r, {"choosing", "waiting"}) /\ fin' = Started(r, "interrupted")
    BY <1>3 DEF CancelChoosing, Fail
  <2>3. /\ Finishing(r)'
        /\ \A s \in Slots : fin'[r][s] = fin[r][s] \/ fin'[r][s].step = "check"
    BY <2>2, FirstRun DEF Endings
  <2>4. call[r].permit = "none" /\ hit[r] = "never"
    BY <2>2, HitBy DEF Leased, Asking
  <2>5. /\ hit'[r] \in {"choosing", "waiting"} /\ pc[r] \in {"choosing", "waiting"}
        /\ broken' = broken /\ \A q \in Requests \ {r} : hit'[q] = hit[q]
    BY <2>2, <2>4, HitBy
  <2>6. \A s \in Slots : fin[r][s].step \in {"release", "end"} => Closed(r)
    BY <2>4
  <2>7. call[r].finalized => Closed(r)
    BY <2>4
  <2>. QED  BY <2>1, <2>3, <2>4, <2>5, <2>6, <2>7
<1>4. CASE CancelSending(r) \/ CancelLetGo(r)
  <2>1. /\ pc'[r] = "failing" /\ call'[r] = Orphaned(call[r]) /\ UNCHANGED <<closer, record, hold>>
        /\ fin' = Started(r, "interrupted") /\ Cancelled(r, {"sending", "letgo"})
    BY <1>4 DEF CancelSending, CancelLetGo, Fail, Goto, Cancelled
  <2>2. /\ Finishing(r)'
        /\ \A s \in Slots : fin'[r][s] = fin[r][s] \/ fin'[r][s].step = "check"
    BY <2>1, FirstRun DEF Endings
  <2>3. call'[r].permit = "lost" /\ call'[r].finalized = call[r].finalized
    BY <1>0, <2>1 DEF Orphaned, Calls
  <2>4. /\ pc[r] \in {"sending", "letgo"}
        /\ hit'[r] \in {"sending", "collecting", "letgo"} /\ hit[r] \in {"never", "sending", "collecting"}
        /\ broken' = broken /\ \A q \in Requests \ {r} : hit'[q] = hit[q]
    BY <2>1, HitBy
  <2>5. \A s \in Slots : fin[r][s].step \in {"release", "end"} => Closed(r)
    BY <2>4
  <2>6. call[r].finalized => Closed(r)
    BY <2>4
  <2>. QED  BY <2>1, <2>2, <2>3, <2>4, <2>5, <2>6
<1>5. CASE CancelGuarded(r)
  <2>1. /\ pc[r] = "sending" /\ hit[r] = "never" /\ hit'[r] = "sending"
        /\ UNCHANGED <<closer, record, hold>>
        /\ broken' = broken /\ \A q \in Requests \ {r} : hit'[q] = hit[q]
    BY <1>5, HitBy DEF CancelGuarded
  <2>2. /\ \A s \in Slots : fin[r][s].step \in {"release", "end"} => Closed(r)
        /\ call[r].finalized => Closed(r)
    BY <2>1
  <2>3. CASE call' = [call EXCEPT ![r] = Freed(@)] /\ Fail(r, "interrupted")
    <3>1. call'[r] = Freed(call[r]) /\ pc'[r] = "failing"
      BY <2>3 DEF Fail, Goto
    <3>2. call'[r].permit = "none" /\ call'[r].finalized = call[r].finalized
      BY <1>0, <3>1 DEF Freed, Calls
    <3>3. /\ Finishing(r)'
          /\ \A s \in Slots : fin'[r][s] = fin[r][s] \/ fin'[r][s].step = "check"
      BY <2>3, FirstRun DEF Fail, Endings
    <3>. QED  BY <2>1, <2>2, <3>1, <3>2, <3>3
  <2>4. CASE /\ call' = [call EXCEPT ![r].outcome = "interrupted"]
             /\ Goto(r, "letgo") /\ UNCHANGED <<free, fin>>
    <3>1. pc'[r] = "letgo" /\ fin' = fin
      BY <2>4 DEF Goto
    <3>2. /\ call'[r].outcome = "interrupted" /\ call'[r].permit = call[r].permit
          /\ call'[r].finalized = call[r].finalized
      BY <1>0, <2>4 DEF Calls
    <3>. QED  BY <2>1, <2>2, <3>1, <3>2
  <2>. QED  BY <1>5, <2>3, <2>4 DEF CancelGuarded
<1>6. CASE CancelUnstarted(r)
  <2>1. /\ pc[r] = "unstarted" /\ pc'[r] = "done" /\ hit'[r] = "unstarted" /\ hit[r] = "never"
        /\ UNCHANGED <<fin, closer, record, hold>>
        /\ broken' = broken /\ \A q \in Requests \ {r} : hit'[q] = hit[q]
    BY <1>6, HitBy DEF CancelUnstarted, Goto
  <2>2. call'[r].permit = "lost"
    BY <1>0, <1>6 DEF CancelUnstarted, Calls
  <2>. QED  BY <2>1, <2>2
<1>7. CASE CancelStreaming(r)
  <2>1. /\ pc[r] = "streaming" /\ pc'[r] = "finishing" /\ hit'[r] = "streaming" /\ hit[r] = "never"
        /\ UNCHANGED <<call, closer, record, hold>>
        /\ broken' = broken /\ \A q \in Requests \ {r} : hit'[q] = hit[q]
    BY <1>7, HitBy DEF CancelStreaming, Goto
  <2>2. /\ Finishing(r)'
        /\ \A s \in Slots : fin'[r][s] = fin[r][s] \/ fin'[r][s].step = "check"
    BY <1>7, FirstRun DEF CancelStreaming, Endings
  <2>. QED  BY <2>1, <2>2
<1>8. CASE CancelCollecting(r)
  <2>1. /\ pc[r] = "collecting" /\ pc'[r] = "letgo" /\ hit'[r] = "collecting" /\ hit[r] = "never"
        /\ UNCHANGED <<fin, closer, record, hold>>
        /\ broken' = broken /\ \A q \in Requests \ {r} : hit'[q] = hit[q]
    BY <1>8, HitBy DEF CancelCollecting, Goto
  <2>2. /\ call'[r].outcome = "interrupted" /\ call'[r].permit = call[r].permit
        /\ call'[r].finalized = call[r].finalized
    BY <1>0, <1>8 DEF CancelCollecting, Calls
  <2>. QED  BY <2>1, <2>2
<1>9. CASE CancelFailing(r) \/ CancelFinishing(r) \/ CancelClosing(r)
  <2>1. /\ Cancelled(r, {"failing", "last", "finishing", "closing"})
        /\ UNCHANGED <<call, fin, record, hold>>
    BY <1>9 DEF CancelFailing, CancelFinishing, CancelClosing, Shielded, Cancelled
  <2>2. \/ pc[r] \in {"failing", "last"} /\ pc'[r] = "done" /\ closer' = closer
        \/ pc[r] = "closing" /\ pc'[r] = "done" /\ closer' = closer
        \/ pc[r] = "finishing" /\ pc'[r] = "closing" /\ closer'[r] = "aclose"
    BY <1>9 DEF CancelFailing, CancelFinishing, CancelClosing, Cancelled, Goto
  <2>3. /\ hit[r] = "never" => hit'[r] = pc[r]
        /\ hit[r] # "never" => hit'[r] = hit[r]
        /\ broken' = broken /\ \A q \in Requests \ {r} : hit'[q] = hit[q]
    BY <2>1, HitBy
  <2>4. /\ \A s \in Slots : fin[r][s].step \in {"release", "end"} => Closed(r) \/ hit'[r] \in Unfinished
        /\ call[r].finalized => Closed(r) \/ hit'[r] \in Unfinished
    BY <2>3
  <2>. QED  BY <2>1, <2>2, <2>3, <2>4
<1>10. CASE CancelInline(r)
  <2>1. /\ pc[r] = "inline" /\ hit'[r] = "inline" /\ UNCHANGED <<call, closer>>
        /\ broken' = broken /\ \A q \in Requests \ {r} : hit'[q] = hit[q]
    BY <1>10, HitBy DEF CancelInline
  <2>2. pc'[r] \in {"failing", "inline"}
    BY <1>10 DEF CancelInline, Goto
  <2>3. Finishing(r)'
    <3>. DEFINE step == IF fin[r][1].step \in {"check", "release"} THEN "end" ELSE "release"
                one == [fin[r][1] EXCEPT !.step = step]
    <3>1. fin[r] \in [Slots -> Finishes] /\ 1 \in Slots /\ 2 \in Slots
      BY DEF Slots
    <3>2. one.step # "none"
      BY <3>1 DEF Finishes
    <3>3. \/ fin' = [fin EXCEPT ![r] = [fin[r] EXCEPT ![1] = one]]
          \/ \E n : fin' = [fin EXCEPT ![r] = [[fin[r] EXCEPT ![1] = one] EXCEPT ![2] = n]]
      BY <1>10, <3>1 DEF CancelInline
    <3>. HIDE DEF one
    <3>4. fin'[r][1] = one
      BY <3>1, <3>3
    <3>. QED  BY <3>2, <3>4
  <2>4. record'[r] # "none" => hold'[r] # "none"
    <3>1. hold[r] # "none"
      BY <2>1 DEF Recorded, Endings
    <3>2. hold' = hold \/ hold' = [hold EXCEPT ![r] = Settled(r, fin[r][1].status)]
      BY <1>10 DEF CancelInline
    <3>3. Settled(r, fin[r][1].status) # "none"
      BY <3>1 DEF Settled
    <3>. QED  BY <3>1, <3>2, <3>3
  <2>5. call[r].permit = "lost" => "opener" \in broken[r]
    BY <2>1
  <2>. QED  BY <2>1, <2>2, <2>3, <2>4, <2>5
<1>. QED  BY <1>1, <1>2, <1>3, <1>4, <1>5, <1>6, <1>7, <1>8, <1>9, <1>10 DEF Cancel

-----------------------------------------------------------------------------
LEMMA TracesStep == TypeOK /\ Local /\ Traces /\ [Next]_vars => Traces'
<1>. SUFFICES ASSUME TypeOK, Local, Traces, [Next]_vars PROVE Traces'
  OBVIOUS
<1>1. ASSUME NEW r \in Requests, Run(r) \/ Tasks(r) \/ Cancel(r)
      PROVE  Traces'
  <2>1. Leased(r) /\ Recorded(r) /\ Trace(r)
    BY DEF Local, Traces
  <2>2. Kept(r) /\ Traced(r)
    BY <1>1, <2>1, BeginKept, AskKept, PassOnKept, TasksKept, CancelKept,
       BeginTraced, AskTraced, PassOnTraced, TasksTraced, CancelTraced DEF Run
  <2>3. ASSUME NEW q \in Requests \ {r} PROVE Trace(q)'
    BY <2>2, <2>3
    DEF Kept, Same, Traced, Traces, Trace, FirstHit, Begun, Ended, Finishing, Owned, Closed,
        RecordClosed, HoldClosed
  <2>. QED  BY <2>2, <2>3 DEF Traced, Traces
<1>2. CASE UNCHANGED vars
  BY <1>2 DEF vars, Traces, Trace, FirstHit, Begun, Ended, Finishing, Owned, Closed,
        RecordClosed, HoldClosed
<1>. QED  BY <1>1, <1>2 DEF Next

LEMMA TracesAlways == Spec => [](TypeOK /\ Local /\ Traces)
<1>1. Init => TypeOK /\ Local /\ Traces
  BY LocalInit, TracesInit
<1>2. TypeOK /\ Local /\ Traces /\ [Next]_vars => (TypeOK /\ Local /\ Traces)'
  BY LocalStep, TracesStep
<1>. QED  BY <1>1, <1>2, PTL DEF Spec

\* A call that is over is closed in both tables (finish_call), however it
\* ended and however often it was cancelled, unless its first cancellation
\* came at one of the awaits named by Unfinished or a storage error broke off
\* its finish_call().
LEMMA AccountedForAlways == Spec => []AccountedFor
<1>1. TypeOK /\ Traces => AccountedFor
  <2>. SUFFICES ASSUME TypeOK, Traces, NEW r \in Requests,
                       Quiet(r), record[r] # "none", hit[r] \notin Unfinished
                PROVE  Closed(r)
    BY DEF AccountedFor, Closed
  <2>1. Trace(r) /\ pc[r] = "done"
    BY DEF Traces, Quiet
  <2>2. CASE call[r].finalized
    BY <2>1, <2>2 DEF Trace, Ended
  <2>3. CASE Finishing(r)
    <3>1. fin[r][1].step \in {"none", "end"} /\ 1 \in Slots
      BY DEF Quiet, Running, Slots
    <3>. QED  BY <2>1, <2>3, <3>1 DEF Trace, Ended, Finishing
  <2>. QED  BY <2>1, <2>2, <2>3 DEF Trace, Ended
<1>. QED  BY <1>1, TracesAlways, PTL

\* The permit of a call that is over is back in its account's semaphore, but
\* for a first cancellation in the opener, in an unstarted stream or in an
\* unshielded close (open_responses, stream_response, close), and for a
\* storage error that an opener does not catch.
LEMMA PermitBackAlways == Spec => []PermitBack
<1>1. TypeOK /\ Traces => PermitBack
  <2>. SUFFICES ASSUME TypeOK, Traces, NEW r \in Requests, Quiet(r), call[r].permit # "none"
                PROVE  /\ call[r].permit = "lost"
                       /\ \/ hit[r] \in {"sending", "unstarted", "collecting", "letgo"}
                          \/ "opener" \in broken[r]
    BY DEF PermitBack
  <2>1. Owned(r) /\ pc[r] = "done" /\ closer[r] # "aclose"
    BY DEF Traces, Trace, Quiet
  <2>2. call[r].permit \in {"held", "lost"}
    BY DEF TypeOK, Calls
  <2>. QED  BY <2>1, <2>2 DEF Owned, Holding
<1>. QED  BY <1>1, TracesAlways, PTL

\* A call leaves an open record, an open hold or a permit behind only by the
\* cancellations and the storage errors that AccountedFor and PermitBack name:
\* for any number of requests, accounts, attempts, cancellations and errors of
\* the store, and whether or not upstream bodies are objects.
THEOREM CallsLeaveNothingAlways == Spec => []CallsLeaveNothing
<1>1. AccountedFor /\ PermitBack => CallsLeaveNothing
  BY DEF CallsLeaveNothing
<1>. QED  BY <1>1, AccountedForAlways, PermitBackAlways, PTL

-----------------------------------------------------------------------------
(* A streamed answer on its way to a client of another protocol (Streams), *)
(* for any of the providers, any of the client protocols and an answer of  *)
(* any number of fragments.                                                *)
(*                                                                         *)
(* StreamInv, far below, relates what was said, what the translator and    *)
(* the converter remember of it and what was sent.  That a step keeps it   *)
(* is a matter of the converters alone: Talk says what a message that goes *)
(* on looks like, and Told, Over and Fails what one event makes of it.     *)
CONSTANTS Providers, Clients, MaxPieces
VARIABLES provider, client, said, pieces, closed, items, conv, sent, phase

Relay == INSTANCE Streams

\* Induction over the numbers, of what holds on a set of them.
LEMMA Counting ==
  ASSUME NEW P, 0 \in P, \A n \in Nat : n \in P => n + 1 \in P
  PROVE  Nat \subseteq P
<1>. DEFINE T == Nat \ P
<1>1. SUFFICES ASSUME T # {} PROVE FALSE
  OBVIOUS
<1>2. T \subseteq Nat
  OBVIOUS
<1>3. PICK n \in T : \A m \in T : ~(<<m, n>> \in OpToRel(<, Nat))
  BY <1>1, <1>2, WFMin, NatLessThanWellFounded, Zenon
<1>4. \A m \in T : ~(m < n)
  BY <1>2, <1>3 DEF OpToRel
<1>5. n \in Nat /\ n # 0 /\ n \notin P
  OBVIOUS
<1>6. n - 1 \in Nat /\ n - 1 < n /\ (n - 1) + 1 = n
  BY <1>5
<1>7. n - 1 \in P
  BY <1>4, <1>6
<1>. QED  BY <1>5, <1>6, <1>7

\* The same up to a bound.
LEMMA CountingTo ==
  ASSUME NEW N \in Nat, NEW P, 0 \in P, \A n \in 0..N : n < N /\ n \in P => n + 1 \in P
  PROVE  0..N \subseteq P
<1>. DEFINE Q == {n \in Nat : n <= N => n \in P}
<1>1. 0 \in Q
  OBVIOUS
<1>2. \A n \in Nat : n \in Q => n + 1 \in Q
  OBVIOUS
<1>. HIDE DEF Q
<1>3. Nat \subseteq Q
  BY <1>1, <1>2, Counting
<1>. QED  BY <1>3 DEF Q

\* What step by step makes of a first value, is a function: Step[n] takes the
\* value after n - 1 steps to that after n.
Unrolls(f, N, first, Step) ==
  /\ f = [n \in 0..N |-> f[n]] /\ f[0] = first
  /\ \A n \in 1..N : f[n] = Step[n][f[n - 1]]

LEMMA Recursion ==
  ASSUME NEW N \in Nat, NEW T, NEW first \in T, NEW Step \in [1..N -> [T -> T]]
  PROVE  \E f : Unrolls(f, N, first, Step)
<1>. DEFINE P == {n \in 0..N : \E f \in [0..n -> T] : f[0] = first /\ \A k \in 1..n : f[k] = Step[k][f[k - 1]]}
<1>1. 0 \in P
  <2>. DEFINE f == [k \in 0..0 |-> first]
  <2>1. f \in [0..0 -> T] /\ f[0] = first /\ \A k \in 1..0 : f[k] = Step[k][f[k - 1]]
    OBVIOUS
  <2>. HIDE DEF f
  <2>2. \E h \in [0..0 -> T] : h[0] = first /\ \A k \in 1..0 : h[k] = Step[k][h[k - 1]]
    BY <2>1
  <2>. QED  BY <2>2
<1>2. ASSUME NEW n \in 0..N, n < N, n \in P PROVE n + 1 \in P
  <2>1. PICK f \in [0..n -> T] : f[0] = first /\ \A k \in 1..n : f[k] = Step[k][f[k - 1]]
    BY <1>2
  <2>. DEFINE g == [k \in 0..(n + 1) |-> IF k = n + 1 THEN Step[n + 1][f[n]] ELSE f[k]]
  <2>2. n + 1 \in 1..N /\ n \in 0..n
    BY <1>2
  <2>3. Step[n + 1][f[n]] \in T
    BY <2>2
  <2>4. g \in [0..(n + 1) -> T]
    BY <2>3
  <2>5. g[0] = first
    BY <2>1
  <2>6. ASSUME NEW k \in 1..(n + 1) PROVE g[k] = Step[k][g[k - 1]]
    BY <2>1
  <2>. HIDE DEF g
  <2>7. \E h \in [0..(n + 1) -> T] : h[0] = first /\ \A k \in 1..(n + 1) : h[k] = Step[k][h[k - 1]]
    BY <2>4, <2>5, <2>6
  <2>. QED  BY <2>2, <2>7
<1>. HIDE DEF P
<1>3. \A n \in 0..N : n < N /\ n \in P => n + 1 \in P
  BY <1>2
<1>4. 0..N \subseteq P /\ N \in 0..N
  <2>1. 0..N \subseteq P
    BY <1>1, <1>3, CountingTo, Zenon
  <2>. QED  BY <2>1
<1>5. PICK f \in [0..N -> T] : f[0] = first /\ \A k \in 1..N : f[k] = Step[k][f[k - 1]]
  BY <1>4 DEF P
<1>. QED  BY <1>5 DEF Unrolls


\* One element more of s.
Picks(s, S, f) ==
  f = [n \in 0..Len(s) |->
         IF n = 0 THEN <<>> ELSE IF s[n] \in S THEN Append(f[n - 1], s[n]) ELSE f[n - 1]]

LEMMA PicksExist ==
  ASSUME NEW T, NEW s \in Seq(T), NEW S
  PROVE  \E f : Picks(s, S, f) /\ Relay!Only(s, S) = f[Len(s)]
<1>. DEFINE Step == [n \in 1..Len(s) |-> [x \in Seq(T) |-> IF s[n] \in S THEN Append(x, s[n]) ELSE x]]
<1>1. Step \in [1..Len(s) -> [Seq(T) -> Seq(T)]]
  OBVIOUS
<1>2. Len(s) \in Nat /\ <<>> \in Seq(T)
  OBVIOUS
<1>. HIDE DEF Step
<1>3. PICK f : Unrolls(f, Len(s), <<>>, Step)
  BY <1>1, <1>2, Recursion
<1>. DEFINE P == {n \in 0..Len(s) : f[n] \in Seq(T)}
<1>4. 0 \in P
  BY <1>2, <1>3 DEF Unrolls
<1>5. \A n \in 0..Len(s) : n < Len(s) /\ n \in P => n + 1 \in P
  <2>. SUFFICES ASSUME NEW n \in 0..Len(s), n < Len(s), n \in P PROVE n + 1 \in P
    OBVIOUS
  <2>1. n + 1 \in 1..Len(s) /\ (n + 1) - 1 = n
    BY <1>2
  <2>2. f[n + 1] = Step[n + 1][f[n]]
    BY <1>3, <2>1 DEF Unrolls
  <2>3. f[n + 1] \in Seq(T)
    BY <1>1, <2>1, <2>2
  <2>. QED  BY <2>1, <2>3
<1>6. \A n \in 0..Len(s) : f[n] \in Seq(T)
  <2>. HIDE DEF P
  <2>1. 0..Len(s) \subseteq P
    BY <1>2, <1>4, <1>5, CountingTo
  <2>. QED  BY <2>1 DEF P
<1>7. \A n \in 1..Len(s) : f[n] = IF s[n] \in S THEN Append(f[n - 1], s[n]) ELSE f[n - 1]
  <2>. SUFFICES ASSUME NEW n \in 1..Len(s) PROVE f[n] = IF s[n] \in S THEN Append(f[n - 1], s[n]) ELSE f[n - 1]
    OBVIOUS
  <2>1. n - 1 \in 0..Len(s)
    BY <1>2
  <2>2. f[n] = Step[n][f[n - 1]]
    BY <1>3 DEF Unrolls
  <2>3. f[n - 1] \in Seq(T)
    BY <1>6, <2>1
  <2>. QED  BY <2>2, <2>3 DEF Step
<1>8. Picks(s, S, f)
  <2>1. f = [n \in 0..Len(s) |-> f[n]] /\ f[0] = <<>>
    BY <1>3 DEF Unrolls
  <2>2. \A n \in 0..Len(s) : f[n] = IF n = 0 THEN <<>> ELSE IF s[n] \in S
          THEN Append(f[n - 1], s[n]) ELSE f[n - 1]
    <3>1. \A n \in 0..Len(s) : n = 0 \/ n \in 1..Len(s)
      BY <1>2
    <3>. QED  BY <1>7, <2>1, <3>1
  <2>. QED  BY <2>1, <2>2, Zenon DEF Picks
<1>. DEFINE g == CHOOSE g : Picks(s, S, g)
<1>9. Picks(s, S, g)
  BY <1>8
<1>10. Relay!Only(s, S) = g[Len(s)]
  BY <1>9 DEF Relay!Only, Picks
<1>. QED  BY <1>9, <1>10

\* A list with one element more.
Longer(s, x, a) ==
  /\ Len(s) \in Nat /\ DOMAIN s = 1..Len(s) /\ Len(s) + 1 \notin DOMAIN s
  /\ DOMAIN a = DOMAIN s \cup {Len(s) + 1} /\ a[Len(s) + 1] = x
  /\ \A k \in DOMAIN s : a[k] = s[k]

LEMMA AppendIs ==
  ASSUME NEW T, NEW s \in Seq(T), NEW x \in T
  PROVE  Append(s, x) \in Seq(T) /\ Longer(s, x, Append(s, x))
<1>. DEFINE a == Append(s, x)
<1>1. Append(s, x) \in Seq(T) /\ Len(Append(s, x)) = Len(s) + 1 /\ Len(s) \in Nat
  OBVIOUS
<1>2. DOMAIN s = 1..Len(s) /\ DOMAIN Append(s, x) = 1..(Len(s) + 1)
  BY <1>1
<1>3. \A k \in 1..Len(s) : a[k] = s[k]
  OBVIOUS
<1>4. a[Len(s) + 1] = x
  OBVIOUS
<1>5. 1..(Len(s) + 1) = 1..Len(s) \cup {Len(s) + 1} /\ Len(s) + 1 \notin 1..Len(s)
  BY <1>1
<1>. HIDE DEF a
<1>. QED  BY <1>1, <1>2, <1>3, <1>4, <1>5, Zenon DEF Longer, a

\* Where the elements of a joined list come from.
Joined(s, t, u) ==
  /\ Len(s) \in Nat /\ Len(t) \in Nat /\ Len(u) = Len(s) + Len(t)
  /\ DOMAIN u = 1..(Len(s) + Len(t)) /\ DOMAIN s = 1..Len(s) /\ DOMAIN t = 1..Len(t)
  /\ \A k \in 1..Len(s) : u[k] = s[k]
  /\ \A k \in 1..Len(t) : u[Len(s) + k] = t[k]
  /\ \A k \in DOMAIN u : k \in 1..Len(s) \/ \E j \in 1..Len(t) : k = Len(s) + j

LEMMA ConcatIs ==
  ASSUME NEW T, NEW s \in Seq(T), NEW t \in Seq(T)
  PROVE  s \o t \in Seq(T) /\ Joined(s, t, s \o t)
<1>. DEFINE u == s \o t
<1>1. u \in Seq(T) /\ Len(u) = Len(s) + Len(t) /\ Len(s) \in Nat /\ Len(t) \in Nat
  OBVIOUS
<1>2. DOMAIN s = 1..Len(s) /\ DOMAIN t = 1..Len(t) /\ DOMAIN u = 1..(Len(s) + Len(t))
  BY <1>1
<1>3. \A k \in 1..Len(s) : u[k] = s[k]
  BY <1>1
<1>4. \A k \in 1..Len(t) : u[Len(s) + k] = t[k]
  BY <1>1
<1>5. ASSUME NEW k \in 1..(Len(s) + Len(t)), k \notin 1..Len(s) PROVE \E j \in 1..Len(t) : k = Len(s) + j
  <2>1. k - Len(s) \in 1..Len(t) /\ k = Len(s) + (k - Len(s))
    BY <1>1, <1>5
  <2>. QED  BY <2>1
<1>. HIDE DEF u
<1>. QED  BY <1>1, <1>2, <1>3, <1>4, <1>5 DEF Joined

\* The joined list, part by part.
Joins(parts, f) ==
  f = [n \in 0..Len(parts) |-> IF n = 0 THEN <<>> ELSE f[n - 1] \o parts[n]]

LEMMA JoinsExist ==
  ASSUME NEW T, NEW parts \in Seq(Seq(T))
  PROVE  \E f : /\ Joins(parts, f) /\ Relay!FlattenSeq(parts) = f[Len(parts)]
                /\ \A n \in 0..Len(parts) : f[n] \in Seq(T)
<1>. DEFINE N == Len(parts)
<1>. DEFINE Step == [n \in 1..N |-> [x \in Seq(T) |-> x \o parts[n]]]
<1>0. \A n \in 1..N : parts[n] \in Seq(T)
  OBVIOUS
<1>1. Step \in [1..N -> [Seq(T) -> Seq(T)]]
  <2>1. \A n \in 1..N : \A x \in Seq(T) : x \o parts[n] \in Seq(T)
    BY <1>0
  <2>. QED  BY <2>1
<1>2. N \in Nat /\ <<>> \in Seq(T) /\ DOMAIN parts = 1..N
  OBVIOUS
<1>. HIDE DEF Step
<1>3. PICK f : Unrolls(f, N, <<>>, Step)
  BY <1>1, <1>2, Recursion
<1>. DEFINE P == {n \in 0..N : f[n] \in Seq(T)}
<1>4. 0 \in P
  <2>1. f[0] = <<>>
    BY <1>3 DEF Unrolls
  <2>2. 0 \in 0..N /\ f[0] \in Seq(T)
    BY <1>2, <2>1
  <2>. QED  BY <2>2
<1>5. \A n \in 0..N : n < N /\ n \in P => n + 1 \in P
  <2>. SUFFICES ASSUME NEW n \in 0..N, n < N, n \in P PROVE n + 1 \in P
    OBVIOUS
  <2>1. n + 1 \in 1..N /\ (n + 1) - 1 = n
    BY <1>2
  <2>2. f[n + 1] = Step[n + 1][f[n]]
    BY <1>3, <2>1 DEF Unrolls
  <2>3. f[n + 1] \in Seq(T)
    BY <1>1, <2>1, <2>2
  <2>. QED  BY <2>1, <2>3
<1>6. \A n \in 0..N : f[n] \in Seq(T)
  <2>. HIDE DEF P
  <2>1. 0..N \subseteq P
    BY <1>2, <1>4, <1>5, CountingTo
  <2>. QED  BY <2>1 DEF P
<1>7. \A n \in 1..N : f[n] = f[n - 1] \o parts[n]
  <2>. SUFFICES ASSUME NEW n \in 1..N PROVE f[n] = f[n - 1] \o parts[n]
    OBVIOUS
  <2>1. n - 1 \in 0..N
    BY <1>2
  <2>2. f[n] = Step[n][f[n - 1]]
    BY <1>3 DEF Unrolls
  <2>3. f[n - 1] \in Seq(T)
    BY <1>6, <2>1
  <2>. QED  BY <2>2, <2>3 DEF Step
<1>8. Joins(parts, f)
  <2>1. f = [n \in 0..N |-> f[n]] /\ f[0] = <<>>
    BY <1>3 DEF Unrolls
  <2>2. \A n \in 0..N : f[n] = IF n = 0 THEN <<>> ELSE f[n - 1] \o parts[n]
    <3>1. \A n \in 0..N : n = 0 \/ n \in 1..N
      BY <1>2
    <3>. QED  BY <1>7, <2>1, <3>1
  <2>. QED  BY <2>1, <2>2, Zenon DEF Joins
<1>9. Relay!FlattenSeq(parts) = f[N]
  <2>1. CASE N = 0
    <3>1. parts = <<>>
      BY <2>1
    <3>2. Relay!FlattenSeq(parts) = parts
      BY <2>1 DEF Relay!FlattenSeq
    <3>. QED  BY <1>3, <2>1, <3>1, <3>2 DEF Unrolls
  <2>2. CASE N # 0
    <3>. DEFINE Rec(g) == g = [i \in 1..N |-> IF i = 1 THEN parts[i] ELSE g[i - 1] \o parts[i]]
    <3>. DEFINE h == [i \in 1..N |-> f[i]]
    <3>1. ASSUME NEW i \in 1..N PROVE h[i] = IF i = 1 THEN parts[i] ELSE h[i - 1] \o parts[i]
      <4>1. CASE i = 1
        <5>1. f[1] = f[0] \o parts[1] /\ f[0] = <<>> /\ parts[1] \in Seq(T)
          <6>1. 1 \in 1..N /\ 1 - 1 = 0
            BY <1>2, <2>2
          <6>. QED  BY <1>0, <1>3, <1>7, <6>1 DEF Unrolls
        <5>2. <<>> \o parts[1] = parts[1]
          BY <5>1
        <5>. QED  BY <4>1, <5>1, <5>2
      <4>2. CASE i # 1
        <5>1. i - 1 \in 1..N
          BY <1>2, <4>2
        <5>. QED  BY <1>7, <4>2, <5>1
      <4>. QED  BY <4>1, <4>2
    <3>2. Rec(h)
      <4>1. h = [i \in 1..N |-> h[i]]
        OBVIOUS
      <4>. HIDE DEF h
      <4>. QED  BY <3>1, <4>1, Zenon
    <3>. DEFINE g == CHOOSE g : Rec(g)
    <3>3. Rec(g)
      <4>. HIDE DEF Rec, h
      <4>1. \E x : Rec(x)
        BY <3>2
      <4>. QED  BY <4>1
    <3>4. Relay!FlattenSeq(parts) = g[N]
      BY <2>2 DEF Relay!FlattenSeq
    <3>. DEFINE Q == {n \in 0..N : n = 0 \/ g[n] = f[n]}
    <3>5. 0 \in Q
      BY <1>2
    <3>6. \A n \in 0..N : n < N /\ n \in Q => n + 1 \in Q
      <4>. SUFFICES ASSUME NEW n \in 0..N, n < N, n \in Q PROVE n + 1 \in Q
        OBVIOUS
      <4>1. n + 1 \in 1..N /\ (n + 1) - 1 = n /\ n + 1 \in 0..N
        <5>1. n \in 0..N /\ n < N /\ N \in Nat
          BY <1>2
        <5>. QED  BY ONLY <5>1
      <4>. HIDE DEF g
      <4>2. g[n + 1] = IF n + 1 = 1 THEN parts[n + 1] ELSE g[n] \o parts[n + 1]
        BY <3>3, <4>1
      <4>3. h[n + 1] = IF n + 1 = 1 THEN parts[n + 1] ELSE h[n] \o parts[n + 1]
        BY <3>1, <4>1
      <4>4. h[n + 1] = f[n + 1] /\ (n # 0 => h[n] = f[n])
        BY <4>1
      <4>5. g[n + 1] = f[n + 1]
        <5>. HIDE DEF h
        <5>1. CASE n = 0
          BY <4>2, <4>3, <4>4, <5>1
        <5>2. CASE n # 0
          <6>1. n + 1 # 1 /\ g[n] = f[n]
            BY <5>2
          <6>. QED  BY <4>2, <4>3, <4>4, <5>2, <6>1
        <5>. QED  BY <5>1, <5>2
      <4>. QED  BY <4>1, <4>5
    <3>. HIDE DEF Q, g
    <3>7. 0..N \subseteq Q
      BY <1>2, <3>5, <3>6, CountingTo, Zenon
    <3>8. N \in Q
      BY <1>2, <3>7
    <3>. QED  BY <2>2, <3>4, <3>8 DEF Q
  <2>. QED  BY <2>1, <2>2
<1>. QED  BY <1>6, <1>8, <1>9

\* The element k of flat is the element off[k] of the part at[k] of the first n.
Placed(parts, n, flat, at, off) ==
  /\ \A k \in DOMAIN flat : at[k] \in 1..n /\ off[k] \in DOMAIN parts[at[k]] /\ flat[k] = parts[at[k]][off[k]]
  /\ \A j, k \in DOMAIN flat : j < k => at[j] < at[k] \/ (at[j] = at[k] /\ off[j] < off[k])
  /\ \A m \in 1..n : \A i \in DOMAIN parts[m] : \E k \in DOMAIN flat : at[k] = m /\ off[k] = i
  /\ \A k \in DOMAIN flat : off[k] = 1 \/ (k - 1 \in DOMAIN flat /\ at[k - 1] = at[k] /\ off[k - 1] = off[k] - 1)

\* The part m is joined to what was placed of those before it.
Grows(T, parts, n, m, q, s, at, off, u) ==
  /\ parts \in Seq(Seq(T)) /\ n \in Nat /\ m = n + 1 /\ q \in Seq(T) /\ q = parts[m]
  /\ s \in Seq(T) /\ Placed(parts, n, s, at, off) /\ u = s \o q

LEMMA PlacedMore ==
  ASSUME NEW T, NEW parts, NEW n, NEW m, NEW q, NEW s, NEW at, NEW off, NEW u,
         Grows(T, parts, n, m, q, s, at, off, u)
  PROVE  \E a, o : Placed(parts, m, u, a, o)
<1>0. /\ parts \in Seq(Seq(T)) /\ n \in Nat /\ m = n + 1 /\ q \in Seq(T) /\ q = parts[m]
      /\ s \in Seq(T) /\ Placed(parts, n, s, at, off) /\ u = s \o q
  BY DEF Grows
<1>. USE <1>0
<1>1. Joined(s, q, u)
  BY ConcatIs
<1>. DEFINE a == [k \in DOMAIN u |-> IF k <= Len(s) THEN at[k] ELSE m]
            o == [k \in DOMAIN u |-> IF k <= Len(s) THEN off[k] ELSE k - Len(s)]
<1>2. ASSUME NEW k \in 1..Len(s)
      PROVE  /\ k \in DOMAIN u /\ k \in DOMAIN s /\ a[k] = at[k] /\ o[k] = off[k] /\ u[k] = s[k]
             /\ a[k] \in 1..n /\ o[k] \in DOMAIN parts[a[k]] /\ u[k] = parts[a[k]][o[k]]
  <2>1. k \in DOMAIN u /\ k \in DOMAIN s /\ k <= Len(s) /\ u[k] = s[k]
    BY <1>1 DEF Joined
  <2>. QED  BY <2>1 DEF Placed
<1>3. ASSUME NEW i \in 1..Len(q)
      PROVE  /\ Len(s) + i \in DOMAIN u /\ a[Len(s) + i] = m /\ o[Len(s) + i] = i /\ u[Len(s) + i] = q[i]
             /\ i \in DOMAIN q
  BY <1>1 DEF Joined
<1>. HIDE DEF a, o
<1>4. \A k \in DOMAIN u : k \in 1..Len(s) \/ \E i \in 1..Len(q) : k = Len(s) + i
  BY <1>1 DEF Joined
<1>5. Len(s) \in Nat /\ Len(q) \in Nat /\ DOMAIN s = 1..Len(s) /\ DOMAIN q = 1..Len(q)
  BY <1>1 DEF Joined
<1>6. ASSUME NEW k \in DOMAIN u
      PROVE  a[k] \in 1..m /\ o[k] \in DOMAIN parts[a[k]] /\ u[k] = parts[a[k]][o[k]]
  <2>1. CASE k \in 1..Len(s)
    <3>1. a[k] \in 1..n /\ o[k] \in DOMAIN parts[a[k]] /\ u[k] = parts[a[k]][o[k]]
      BY <1>2, <2>1, Zenon
    <3>2. a[k] \in 1..m
      BY <3>1
    <3>. QED  BY <3>1, <3>2
  <2>2. CASE k \notin 1..Len(s)
    <3>1. PICK i \in 1..Len(q) : k = Len(s) + i
      BY <1>4, <2>2
    <3>2. a[k] = m /\ o[k] = i /\ u[k] = q[i] /\ i \in DOMAIN q
      BY <1>3, <3>1, Zenon
    <3>3. m \in 1..m
      OBVIOUS
    <3>. QED  BY <3>2, <3>3
  <2>. QED  BY <2>1, <2>2
<1>7. ASSUME NEW j \in DOMAIN u, NEW k \in DOMAIN u, j < k
      PROVE  a[j] < a[k] \/ (a[j] = a[k] /\ o[j] < o[k])
  <2>1. CASE k \in 1..Len(s)
    <3>1. j \in 1..Len(s)
      <4>1. ASSUME NEW i \in 1..Len(q), j = Len(s) + i PROVE FALSE
        BY <1>5, <1>7, <2>1, <4>1
      <4>. QED  BY <1>4, <4>1
    <3>2. at[j] < at[k] \/ (at[j] = at[k] /\ off[j] < off[k])
      BY <1>5, <1>7, <2>1, <3>1 DEF Placed
    <3>3. a[j] = at[j] /\ a[k] = at[k] /\ o[j] = off[j] /\ o[k] = off[k]
      BY <1>2, <2>1, <3>1, Zenon
    <3>. QED  BY <3>2, <3>3
  <2>2. CASE k \notin 1..Len(s) /\ j \in 1..Len(s)
    <3>1. PICK i \in 1..Len(q) : k = Len(s) + i
      BY <1>4, <2>2
    <3>2. a[k] = m
      BY <1>3, <3>1, Zenon
    <3>3. a[j] \in 1..n
      BY <1>2, <2>2, Zenon
    <3>. QED  BY <3>2, <3>3
  <2>3. CASE k \notin 1..Len(s) /\ j \notin 1..Len(s)
    <3>1. PICK i \in 1..Len(q) : k = Len(s) + i
      BY <1>4, <2>3
    <3>2. PICK h \in 1..Len(q) : j = Len(s) + h
      BY <1>4, <2>3
    <3>3. a[k] = m /\ o[k] = i /\ a[j] = m /\ o[j] = h
      BY <1>3, <3>1, <3>2, Zenon
    <3>4. h < i
      BY <1>5, <1>7, <3>1, <3>2
    <3>. QED  BY <3>3, <3>4
  <2>. QED  BY <2>1, <2>2, <2>3
<1>8. ASSUME NEW p \in 1..m, NEW i \in DOMAIN parts[p] PROVE \E k \in DOMAIN u : a[k] = p /\ o[k] = i
  <2>1. CASE p = m
    <3>1. i \in 1..Len(q)
      BY <1>5, <2>1
    <3>2. Len(s) + i \in DOMAIN u /\ a[Len(s) + i] = m /\ o[Len(s) + i] = i
      BY <1>3, <3>1, Zenon
    <3>. QED  BY <2>1, <3>2
  <2>2. CASE p # m
    <3>1. p \in 1..n
      BY <2>2
    <3>2. PICK k \in DOMAIN s : at[k] = p /\ off[k] = i
      BY <3>1 DEF Placed
    <3>3. k \in DOMAIN u /\ a[k] = at[k] /\ o[k] = off[k]
      BY <1>2, <1>5, Zenon
    <3>. QED  BY <3>2, <3>3
  <2>. QED  BY <2>1, <2>2
<1>9. ASSUME NEW k \in DOMAIN u, o[k] # 1
      PROVE  k - 1 \in DOMAIN u /\ a[k - 1] = a[k] /\ o[k - 1] = o[k] - 1
  <2>1. CASE k \in 1..Len(s)
    <3>1. a[k] = at[k] /\ o[k] = off[k] /\ k \in DOMAIN s
      BY <1>2, <2>1, Zenon
    <3>2. k - 1 \in DOMAIN s /\ at[k - 1] = at[k] /\ off[k - 1] = off[k] - 1
      BY <1>9, <3>1 DEF Placed
    <3>3. k - 1 \in DOMAIN u /\ a[k - 1] = at[k - 1] /\ o[k - 1] = off[k - 1]
      BY <1>2, <1>5, <3>2, Zenon
    <3>. QED  BY <3>1, <3>2, <3>3
  <2>2. CASE k \notin 1..Len(s)
    <3>1. PICK i \in 1..Len(q) : k = Len(s) + i
      BY <1>4, <2>2
    <3>2. a[k] = m /\ o[k] = i
      BY <1>3, <3>1, Zenon
    <3>3. i - 1 \in 1..Len(q) /\ k - 1 = Len(s) + (i - 1)
      <4>1. i # 1 /\ i \in 1..Len(q)
        BY <1>9, <3>2
      <4>. QED  BY ONLY <1>5, <3>1, <4>1
    <3>4. Len(s) + (i - 1) \in DOMAIN u /\ a[Len(s) + (i - 1)] = m /\ o[Len(s) + (i - 1)] = i - 1
      BY <1>3, <3>3, Zenon
    <3>. QED  BY <3>2, <3>3, <3>4
  <2>. QED  BY <2>1, <2>2
<1>10. Placed(parts, m, u, a, o)
  BY <1>6, <1>7, <1>8, <1>9, Zenon DEF Placed
<1>. QED  BY <1>10

LEMMA FlatPlaces ==
  ASSUME NEW T, NEW parts \in Seq(Seq(T))
  PROVE  /\ Relay!FlattenSeq(parts) \in Seq(T)
         /\ \E at, off : Placed(parts, Len(parts), Relay!FlattenSeq(parts), at, off)
<1>1. PICK f : /\ Joins(parts, f) /\ Relay!FlattenSeq(parts) = f[Len(parts)]
               /\ \A n \in 0..Len(parts) : f[n] \in Seq(T)
  BY JoinsExist
<1>2. Len(parts) \in Nat /\ DOMAIN parts = 1..Len(parts)
  OBVIOUS
<1>. DEFINE P == {n \in 0..Len(parts) : \E at, off : Placed(parts, n, f[n], at, off)}
<1>3. 0 \in P
  <2>1. f[0] = <<>> /\ 0 \in 0..Len(parts)
    BY <1>1, <1>2 DEF Joins
  <2>2. DOMAIN <<>> = {} /\ 1..0 = {}
    OBVIOUS
  <2>3. Placed(parts, 0, <<>>, <<>>, <<>>)
    BY <2>2 DEF Placed
  <2>. QED  BY <2>1, <2>3
<1>4. \A n \in 0..Len(parts) : n < Len(parts) /\ n \in P => n + 1 \in P
  <2>. SUFFICES ASSUME NEW n \in 0..Len(parts), n < Len(parts), n \in P PROVE n + 1 \in P
    OBVIOUS
  <2>1. n + 1 \in 1..Len(parts) /\ (n + 1) - 1 = n /\ n + 1 \in 0..Len(parts) /\ n + 1 # 0 /\ n \in Nat
    BY <1>2
  <2>2. f[n + 1] = f[n] \o parts[n + 1]
    BY <1>1, <2>1 DEF Joins
  <2>3. parts[n + 1] \in Seq(T) /\ f[n] \in Seq(T)
    BY <1>1, <2>1
  <2>4. PICK at, off : Placed(parts, n, f[n], at, off)
    OBVIOUS
  <2>5. PICK m : m = n + 1
    OBVIOUS
  <2>6. PICK q : q = parts[m]
    OBVIOUS
  <2>7. PICK s : s = f[n]
    OBVIOUS
  <2>8. PICK u : u = f[m]
    OBVIOUS
  <2>9. q \in Seq(T) /\ s \in Seq(T) /\ u = s \o q /\ Placed(parts, n, s, at, off)
    BY <2>2, <2>3, <2>4, <2>5, <2>6, <2>7, <2>8
  <2>10. Grows(T, parts, n, m, q, s, at, off, u)
    BY <2>1, <2>5, <2>6, <2>9 DEF Grows
  <2>11. \E a, o : Placed(parts, m, u, a, o)
    BY <2>10, PlacedMore, Zenon
  <2>. QED  BY <2>1, <2>5, <2>8, <2>11
<1>. HIDE DEF P
<1>5. 0..Len(parts) \subseteq P
  BY <1>2, <1>3, <1>4, CountingTo, Zenon
<1>6. Len(parts) \in P /\ Len(parts) \in 0..Len(parts)
  BY <1>2, <1>5
<1>. QED  BY <1>1, <1>6 DEF P

-----------------------------------------------------------------------------
(* What is joined of a list (JoinOf).                                      *)

LEMMA RecursionIn ==
  ASSUME NEW N \in Nat, NEW T, NEW first \in T, NEW Step \in [1..N -> [T -> T]]
  PROVE  \E f : Unrolls(f, N, first, Step) /\ \A n \in 0..N : f[n] \in T
<1>1. PICK f : Unrolls(f, N, first, Step)
  BY Recursion
<1>. DEFINE P == {n \in 0..N : f[n] \in T}
<1>2. 0 \in P
  BY <1>1 DEF Unrolls
<1>3. \A n \in 0..N : n < N /\ n \in P => n + 1 \in P
  <2>. SUFFICES ASSUME NEW n \in 0..N, n < N, n \in P PROVE n + 1 \in P
    OBVIOUS
  <2>1. n + 1 \in 1..N /\ (n + 1) - 1 = n
    OBVIOUS
  <2>2. f[n + 1] = Step[n + 1][f[n]]
    BY <1>1, <2>1 DEF Unrolls
  <2>3. f[n + 1] \in T
    BY <2>1, <2>2
  <2>. QED  BY <2>1, <2>3
<1>4. 0..N \subseteq P
  <2>. HIDE DEF P
  <2>. QED  BY <1>2, <1>3, CountingTo
<1>. QED  BY <1>1, <1>4

\* The values of s at the places of P are lists.
Valued(T, s, P) ==
  /\ Len(s) \in Nat /\ DOMAIN s = 1..Len(s)
  /\ \A n \in 1..Len(s) : n \in P => s[n].v \in Seq(T)

\* What is joined of the first n.
JoinsAt(s, P, f) ==
  f = [n \in 0..Len(s) |-> IF n = 0 THEN <<>> ELSE IF n \in P THEN f[n - 1] \o s[n].v ELSE f[n - 1]]

LEMMA JoinOfIs ==
  ASSUME NEW T, NEW s, NEW P, Valued(T, s, P)
  PROVE  \E f : JoinsAt(s, P, f) /\ Relay!JoinOf(s, P) = f[Len(s)] /\ \A n \in 0..Len(s) : f[n] \in Seq(T)
<1>. DEFINE Step == [n \in 1..Len(s) |-> [x \in Seq(T) |-> IF n \in P THEN x \o s[n].v ELSE x]]
<1>1. Step \in [1..Len(s) -> [Seq(T) -> Seq(T)]]
  <2>1. \A n \in 1..Len(s) : \A x \in Seq(T) : (IF n \in P THEN x \o s[n].v ELSE x) \in Seq(T)
    BY DEF Valued
  <2>. QED  BY <2>1
<1>2. Len(s) \in Nat /\ <<>> \in Seq(T)
  BY DEF Valued
<1>. HIDE DEF Step
<1>3. PICK f : Unrolls(f, Len(s), <<>>, Step) /\ \A n \in 0..Len(s) : f[n] \in Seq(T)
  BY <1>1, <1>2, RecursionIn
<1>4. \A n \in 1..Len(s) : f[n] = IF n \in P THEN f[n - 1] \o s[n].v ELSE f[n - 1]
  <2>. SUFFICES ASSUME NEW n \in 1..Len(s) PROVE f[n] = IF n \in P THEN f[n - 1] \o s[n].v ELSE f[n - 1]
    OBVIOUS
  <2>1. n - 1 \in 0..Len(s)
    BY <1>2
  <2>2. f[n] = Step[n][f[n - 1]]
    BY <1>3 DEF Unrolls
  <2>3. f[n - 1] \in Seq(T)
    BY <1>3, <2>1
  <2>. QED  BY <2>2, <2>3 DEF Step
<1>5. JoinsAt(s, P, f)
  <2>1. f = [n \in 0..Len(s) |-> f[n]] /\ f[0] = <<>>
    BY <1>3 DEF Unrolls
  <2>2. \A n \in 0..Len(s) : f[n] = IF n = 0 THEN <<>> ELSE IF n \in P THEN f[n - 1] \o s[n].v ELSE f[n - 1]
    <3>1. \A n \in 0..Len(s) : n = 0 \/ n \in 1..Len(s)
      BY <1>2
    <3>. QED  BY <1>4, <2>1, <3>1
  <2>. QED  BY <2>1, <2>2, Zenon DEF JoinsAt
<1>. DEFINE g == CHOOSE g : JoinsAt(s, P, g)
<1>6. JoinsAt(s, P, g)
  BY <1>5
<1>7. Relay!JoinOf(s, P) = g[Len(s)]
  BY <1>6 DEF Relay!JoinOf, JoinsAt
<1>. HIDE DEF g
<1>8. g = f
  <2>. DEFINE Q == {n \in 0..Len(s) : g[n] = f[n]}
  <2>1. 0 \in Q
    <3>1. 0 \in 0..Len(s)
      BY <1>2
    <3>. QED  BY <1>5, <1>6, <3>1 DEF JoinsAt
  <2>2. \A n \in 0..Len(s) : n < Len(s) /\ n \in Q => n + 1 \in Q
    <3>. SUFFICES ASSUME NEW n \in 0..Len(s), n < Len(s), n \in Q PROVE n + 1 \in Q
      OBVIOUS
    <3>1. n + 1 \in 0..Len(s) /\ (n + 1) - 1 = n /\ n + 1 # 0
      BY <1>2
    <3>2. f[n + 1] = IF n + 1 \in P THEN f[n] \o s[n + 1].v ELSE f[n]
      BY <1>5, <3>1 DEF JoinsAt
    <3>3. g[n + 1] = IF n + 1 \in P THEN g[n] \o s[n + 1].v ELSE g[n]
      BY <1>6, <3>1 DEF JoinsAt
    <3>. QED  BY <3>1, <3>2, <3>3
  <2>3. 0..Len(s) \subseteq Q
    <3>. HIDE DEF Q
    <3>. QED  BY <1>2, <2>1, <2>2, CountingTo
  <2>4. \A n \in 0..Len(s) : g[n] = f[n]
    BY <2>3
  <2>5. f = [n \in 0..Len(s) |-> f[n]]
    BY <1>3 DEF Unrolls
  <2>6. g = [n \in 0..Len(s) |-> g[n]]
    <3>1. DOMAIN g = 0..Len(s)
      BY <1>6, Zenon DEF JoinsAt
    <3>2. g = [n \in DOMAIN g |-> g[n]]
      BY <1>6 DEF JoinsAt
    <3>. QED  BY <3>1, <3>2
  <2>. QED  BY <2>4, <2>5, <2>6
<1>. QED  BY <1>3, <1>5, <1>7, <1>8

\* What is joined of the first n, where both have the same.
Alike(s, P, f, t, Q, g, N) ==
  /\ JoinsAt(s, P, f) /\ JoinsAt(t, Q, g) /\ Len(s) \in Nat /\ Len(t) \in Nat
  /\ N \in Nat /\ N <= Len(s) /\ N <= Len(t)
  /\ \A n \in 1..N : (n \in P <=> n \in Q) /\ (n \in P => s[n].v = t[n].v)
LEMMA JoinsAlike ==
  ASSUME NEW s, NEW P, NEW f, NEW t, NEW Q, NEW g, NEW N, Alike(s, P, f, t, Q, g, N)
  PROVE  f[N] = g[N]
<1>. USE DEF Alike
<1>. DEFINE R == {n \in 0..N : f[n] = g[n]}
<1>1. 0 \in R
  <2>1. 0 \in 0..N /\ 0 \in 0..Len(s) /\ 0 \in 0..Len(t)
    OBVIOUS
  <2>. QED  BY <2>1 DEF JoinsAt
<1>2. \A n \in 0..N : n < N /\ n \in R => n + 1 \in R
  <2>. SUFFICES ASSUME NEW n \in 0..N, n < N, n \in R PROVE n + 1 \in R
    OBVIOUS
  <2>1. n + 1 \in 1..N /\ (n + 1) - 1 = n /\ n + 1 # 0 /\ n + 1 \in 0..Len(s) /\ n + 1 \in 0..Len(t)
    OBVIOUS
  <2>2. f[n + 1] = IF n + 1 \in P THEN f[n] \o s[n + 1].v ELSE f[n]
    BY <2>1 DEF JoinsAt
  <2>3. g[n + 1] = IF n + 1 \in Q THEN g[n] \o t[n + 1].v ELSE g[n]
    BY <2>1 DEF JoinsAt
  <2>. QED  BY <2>1, <2>2, <2>3
<1>3. 0..N \subseteq R
  <2>. HIDE DEF R
  <2>. QED  BY <1>1, <1>2, CountingTo
<1>. QED  BY <1>3

LEMMA JoinSame ==
  ASSUME NEW T, NEW s, NEW P, Valued(T, s, P), NEW t, NEW Q, Valued(T, t, Q), Len(s) = Len(t),
         \A n \in 1..Len(s) : (n \in P <=> n \in Q) /\ (n \in P => s[n].v = t[n].v)
  PROVE  Relay!JoinOf(s, P) = Relay!JoinOf(t, Q) /\ Relay!JoinOf(s, P) \in Seq(T)
<1>1. PICK f : JoinsAt(s, P, f) /\ Relay!JoinOf(s, P) = f[Len(s)] /\ \A n \in 0..Len(s) : f[n] \in Seq(T)
  BY JoinOfIs
<1>2. PICK g : JoinsAt(t, Q, g) /\ Relay!JoinOf(t, Q) = g[Len(t)]
  BY JoinOfIs
<1>3. Len(s) \in Nat /\ Len(s) \in 0..Len(s)
  BY DEF Valued
<1>4. f[Len(s)] = g[Len(s)]
  <2>1. Alike(s, P, f, t, Q, g, Len(s))
    BY <1>1, <1>2, <1>3 DEF Alike
  <2>. QED  BY <2>1, JoinsAlike
<1>. QED  BY <1>1, <1>2, <1>3, <1>4

\* R has the places of P in s and, behind them, those of Q in t.
Both(T, s, P, t, Q, u, R) ==
  /\ Valued(T, s, P) /\ Valued(T, t, Q) /\ Joined(s, t, u)
  /\ \A n \in 1..Len(s) : n \in R <=> n \in P
  /\ \A n \in 1..Len(t) : Len(s) + n \in R <=> n \in Q
LEMMA JoinBoth ==
  ASSUME NEW T, NEW s, NEW P, NEW t, NEW Q, NEW u, NEW R, Both(T, s, P, t, Q, u, R)
  PROVE  Relay!JoinOf(u, R) = Relay!JoinOf(s, P) \o Relay!JoinOf(t, Q) /\ Relay!JoinOf(s, P) \in Seq(T)
           /\ Relay!JoinOf(t, Q) \in Seq(T)
<1>. USE DEF Both
<1>0. /\ Len(s) \in Nat /\ Len(t) \in Nat /\ Len(u) = Len(s) + Len(t) /\ DOMAIN u = 1..Len(u)
      /\ \A n \in 1..Len(s) : u[n] = s[n]
      /\ \A n \in 1..Len(t) : u[Len(s) + n] = t[n]
      /\ \A n \in 1..Len(u) : n \in 1..Len(s) \/ \E j \in 1..Len(t) : n = Len(s) + j
  BY DEF Joined
<1>1. PICK f : JoinsAt(s, P, f) /\ Relay!JoinOf(s, P) = f[Len(s)] /\ \A n \in 0..Len(s) : f[n] \in Seq(T)
  BY JoinOfIs
<1>2. PICK g : JoinsAt(t, Q, g) /\ Relay!JoinOf(t, Q) = g[Len(t)] /\ \A n \in 0..Len(t) : g[n] \in Seq(T)
  BY JoinOfIs
<1>3. Valued(T, u, R)
  <2>1. ASSUME NEW n \in 1..Len(u), n \in R PROVE u[n].v \in Seq(T)
    <3>1. CASE n \in 1..Len(s)
      BY <1>0, <2>1, <3>1 DEF Valued
    <3>2. ASSUME NEW j \in 1..Len(t), n = Len(s) + j PROVE u[n].v \in Seq(T)
      BY <1>0, <2>1, <3>2 DEF Valued
    <3>. QED  BY <1>0, <3>1, <3>2
  <2>2. Len(u) \in Nat
    BY <1>0
  <2>. QED  BY <1>0, <2>1, <2>2 DEF Valued
<1>4. PICK h : JoinsAt(u, R, h) /\ Relay!JoinOf(u, R) = h[Len(u)]
  BY <1>3, JoinOfIs
<1>5. h[Len(s)] = f[Len(s)]
  <2>1. /\ Len(u) \in Nat /\ Len(s) <= Len(u) /\ Len(s) <= Len(s) /\ Len(s) \in Nat
        /\ JoinsAt(s, P, f) /\ JoinsAt(u, R, h)
    BY <1>0, <1>1, <1>4
  <2>2. \A n \in 1..Len(s) : (n \in R <=> n \in P) /\ (n \in R => u[n].v = s[n].v)
    BY <1>0
  <2>3. Alike(u, R, h, s, P, f, Len(s))
    BY <2>1, <2>2 DEF Alike
  <2>. QED  BY <2>3, JoinsAlike
<1>. DEFINE a == f[Len(s)]
<1>6. a \in Seq(T) /\ Len(s) \in 0..Len(s)
  BY <1>0, <1>1
<1>. HIDE DEF a
<1>. DEFINE Z == {n \in 0..Len(t) : h[Len(s) + n] = a \o g[n]}
<1>7. 0 \in Z
  <2>1. 0 \in 0..Len(t) /\ Len(s) + 0 = Len(s)
    BY <1>0
  <2>2. g[0] = <<>>
    BY <1>2, <2>1 DEF JoinsAt
  <2>3. a \o <<>> = a
    BY <1>6
  <2>. QED  BY <1>5, <2>1, <2>2, <2>3 DEF a
<1>8. \A n \in 0..Len(t) : n < Len(t) /\ n \in Z => n + 1 \in Z
  <2>. SUFFICES ASSUME NEW n \in 0..Len(t), n < Len(t), n \in Z PROVE n + 1 \in Z
    OBVIOUS
  <2>. DEFINE m == Len(s) + (n + 1)
  <2>1. n + 1 \in 1..Len(t) /\ (n + 1) - 1 = n /\ n + 1 # 0 /\ n + 1 \in 0..Len(t)
    BY <1>0
  <2>2. m \in 0..Len(u) /\ m # 0 /\ m - 1 = Len(s) + n
    BY <1>0, <2>1
  <2>3. u[m] = t[n + 1] /\ (m \in R <=> n + 1 \in Q)
    BY <1>0, <2>1
  <2>. HIDE DEF m
  <2>4. h[m] = IF m \in R THEN h[Len(s) + n] \o u[m].v ELSE h[Len(s) + n]
    BY <1>4, <2>2 DEF JoinsAt
  <2>5. g[n + 1] = IF n + 1 \in Q THEN g[n] \o t[n + 1].v ELSE g[n]
    BY <1>2, <2>1 DEF JoinsAt
  <2>6. h[Len(s) + n] = a \o g[n] /\ g[n] \in Seq(T)
    BY <1>2
  <2>7. CASE n + 1 \in Q
    <3>1. t[n + 1].v \in Seq(T)
      BY <2>1, <2>7 DEF Valued
    <3>2. (a \o g[n]) \o t[n + 1].v = a \o (g[n] \o t[n + 1].v)
      <4>1. PICK w, y : w = t[n + 1].v /\ y = g[n]
        OBVIOUS
      <4>2. w \in Seq(T) /\ y \in Seq(T) /\ a \in Seq(T)
        BY <1>6, <2>6, <3>1, <4>1
      <4>3. (a \o y) \o w = a \o (y \o w)
        BY ONLY <4>2
      <4>. QED  BY <4>1, <4>3
    <3>3. h[m] = a \o g[n + 1]
      BY <2>3, <2>4, <2>5, <2>6, <2>7, <3>2
    <3>. QED  BY <2>1, <3>3 DEF m
  <2>8. CASE n + 1 \notin Q
    <3>1. h[m] = a \o g[n + 1]
      BY <2>3, <2>4, <2>5, <2>6, <2>8
    <3>. QED  BY <2>1, <3>1 DEF m
  <2>. QED  BY <2>7, <2>8
<1>. HIDE DEF Z
<1>9. 0..Len(t) \subseteq Z
  BY <1>0, <1>7, <1>8, CountingTo
<1>10. Len(t) \in Z /\ Len(t) \in 0..Len(t)
  BY <1>0, <1>9
<1>11. h[Len(u)] = a \o g[Len(t)]
  BY <1>0, <1>10 DEF Z
<1>. QED  BY <1>1, <1>2, <1>4, <1>6, <1>10, <1>11 DEF a

LEMMA JoinNone ==
  ASSUME NEW s, NEW P, Len(s) \in Nat, DOMAIN s = 1..Len(s), \A n \in 1..Len(s) : n \notin P
  PROVE  Relay!JoinOf(s, P) = <<>>
<1>1. Valued(Nat, s, P)
  BY DEF Valued
<1>2. PICK f : JoinsAt(s, P, f) /\ Relay!JoinOf(s, P) = f[Len(s)]
  BY <1>1, JoinOfIs
<1>. DEFINE Z == {n \in 0..Len(s) : f[n] = <<>>}
<1>3. 0 \in Z
  <2>1. 0 \in 0..Len(s)
    OBVIOUS
  <2>. QED  BY <1>2, <2>1 DEF JoinsAt
<1>4. \A n \in 0..Len(s) : n < Len(s) /\ n \in Z => n + 1 \in Z
  <2>. SUFFICES ASSUME NEW n \in 0..Len(s), n < Len(s), n \in Z PROVE n + 1 \in Z
    OBVIOUS
  <2>1. n + 1 \in 1..Len(s) /\ (n + 1) - 1 = n /\ n + 1 # 0 /\ n + 1 \in 0..Len(s)
    OBVIOUS
  <2>2. f[n + 1] = f[n]
    BY <1>2, <2>1 DEF JoinsAt
  <2>. QED  BY <2>1, <2>2
<1>5. 0..Len(s) \subseteq Z
  <2>. HIDE DEF Z
  <2>. QED  BY <1>3, <1>4, CountingTo
<1>. QED  BY <1>2, <1>5

LEMMA JoinOne ==
  ASSUME NEW T, NEW x, x.v \in Seq(T), NEW P
  PROVE  Relay!JoinOf(<<x>>, P) = IF 1 \in P THEN x.v ELSE <<>>
<1>1. Len(<<x>>) = 1 /\ DOMAIN <<x>> = 1..1 /\ <<x>>[1] = x
  OBVIOUS
<1>2. PICK s : s = <<x>>
  OBVIOUS
<1>3. Len(s) = 1 /\ DOMAIN s = 1..1 /\ s[1] = x
  BY <1>1, <1>2
<1>4. Valued(T, s, P)
  <2>1. \A n \in 1..1 : n = 1
    OBVIOUS
  <2>. QED  BY <1>3, <2>1 DEF Valued
<1>5. PICK f : JoinsAt(s, P, f) /\ Relay!JoinOf(s, P) = f[Len(s)]
  BY <1>4, JoinOfIs
<1>6. 0 \in 0..1 /\ 1 \in 0..1 /\ 1 - 1 = 0 /\ 1 # 0
  OBVIOUS
<1>7. f[0] = <<>> /\ f[1] = IF 1 \in P THEN f[0] \o x.v ELSE f[0]
  BY <1>3, <1>5, <1>6 DEF JoinsAt
<1>8. <<>> \o x.v = x.v
  OBVIOUS
<1>. QED  BY <1>2, <1>3, <1>5, <1>7, <1>8

-----------------------------------------------------------------------------
(* The blocks of a message.                                                *)

StartsOf(s) == {p \in DOMAIN s : s[p].k \in {"block_start:text", "block_start:tool"}}
StopsOf(s, i) == {p \in DOMAIN s : s[p].k = "block_stop" /\ s[p].i = i}
Deltas == {"text_delta", "json_delta"}

\* The message starts once, first.
Headed(s) == 1 \in DOMAIN s /\ \A p \in DOMAIN s : (s[p].k = "message_start") <=> (p = 1)

\* The blocks are numbered as they come.
BlockNumbers(s, next) ==
  /\ IsFiniteSet(StartsOf(s)) /\ next = Cardinality(StartsOf(s))
  /\ \A p \in StartsOf(s) :
       s[p].i = Cardinality({q \in StartsOf(s) : q < p}) /\ s[p].i \in Nat /\ s[p].i < next

\* Every block but the open one has been closed, once and before the next began.
BlocksApart(s, next, open) ==
  /\ next \in Nat /\ open \in Int
  /\ \A p, q \in StartsOf(s) : q > p => \E r \in StopsOf(s, s[p].i) : p < r /\ r < q
  /\ \A r \in DOMAIN s : s[r].k = "block_stop" => s[r].i \in Nat /\ s[r].i < next /\ s[r].i # open
  /\ \A p \in StartsOf(s) : s[p].i # open => \E r \in DOMAIN s : p < r /\ StopsOf(s, s[p].i) = {r}

\* What kind of block is open.
BlockOpen(s, open, kind) ==
  /\ open # -1 => \E p \in StartsOf(s) : s[p].i = open
  /\ \A p \in StartsOf(s) : s[p].i = open => kind \in {"text", "tool"} /\ s[p].k = Relay!BlockStart[kind]

\* A delta is for a block that is open, and if strict of its kind.
DeltasLie(s, strict) ==
  \A p \in DOMAIN s : s[p].k \in Deltas =>
    \E q \in StartsOf(s) :
      /\ q < p /\ s[q].i = s[p].i /\ \A r \in StopsOf(s, s[p].i) : r > p
      /\ strict => ((s[q].k = "block_start:text") <=> (s[p].k = "text_delta"))

Blocks(s, next, open, kind, strict) ==
  /\ Headed(s) /\ BlockNumbers(s, next) /\ BlocksApart(s, next, open)
  /\ BlockOpen(s, open, kind) /\ DeltasLie(s, strict)

\* One chunk more: c, at m.
More(s, c, u, m) ==
  /\ m \in Nat /\ m \in DOMAIN u /\ m \notin DOMAIN s /\ DOMAIN u = DOMAIN s \cup {m} /\ u[m] = c
  /\ \A p \in DOMAIN s : p \in Nat /\ p < m /\ u[p] = s[p] /\ p # m
  /\ StartsOf(s) \subseteq DOMAIN s
  /\ StartsOf(u) = IF c.k \in {"block_start:text", "block_start:tool"} THEN StartsOf(s) \cup {m} ELSE StartsOf(s)
  /\ \A i : StopsOf(u, i) = IF c.k = "block_stop" /\ c.i = i THEN StopsOf(s, i) \cup {m} ELSE StopsOf(s, i)
LEMMA OneMore ==
  ASSUME NEW s, NEW c, NEW u, Longer(s, c, u)
  PROVE  \E m : More(s, c, u, m)
<1>. DEFINE m == Len(s) + 1
<1>1. /\ m \in Nat /\ m \in DOMAIN u /\ m \notin DOMAIN s /\ DOMAIN u = DOMAIN s \cup {m} /\ u[m] = c
      /\ \A p \in DOMAIN s : p \in Nat /\ p < m /\ u[p] = s[p] /\ p # m
  BY DEF Longer
<1>. HIDE DEF m
<1>2. StartsOf(s) \subseteq DOMAIN s
  BY DEF StartsOf
<1>3. StartsOf(u) = IF c.k \in {"block_start:text", "block_start:tool"} THEN StartsOf(s) \cup {m} ELSE StartsOf(s)
  BY <1>1 DEF StartsOf
<1>4. ASSUME NEW i
      PROVE  StopsOf(u, i) = IF c.k = "block_stop" /\ c.i = i THEN StopsOf(s, i) \cup {m} ELSE StopsOf(s, i)
  BY <1>1 DEF StopsOf
<1>5. More(s, c, u, m)
  BY <1>1, <1>2, <1>3, <1>4, Zenon DEF More
<1>. QED  BY <1>5

LEMMA HeadedMore ==
  ASSUME NEW s, NEW c, NEW u, Longer(s, c, u), Headed(s), c.k # "message_start"
  PROVE  Headed(u)
<1>1. PICK m : More(s, c, u, m)
  BY OneMore
<1>2. /\ m \in DOMAIN u /\ m \notin DOMAIN s /\ DOMAIN u = DOMAIN s \cup {m} /\ u[m] = c
      /\ \A p \in DOMAIN s : u[p] = s[p]
  BY <1>1 DEF More
<1>. QED  BY <1>2 DEF Headed

\* The blocks that began before p are still those.
LEMMA BeforeIs ==
  ASSUME NEW s, NEW c, NEW u, Longer(s, c, u), NEW p \in DOMAIN s
  PROVE  {q \in StartsOf(u) : q < p} = {q \in StartsOf(s) : q < p}
<1>1. PICK m : More(s, c, u, m)
  BY OneMore
<1>2. m \in Nat /\ p \in Nat /\ p < m /\ (StartsOf(u) = StartsOf(s) \/ StartsOf(u) = StartsOf(s) \cup {m})
  BY <1>1 DEF More
<1>3. ~(m < p)
  BY <1>2
<1>. QED  BY <1>2, <1>3

LEMMA NumbersMore ==
  ASSUME NEW s, NEW c, NEW u, Longer(s, c, u), NEW next \in Nat, BlockNumbers(s, next),
         c.k \notin {"block_start:text", "block_start:tool"}
  PROVE  BlockNumbers(u, next)
<1>1. PICK m : More(s, c, u, m)
  BY OneMore
<1>2. /\ \A p \in DOMAIN s : u[p] = s[p]
      /\ StartsOf(s) \subseteq DOMAIN s /\ StartsOf(u) = StartsOf(s)
  BY <1>1 DEF More
<1>. QED  BY <1>2 DEF BlockNumbers

LEMMA NumbersStart ==
  ASSUME NEW s, NEW c, NEW u, Longer(s, c, u), NEW next \in Nat, BlockNumbers(s, next),
         c.k \in {"block_start:text", "block_start:tool"}, c.i = next
  PROVE  BlockNumbers(u, next + 1)
<1>1. PICK m : More(s, c, u, m)
  BY OneMore
<1>2. /\ m \in Nat /\ m \notin DOMAIN s /\ u[m] = c
      /\ \A p \in DOMAIN s : p \in Nat /\ p < m /\ u[p] = s[p] /\ p # m
      /\ StartsOf(s) \subseteq DOMAIN s /\ StartsOf(u) = StartsOf(s) \cup {m}
  BY <1>1 DEF More
<1>3. IsFiniteSet(StartsOf(u)) /\ Cardinality(StartsOf(u)) = next + 1
  <2>1. m \notin StartsOf(s)
    BY <1>2
  <2>. QED  BY <1>2, <2>1, FS_AddElement DEF BlockNumbers
<1>4. {q \in StartsOf(u) : q < m} = StartsOf(s)
  <2>1. ~(m < m)
    BY <1>2
  <2>. QED  BY <1>2, <2>1
<1>5. ASSUME NEW p \in StartsOf(u)
      PROVE  u[p].i = Cardinality({q \in StartsOf(u) : q < p}) /\ u[p].i \in Nat /\ u[p].i < next + 1
  <2>1. CASE p \in StartsOf(s)
    <3>1. {q \in StartsOf(u) : q < p} = {q \in StartsOf(s) : q < p}
      BY <1>2, <2>1, BeforeIs
    <3>2. u[p].i = Cardinality({q \in StartsOf(s) : q < p})
      BY <1>2, <2>1 DEF BlockNumbers
    <3>3. u[p].i \in Nat /\ u[p].i < next
      BY <1>2, <2>1 DEF BlockNumbers
    <3>4. u[p].i < next + 1
      BY <3>3
    <3>. QED  BY <3>1, <3>2, <3>3, <3>4, Zenon
  <2>2. CASE p = m
    <3>1. u[p].i = next /\ next = Cardinality(StartsOf(s)) /\ next < next + 1
      BY <1>2, <2>2 DEF BlockNumbers
    <3>. QED  BY <1>4, <2>2, <3>1
  <2>. QED  BY <1>2, <2>1, <2>2
<1>. QED  BY <1>3, <1>5 DEF BlockNumbers

\* A chunk that neither starts nor stops a block.
LEMMA ApartMore ==
  ASSUME NEW s, NEW c, NEW u, Longer(s, c, u), NEW next, NEW open, BlocksApart(s, next, open),
         c.k \notin {"block_start:text", "block_start:tool", "block_stop"}
  PROVE  BlocksApart(u, next, open)
<1>1. PICK m : More(s, c, u, m)
  BY OneMore
<1>2. /\ \A p \in DOMAIN s : u[p] = s[p]
      /\ StartsOf(s) \subseteq DOMAIN s /\ StartsOf(u) = StartsOf(s) /\ DOMAIN u = DOMAIN s \cup {m} /\ u[m] = c
      /\ \A i : StopsOf(u, i) = StopsOf(s, i)
  BY <1>1 DEF More
<1>3. \A p, q \in StartsOf(u) : q > p => \E r \in StopsOf(u, u[p].i) : p < r /\ r < q
  BY <1>2 DEF BlocksApart
<1>4. \A r \in DOMAIN u : u[r].k = "block_stop" => u[r].i \in Nat /\ u[r].i < next /\ u[r].i # open
  BY <1>2 DEF BlocksApart
<1>5. \A p \in StartsOf(u) : u[p].i # open => \E r \in DOMAIN u : p < r /\ StopsOf(u, u[p].i) = {r}
  BY <1>2 DEF BlocksApart
<1>. QED  BY <1>3, <1>4, <1>5 DEF BlocksApart

\* The open block is closed.
LEMMA ApartStop ==
  ASSUME NEW s, NEW c, NEW u, Longer(s, c, u), NEW next, NEW open, BlocksApart(s, next, open),
         open \in Nat, open < next, c.k = "block_stop", c.i = open
  PROVE  BlocksApart(u, next, -1)
<1>1. PICK m : More(s, c, u, m)
  BY OneMore
<1>2. /\ m \in Nat /\ \A p \in DOMAIN s : u[p] = s[p] /\ p < m /\ p \in Nat
      /\ StartsOf(s) \subseteq DOMAIN s /\ StartsOf(u) = StartsOf(s) /\ DOMAIN u = DOMAIN s \cup {m} /\ u[m] = c
      /\ \A i : StopsOf(u, i) = IF open = i THEN StopsOf(s, i) \cup {m} ELSE StopsOf(s, i)
  <2>1. c.k \notin {"block_start:text", "block_start:tool"}
    OBVIOUS
  <2>. QED  BY <1>1, <2>1 DEF More
<1>3. ASSUME NEW p \in StartsOf(u), NEW q \in StartsOf(u), q > p
      PROVE  \E r \in StopsOf(u, u[p].i) : p < r /\ r < q
  <2>1. PICK r \in StopsOf(s, s[p].i) : p < r /\ r < q
    BY <1>2, <1>3 DEF BlocksApart
  <2>2. r \in StopsOf(u, u[p].i)
    BY <1>2, <2>1
  <2>. QED  BY <2>1, <2>2
<1>4. \A r \in DOMAIN u : u[r].k = "block_stop" => u[r].i \in Nat /\ u[r].i < next /\ u[r].i # -1
  BY <1>2 DEF BlocksApart
<1>5. ASSUME NEW p \in StartsOf(u) PROVE \E r \in DOMAIN u : p < r /\ StopsOf(u, u[p].i) = {r}
  <2>1. CASE s[p].i = open
    <3>1. StopsOf(s, open) = {}
      BY DEF BlocksApart, StopsOf
    <3>2. StopsOf(u, u[p].i) = {m} /\ p < m /\ m \in DOMAIN u
      BY <1>2, <2>1, <3>1
    <3>. QED  BY <3>2
  <2>2. CASE s[p].i # open
    <3>1. PICK r \in DOMAIN s : p < r /\ StopsOf(s, s[p].i) = {r}
      BY <1>2, <2>2 DEF BlocksApart
    <3>2. StopsOf(u, u[p].i) = {r} /\ r \in DOMAIN u
      BY <1>2, <2>2, <3>1
    <3>. QED  BY <3>1, <3>2
  <2>. QED  BY <2>1, <2>2
<1>6. -1 \in Int /\ next \in Nat
  BY DEF BlocksApart
<1>. QED  BY <1>3, <1>4, <1>5, <1>6 DEF BlocksApart

\* A block begins while none is open.
LEMMA ApartStart ==
  ASSUME NEW s, NEW c, NEW u, Longer(s, c, u), NEW next, BlockNumbers(s, next), BlocksApart(s, next, -1),
         c.k \in {"block_start:text", "block_start:tool"}, c.i = next
  PROVE  BlocksApart(u, next + 1, next)
<1>1. PICK m : More(s, c, u, m)
  BY OneMore
<1>2. /\ m \in Nat /\ \A p \in DOMAIN s : u[p] = s[p] /\ p < m /\ p \in Nat
      /\ StartsOf(s) \subseteq DOMAIN s /\ StartsOf(u) = StartsOf(s) \cup {m}
           /\ DOMAIN u = DOMAIN s \cup {m} /\ u[m] = c
      /\ \A i : StopsOf(u, i) = StopsOf(s, i)
  <2>1. c.k # "block_stop"
    OBVIOUS
  <2>. QED  BY <1>1, <2>1 DEF More
<1>3. next \in Nat /\ \A p \in StartsOf(s) : s[p].i \in Nat /\ s[p].i < next
  BY DEF BlocksApart, BlockNumbers
<1>4. ASSUME NEW p \in StartsOf(s) PROVE \E r \in DOMAIN s : p < r /\ StopsOf(s, s[p].i) = {r}
  <2>1. s[p].i # -1
    BY <1>3
  <2>. QED  BY <2>1 DEF BlocksApart
<1>5. ASSUME NEW p \in StartsOf(u), NEW q \in StartsOf(u), q > p
      PROVE  \E r \in StopsOf(u, u[p].i) : p < r /\ r < q
  <2>1. p # m
    <3>1. \A x \in StartsOf(u) : x \in Nat /\ x <= m
      BY <1>2
    <3>2. p \in Nat /\ q \in Nat /\ q <= m
      BY <3>1
    <3>. QED  BY <1>2, <1>5, <3>2
  <2>2. p \in StartsOf(s) /\ u[p] = s[p]
    BY <1>2, <2>1
  <2>3. CASE q \in StartsOf(s)
    <3>1. PICK r \in StopsOf(s, s[p].i) : p < r /\ r < q
      BY <1>5, <2>2, <2>3 DEF BlocksApart
    <3>. QED  BY <1>2, <2>2, <3>1
  <2>4. CASE q = m
    <3>1. PICK r \in DOMAIN s : p < r /\ StopsOf(s, s[p].i) = {r}
      BY <1>4, <2>2
    <3>2. r \in StopsOf(u, u[p].i) /\ r < m
      BY <1>2, <2>2, <3>1
    <3>. QED  BY <2>4, <3>1, <3>2
  <2>. QED  BY <1>2, <2>3, <2>4
<1>6. ASSUME NEW r \in DOMAIN u,
             u[r].k = "block_stop" PROVE u[r].i \in Nat /\ u[r].i < next + 1 /\ u[r].i # next
  <2>1. r \in DOMAIN s /\ u[r] = s[r]
    <3>1. r # m
      BY <1>2, <1>6
    <3>. QED  BY <1>2, <3>1
  <2>2. s[r].i \in Nat /\ s[r].i < next
    BY <1>6, <2>1 DEF BlocksApart
  <2>. QED  BY <1>3, <2>1, <2>2
<1>7. ASSUME NEW p \in StartsOf(u),
             u[p].i # next PROVE \E r \in DOMAIN u : p < r /\ StopsOf(u, u[p].i) = {r}
  <2>1. p \in StartsOf(s) /\ u[p] = s[p]
    BY <1>2, <1>7
  <2>2. PICK r \in DOMAIN s : p < r /\ StopsOf(s, s[p].i) = {r}
    BY <1>4, <2>1
  <2>. QED  BY <1>2, <2>1, <2>2
<1>8. next + 1 \in Nat /\ next \in Int
  BY <1>3
<1>. QED  BY <1>5, <1>6, <1>7, <1>8 DEF BlocksApart

LEMMA OpenMore ==
  ASSUME NEW s, NEW c, NEW u, Longer(s, c, u), NEW open, NEW kind, BlockOpen(s, open, kind),
         c.k \notin {"block_start:text", "block_start:tool"}
  PROVE  BlockOpen(u, open, kind)
<1>1. PICK m : More(s, c, u, m)
  BY OneMore
<1>2. \A p \in DOMAIN s : u[p] = s[p]
  BY <1>1 DEF More
<1>3. StartsOf(s) \subseteq DOMAIN s /\ StartsOf(u) = StartsOf(s)
  BY <1>1 DEF More
<1>. QED  BY <1>2, <1>3 DEF BlockOpen

LEMMA OpenStart ==
  ASSUME NEW s, NEW c, NEW u, Longer(s, c, u), NEW next, BlockNumbers(s, next),
         NEW kind \in {"text", "tool"},
         next \in Nat, c.k = Relay!BlockStart[kind], c.i = next
  PROVE  BlockOpen(u, next, kind) /\ c.k \in {"block_start:text", "block_start:tool"}
<1>0. c.k \in {"block_start:text", "block_start:tool"}
  BY DEF Relay!BlockStart
<1>1. PICK m : More(s, c, u, m)
  BY OneMore
<1>2. \A p \in DOMAIN s : u[p] = s[p]
  BY <1>1 DEF More
<1>3. StartsOf(s) \subseteq DOMAIN s /\ StartsOf(u) = StartsOf(s) \cup {m} /\ u[m] = c
  BY <1>0, <1>1 DEF More
<1>4. \A p \in StartsOf(u) : u[p].i = next => u[p].k = Relay!BlockStart[kind]
  <2>. SUFFICES ASSUME NEW p \in StartsOf(u), u[p].i = next PROVE p = m
    BY <1>3
  <2>. SUFFICES ASSUME p # m PROVE FALSE
    OBVIOUS
  <2>1. p \in StartsOf(s) /\ s[p].i = next
    BY <1>2, <1>3
  <2>2. s[p].i < next /\ s[p].i \in Nat
    BY <2>1 DEF BlockNumbers
  <2>. QED  BY <2>1, <2>2
<1>5. \E p \in StartsOf(u) : u[p].i = next
  BY <1>3
<1>. QED  BY <1>0, <1>4, <1>5 DEF BlockOpen

\* Deltas stay where they are: a stop comes behind them.
LEMMA DeltasMore ==
  ASSUME NEW s, NEW c, NEW u, Longer(s, c, u), NEW strict, DeltasLie(s, strict), c.k \notin Deltas
  PROVE  DeltasLie(u, strict)
<1>1. PICK m : More(s, c, u, m)
  BY OneMore
<1>2. /\ m \in Nat /\ DOMAIN u = DOMAIN s \cup {m} /\ u[m] = c
      /\ \A p \in DOMAIN s : p \in Nat /\ p < m /\ u[p] = s[p]
      /\ StartsOf(s) \subseteq DOMAIN s /\ StartsOf(s) \subseteq StartsOf(u)
      /\ \A i : StopsOf(u, i) \subseteq StopsOf(s, i) \cup {m}
  BY <1>1 DEF More
<1>3. ASSUME NEW p \in DOMAIN u, u[p].k \in Deltas
      PROVE  \E q \in StartsOf(u) :
               /\ q < p /\ u[q].i = u[p].i /\ \A r \in StopsOf(u, u[p].i) : r > p
               /\ strict => ((u[q].k = "block_start:text") <=> (u[p].k = "text_delta"))
  <2>1. p \in DOMAIN s /\ u[p] = s[p]
    BY <1>2, <1>3
  <2>2. PICK q \in StartsOf(s) :
          /\ q < p /\ s[q].i = s[p].i /\ \A r \in StopsOf(s, s[p].i) : r > p
          /\ strict => ((s[q].k = "block_start:text") <=> (s[p].k = "text_delta"))
    BY <1>3, <2>1 DEF DeltasLie
  <2>3. \A r \in StopsOf(u, u[p].i) : r > p
    <3>1. m > p
      BY <1>2, <2>1
    <3>. QED  BY <1>2, <2>1, <2>2, <3>1
  <2>4. q \in StartsOf(u) /\ u[q] = s[q]
    BY <1>2
  <2>. QED  BY <2>1, <2>2, <2>3, <2>4
<1>. QED  BY <1>3 DEF DeltasLie

LEMMA DeltasDelta ==
  ASSUME NEW s, NEW c, NEW u, Longer(s, c, u), NEW strict, NEW next, NEW open, NEW kind,
         BlocksApart(s, next, open),
         BlockOpen(s, open, kind), DeltasLie(s, strict), open # -1, c.k \in Deltas, c.i = open,
         strict => ((kind = "text") <=> (c.k = "text_delta"))
  PROVE  DeltasLie(u, strict)
<1>1. PICK m : More(s, c, u, m)
  BY OneMore
<1>2. /\ m \in Nat /\ DOMAIN u = DOMAIN s \cup {m} /\ u[m] = c
      /\ \A p \in DOMAIN s : p \in Nat /\ p < m /\ u[p] = s[p]
      /\ StartsOf(s) \subseteq DOMAIN s /\ StartsOf(s) \subseteq StartsOf(u)
      /\ \A i : StopsOf(u, i) = StopsOf(s, i)
  <2>1. c.k # "block_stop"
    BY DEF Deltas
  <2>. QED  BY <1>1, <2>1 DEF More
<1>3. ASSUME NEW p \in DOMAIN u, u[p].k \in Deltas
      PROVE  \E q \in StartsOf(u) :
               /\ q < p /\ u[q].i = u[p].i /\ \A r \in StopsOf(u, u[p].i) : r > p
               /\ strict => ((u[q].k = "block_start:text") <=> (u[p].k = "text_delta"))
  <2>1. CASE p \in DOMAIN s
    <3>1. u[p] = s[p]
      BY <1>2, <2>1
    <3>2. PICK q \in StartsOf(s) :
            /\ q < p /\ s[q].i = s[p].i /\ \A r \in StopsOf(s, s[p].i) : r > p
            /\ strict => ((s[q].k = "block_start:text") <=> (s[p].k = "text_delta"))
      BY <1>3, <2>1, <3>1 DEF DeltasLie
    <3>3. q \in StartsOf(u) /\ u[q] = s[q]
      BY <1>2
    <3>4. \A r \in StopsOf(u, u[p].i) : r > p
      BY <1>2, <3>1, <3>2
    <3>. QED  BY <3>1, <3>2, <3>3, <3>4
  <2>2. CASE p = m
    <3>1. PICK q \in StartsOf(s) : s[q].i = open
      BY DEF BlockOpen
    <3>2. kind \in {"text", "tool"} /\ s[q].k = Relay!BlockStart[kind]
      BY <3>1 DEF BlockOpen
    <3>3. (s[q].k = "block_start:text") <=> (kind = "text")
      BY <3>2 DEF Relay!BlockStart
    <3>4. q \in StartsOf(u) /\ u[q] = s[q] /\ q < m
      BY <1>2, <3>1
    <3>5. StopsOf(u, open) = {}
      BY <1>2 DEF BlocksApart, StopsOf
    <3>6. strict => ((u[q].k = "block_start:text") <=> (u[p].k = "text_delta"))
      BY <1>2, <2>2, <3>3, <3>4, Zenon
    <3>7. u[p].i = open /\ u[q].i = u[p].i
      BY <1>2, <2>2, <3>1, <3>4
    <3>. QED  BY <2>2, <3>4, <3>5, <3>6, <3>7
  <2>. QED  BY <1>2, <2>1, <2>2
<1>. QED  BY <1>3 DEF DeltasLie

-----------------------------------------------------------------------------
(* The chunks and their text.                                              *)

Kinds ==
  Relay!StopReasons \cup
    {"role", "content", "refusal", "tool", "error", "DONE", "text", "call", "STOP", "MAX_TOKENS",
      "text_delta", "json_delta",
     "message_start", "message_stop", "block_start:text", "block_start:tool", "block_stop"}
Chunks == [k : Kinds, i : Int, id : Nat, name : Nat, v : Seq(Nat)]

LEMMA ChunkIs ==
  ASSUME NEW k \in Kinds, NEW i \in Int, NEW id \in Nat, NEW name \in Nat, NEW v \in Seq(Nat),
         NEW c, c = Relay!Chunk(k, i, id, name, v)
  PROVE  c \in Chunks /\ c.k = k /\ c.i = i /\ c.id = id /\ c.name = name /\ c.v = v
BY DEF Relay!Chunk, Chunks

LEMMA PlainIs ==
  ASSUME NEW k \in Kinds, NEW c, c = Relay!Plain(k)
  PROVE  c \in Chunks /\ c.k = k /\ c.i = 0 /\ c.v = <<>>
<1>1. 0 \in Nat /\ 0 \in Int /\ <<>> \in Seq(Nat)
  OBVIOUS
<1>. QED  BY <1>1 DEF Relay!Plain, Relay!Chunk, Chunks

\* The values of the chunks of a kind, joined.
Said(s, k) == Relay!JoinOf(s, {p \in DOMAIN s : s[p].k = k})

LEMMA SaidConcat ==
  ASSUME NEW s \in Seq(Chunks), NEW t \in Seq(Chunks), NEW k
  PROVE  s \o t \in Seq(Chunks) /\ Said(s \o t, k) = Said(s, k) \o Said(t, k) /\ Said(s, k) \in Seq(Nat)
<1>1. PICK u : u = s \o t
  OBVIOUS
<1>2. Joined(s, t, u) /\ u \in Seq(Chunks)
  BY <1>1, ConcatIs
<1>3. ASSUME NEW w \in Seq(Chunks), NEW P PROVE Valued(Nat, w, P)
  <2>1. Len(w) \in Nat /\ DOMAIN w = 1..Len(w) /\ \A n \in 1..Len(w) : w[n] \in Chunks
    OBVIOUS
  <2>2. \A n \in 1..Len(w) : w[n].v \in Seq(Nat)
    BY <2>1 DEF Chunks
  <2>. QED  BY <2>1, <2>2 DEF Valued
<1>. DEFINE P == {p \in DOMAIN s : s[p].k = k}
            Q == {p \in DOMAIN t : t[p].k = k}
            R == {p \in DOMAIN u : u[p].k = k}
<1>4. \A n \in 1..Len(s) : n \in R <=> n \in P
  <2>1. \A n \in 1..Len(s) : n \in DOMAIN s /\ n \in DOMAIN u /\ u[n] = s[n]
    BY <1>2 DEF Joined
  <2>. QED  BY <2>1
<1>5. \A n \in 1..Len(t) : Len(s) + n \in R <=> n \in Q
  <2>1. \A n \in 1..Len(t) : n \in DOMAIN t /\ Len(s) + n \in DOMAIN u /\ u[Len(s) + n] = t[n]
    BY <1>2 DEF Joined
  <2>. QED  BY <2>1
<1>6. Valued(Nat, s, P) /\ Valued(Nat, t, Q)
  BY <1>3
<1>. HIDE DEF P, Q, R
<1>7. Relay!JoinOf(u, R) = Relay!JoinOf(s, P) \o Relay!JoinOf(t, Q) /\ Relay!JoinOf(s, P) \in Seq(Nat)
  <2>1. Both(Nat, s, P, t, Q, u, R)
    BY <1>2, <1>4, <1>5, <1>6 DEF Both
  <2>. QED  BY <2>1, JoinBoth
<1>. QED  BY <1>1, <1>2, <1>7 DEF Said, P, Q, R

LEMMA SaidNone ==
  ASSUME NEW t \in Seq(Chunks), NEW k, \A p \in DOMAIN t : t[p].k # k
  PROVE  Said(t, k) = <<>>
<1>1. Len(t) \in Nat /\ DOMAIN t = 1..Len(t)
  OBVIOUS
<1>. DEFINE P == {p \in DOMAIN t : t[p].k = k}
<1>2. \A n \in 1..Len(t) : n \notin P
  OBVIOUS
<1>. HIDE DEF P
<1>3. Relay!JoinOf(t, P) = <<>>
  BY <1>1, <1>2, JoinNone
<1>. QED  BY <1>3 DEF Said, P

\* Chunks of other kinds add nothing.
LEMMA SaidMute ==
  ASSUME NEW s \in Seq(Chunks), NEW t \in Seq(Chunks), NEW k, \A p \in DOMAIN t : t[p].k # k
  PROVE  Said(s \o t, k) = Said(s, k) /\ s \o t \in Seq(Chunks)
<1>1. Said(t, k) = <<>>
  BY SaidNone
<1>2. s \o t \in Seq(Chunks) /\ Said(s \o t, k) = Said(s, k) \o Said(t, k) /\ Said(s, k) \in Seq(Nat)
  BY SaidConcat
<1>3. \A x \in Seq(Nat) : x \o <<>> = x
  OBVIOUS
<1>. QED  BY <1>1, <1>2, <1>3

LEMMA SaidChunk ==
  ASSUME NEW s \in Seq(Chunks), NEW c \in Chunks
  PROVE  Append(s, c) \in Seq(Chunks) /\ Said(Append(s, c), c.k) = Said(s, c.k) \o c.v
<1>1. PICK t : t = <<c>>
  OBVIOUS
<1>2. t \in Seq(Chunks) /\ Append(s, c) = s \o t /\ DOMAIN t = {1} /\ t[1] = c
  BY <1>1
<1>3. c.v \in Seq(Nat)
  BY DEF Chunks
<1>. DEFINE P == {p \in DOMAIN t : t[p].k = c.k}
<1>4. 1 \in P
  BY <1>2
<1>. HIDE DEF P
<1>5. Relay!JoinOf(t, P) = c.v
  BY <1>1, <1>3, <1>4, JoinOne
<1>6. Said(t, c.k) = c.v
  BY <1>5 DEF Said, P
<1>7. Said(s \o t, c.k) = Said(s, c.k) \o Said(t, c.k) /\ s \o t \in Seq(Chunks)
  BY <1>2, SaidConcat
<1>. QED  BY <1>2, <1>6, <1>7

LEMMA SaidOther ==
  ASSUME NEW s \in Seq(Chunks), NEW c \in Chunks, NEW k, c.k # k
  PROVE  Append(s, c) \in Seq(Chunks) /\ Said(Append(s, c), k) = Said(s, k)
<1>1. PICK t : t = <<c>>
  OBVIOUS
<1>2. t \in Seq(Chunks) /\ Append(s, c) = s \o t /\ DOMAIN t = {1} /\ t[1] = c
  BY <1>1
<1>3. \A p \in DOMAIN t : t[p].k # k
  BY <1>2
<1>. QED  BY <1>2, <1>3, SaidMute

\* Chunk by chunk.
LEMMA Chunkwise ==
  ASSUME NEW s \in Seq(Chunks), NEW c \in Chunks, NEW t \in Seq(Chunks)
  PROVE  s \o <<>> = s /\ s \o <<c>> = Append(s, c) /\ s \o Append(t, c) = Append(s \o t, c)
         /\ t \o <<c>> = Append(t, c) /\ Append(<<>>, c) = <<c>> /\ s \o t \in Seq(Chunks)
         /\ Append(s, c) \in Seq(Chunks)
OBVIOUS

-----------------------------------------------------------------------------
(* The reason to stop.                                                     *)

NoReason(s) == \A p \in DOMAIN s : s[p].k \notin Relay!StopReasons

LEMMA QuietMore ==
  ASSUME NEW s \in Seq(Chunks), NEW c \in Chunks, NoReason(s), c.k \notin Relay!StopReasons
  PROVE  NoReason(Append(s, c))
<1>1. Longer(s, c, Append(s, c))
  BY AppendIs
<1>. QED  BY <1>1 DEF Longer, NoReason

-----------------------------------------------------------------------------
(* The state of a converter, and what was sent.                            *)

Tools == [item : Nat, call : Nat \ {0}, name : Nat, v : Seq(Nat)]
Parts == [kind : {"text", "call"}, id : Nat, name : Nat, v : Seq(Nat), signed : BOOLEAN]
Convs == [text : Seq(Nat), tools : Seq(Tools), next : Nat, open : Int, kind : {"none", "text", "tool"},
  stop : Relay!StopReasons \cup {"none"},
          completed : Seq(Parts), error : BOOLEAN]

TextKind(c) == IF c = "chat" THEN "content" ELSE IF c = "anthropic" THEN "text_delta" ELSE "text"

\* The message has begun and goes on.
Talk(c, st, s, strict) ==
  /\ st \in Convs /\ s \in Seq(Chunks) /\ NoReason(s) /\ st.text = Said(s, TextKind(c)) /\ st.open < st.next
  /\ c = "anthropic" => Blocks(s, st.next, st.open, st.kind, strict) /\ (st.open = -1 <=> st.kind = "none")

\* What the converter makes of texts and calls, before the answer ends.
Middle(e) ==
  /\ e.t \in {"text", "refusal", "added", "args", "done"} /\ e.item \in Nat /\ e.call \in Nat /\ e.name \in Nat
  /\ e.t # "refusal" => e.v \in Seq(Nat)
  /\ e.t \in {"added", "args", "done"} => e.item # 0
Told(c, st, s, strict, e, x, out) ==
  /\ out \in Seq(Chunks) /\ Talk(c, x, s \o out, strict)
  /\ x.text = (IF e.t = "text" THEN st.text \o e.v ELSE st.text)
  /\ e.t = "added" \/ st.tools # <<>> => x.tools # <<>>
  /\ e.t \in {"text", "refusal"} => x.tools = st.tools
  /\ c = "anthropic" /\ e.t \in {"added", "args"} => x.kind = (IF e.t = "added" THEN "tool" ELSE st.kind)

\* The open block is closed.
LEMMA ClosingIs ==
  ASSUME NEW st \in Convs, NEW s \in Seq(Chunks), NEW strict, Blocks(s, st.next, st.open, st.kind, strict),
         NoReason(s),
         NEW t, t = Relay!Closing(st)
  PROVE  /\ t \in Seq(Chunks) /\ Blocks(s \o t, st.next, -1, "none", strict) /\ NoReason(s \o t)
         /\ Said(s \o t, "text_delta") = Said(s, "text_delta") /\ s \o t \in Seq(Chunks)
<1>1. st.next \in Nat /\ st.open \in Int
  BY DEF Convs
<1>2. CASE st.open = -1
  <2>1. t = <<>> /\ s \o t = s
    BY <1>2 DEF Relay!Closing
  <2>2. BlockOpen(s, -1, "none")
    <3>1. \A p \in StartsOf(s) : s[p].i \in Nat
      BY DEF Blocks, BlockNumbers
    <3>. QED  BY <3>1 DEF BlockOpen
  <2>3. t \in Seq(Chunks)
    BY <2>1
  <2>4. Blocks(s, st.next, -1, "none", strict)
    BY <1>2, <2>2 DEF Blocks
  <2>. QED  BY <2>1, <2>3, <2>4
<1>3. CASE st.open # -1
  <2>1. PICK c : c = Relay!Chunk("block_stop", st.open, 0, 0, <<>>)
    OBVIOUS
  <2>2. c \in Chunks /\ c.k = "block_stop" /\ c.i = st.open
    <3>1. 0 \in Nat /\ <<>> \in Seq(Nat)
      OBVIOUS
    <3>2. "block_stop" \in Kinds
      BY DEF Kinds
    <3>. QED  BY <1>1, <2>1, <3>1, <3>2 DEF Relay!Chunk, Chunks
  <2>3. t = <<c>> /\ s \o t = Append(s, c) /\ t \in Seq(Chunks)
    BY <1>3, <2>1, <2>2 DEF Relay!Closing
  <2>4. PICK u : u = Append(s, c)
    OBVIOUS
  <2>5. Longer(s, c, u)
    BY <2>2, <2>4, AppendIs
  <2>6. PICK p \in StartsOf(s) : s[p].i = st.open
    BY <1>3 DEF Blocks, BlockOpen
  <2>7. st.open \in Nat /\ st.open < st.next
    BY <2>6 DEF Blocks, BlockNumbers
  <2>8. c.k # "message_start" /\ c.k \notin {"block_start:text", "block_start:tool"} /\ c.k \notin Deltas
        /\ c.k \notin Relay!StopReasons /\ c.k # "text_delta"
    BY <2>2 DEF Deltas, Relay!StopReasons
  <2>9. Headed(u)
    BY <2>5, <2>8, HeadedMore DEF Blocks
  <2>10. BlockNumbers(u, st.next)
    BY <1>1, <2>5, <2>8, NumbersMore DEF Blocks
  <2>11. BlocksApart(u, st.next, -1)
    BY <2>2, <2>5, <2>7, ApartStop DEF Blocks
  <2>12. BlockOpen(u, -1, "none")
    <3>1. \A q \in StartsOf(u) : u[q].i \in Nat
      BY <2>10 DEF BlockNumbers
    <3>. QED  BY <3>1 DEF BlockOpen
  <2>13. DeltasLie(u, strict)
    BY <2>5, <2>8, DeltasMore DEF Blocks
  <2>14. NoReason(u) /\ Said(u, "text_delta") = Said(s, "text_delta") /\ u \in Seq(Chunks)
    BY <2>2, <2>4, <2>8, QuietMore, SaidOther
  <2>. QED  BY <2>3, <2>4, <2>9, <2>10, <2>11, <2>12, <2>13, <2>14 DEF Blocks
<1>. QED  BY <1>2, <1>3

\* The next block begins.
Starting(st, s, strict, kind, id, name, t, z, next) ==
  /\ st \in Convs /\ s \in Seq(Chunks) /\ Blocks(s, st.next, st.open, st.kind, strict) /\ NoReason(s)
  /\ kind \in {"text", "tool"} /\ id \in Nat /\ name \in Nat /\ t = Relay!Start(st, kind, id, name)
  /\ z = s \o t /\ next = st.next
LEMMA StartIs ==
  ASSUME NEW st, NEW s, NEW strict, NEW kind, NEW id, NEW name, NEW t, NEW z, NEW next,
         Starting(st, s, strict, kind, id, name, t, z, next)
  PROVE  /\ t \in Seq(Chunks) /\ Blocks(z, next + 1, next, kind, strict) /\ NoReason(z)
         /\ Said(z, "text_delta") = Said(s, "text_delta") /\ z \in Seq(Chunks)
<1>. USE DEF Starting
<1>1. st.next \in Nat /\ st.next \in Int
  BY DEF Convs
<1>2. PICK w : w = Relay!Closing(st)
  OBVIOUS
<1>3. PICK q : q = s \o w
  OBVIOUS
<1>4. /\ w \in Seq(Chunks) /\ Blocks(q, st.next, -1, "none", strict) /\ NoReason(q)
      /\ Said(q, "text_delta") = Said(s, "text_delta") /\ q \in Seq(Chunks)
  BY <1>2, <1>3, ClosingIs
<1>5. PICK c : c = Relay!Chunk(Relay!BlockStart[kind], st.next, id, name, <<>>)
  OBVIOUS
<1>6. Relay!BlockStart[kind] \in {"block_start:text", "block_start:tool"} /\ Relay!BlockStart[kind] \in Kinds
  <2>1. Relay!BlockStart["text"] = "block_start:text" /\ Relay!BlockStart["tool"] = "block_start:tool"
    BY DEF Relay!BlockStart
  <2>. QED  BY <2>1 DEF Kinds
<1>7. c \in Chunks /\ c.k = Relay!BlockStart[kind] /\ c.i = st.next
  <2>1. <<>> \in Seq(Nat)
    OBVIOUS
  <2>. QED  BY <1>1, <1>5, <1>6, <2>1 DEF Relay!Chunk, Chunks
<1>8. t = Append(w, c) /\ s \o t = Append(q, c) /\ t \in Seq(Chunks)
  <2>1. t = w \o <<c>>
    BY <1>2, <1>5 DEF Relay!Start
  <2>2. w \o <<c>> = Append(w, c) /\ s \o Append(w, c) = Append(s \o w, c) /\ Append(w, c) \in Seq(Chunks)
    BY <1>4, <1>7, Chunkwise
  <2>. QED  BY <1>3, <2>1, <2>2
<1>9. PICK u : u = Append(q, c)
  OBVIOUS
<1>10. Longer(q, c, u)
  BY <1>4, <1>7, <1>9, AppendIs
<1>11. c.k # "message_start" /\ c.k \in {"block_start:text", "block_start:tool"} /\ c.k \notin Deltas
      /\ c.k \notin Relay!StopReasons /\ c.k # "text_delta"
  BY <1>6, <1>7 DEF Deltas, Relay!StopReasons
<1>12. Headed(u)
  BY <1>4, <1>10, <1>11, HeadedMore DEF Blocks
<1>13. BlockNumbers(u, st.next + 1)
  BY <1>1, <1>4, <1>7, <1>10, <1>11, NumbersStart DEF Blocks
<1>14. BlocksApart(u, st.next + 1, st.next)
  BY <1>4, <1>7, <1>10, <1>11, ApartStart DEF Blocks
<1>15. BlockOpen(u, st.next, kind)
  BY <1>1, <1>4, <1>7, <1>10, OpenStart DEF Blocks
<1>16. DeltasLie(u, strict)
  BY <1>4, <1>10, <1>11, DeltasMore DEF Blocks
<1>17. NoReason(u) /\ Said(u, "text_delta") = Said(q, "text_delta") /\ u \in Seq(Chunks)
  BY <1>4, <1>7, <1>9, <1>11, QuietMore, SaidOther
<1>. QED  BY <1>4, <1>8, <1>9, <1>12, <1>13, <1>14, <1>15, <1>16, <1>17 DEF Blocks

\* A delta of the open block.
LEMMA DeltaIs ==
  ASSUME NEW s \in Seq(Chunks), NEW next \in Nat, NEW open \in Int, NEW kind, NEW strict,
         Blocks(s, next, open, kind, strict), NoReason(s), open # -1,
         NEW c \in Chunks, c.k \in Deltas, c.i = open, strict => ((kind = "text") <=> (c.k = "text_delta"))
  PROVE  Blocks(Append(s, c), next, open, kind, strict) /\ NoReason(Append(s, c))
<1>1. PICK u : u = Append(s, c)
  OBVIOUS
<1>2. Longer(s, c, u)
  BY <1>1, AppendIs
<1>3. c.k # "message_start" /\ c.k \notin {"block_start:text", "block_start:tool"} /\ c.k \notin Relay!StopReasons
      /\ c.k \notin {"block_start:text", "block_start:tool", "block_stop"}
  BY DEF Deltas, Relay!StopReasons
<1>4. Headed(u)
  BY <1>2, <1>3, HeadedMore DEF Blocks
<1>5. BlockNumbers(u, next)
  BY <1>2, <1>3, NumbersMore DEF Blocks
<1>6. BlocksApart(u, next, open)
  BY <1>2, <1>3, ApartMore DEF Blocks
<1>7. BlockOpen(u, open, kind)
  BY <1>2, <1>3, OpenMore DEF Blocks
<1>8. DeltasLie(u, strict)
  BY <1>2, DeltasDelta DEF Blocks
<1>9. NoReason(u)
  BY <1>1, <1>3, QuietMore
<1>. QED  BY <1>1, <1>4, <1>5, <1>6, <1>7, <1>8, <1>9 DEF Blocks

\* A chunk that has nothing to do with blocks.
LEMMA OtherIs ==
  ASSUME NEW s \in Seq(Chunks), NEW next \in Nat, NEW open \in Int, NEW kind, NEW strict,
         Blocks(s, next, open, kind, strict), NEW c \in Chunks,
         c.k \notin Deltas \cup {"message_start", "block_start:text", "block_start:tool", "block_stop"}
  PROVE  Blocks(Append(s, c), next, open, kind, strict)
<1>1. PICK u : u = Append(s, c)
  OBVIOUS
<1>2. Longer(s, c, u)
  BY <1>1, AppendIs
<1>3. c.k # "message_start" /\ c.k \notin {"block_start:text", "block_start:tool"} /\ c.k \notin Deltas
      /\ c.k \notin {"block_start:text", "block_start:tool", "block_stop"}
  OBVIOUS
<1>4. Headed(u)
  BY <1>2, <1>3, HeadedMore DEF Blocks
<1>5. BlockNumbers(u, next)
  BY <1>2, <1>3, NumbersMore DEF Blocks
<1>6. BlocksApart(u, next, open)
  BY <1>2, <1>3, ApartMore DEF Blocks
<1>7. BlockOpen(u, open, kind)
  BY <1>2, <1>3, OpenMore DEF Blocks
<1>8. DeltasLie(u, strict)
  BY <1>2, <1>3, DeltasMore DEF Blocks
<1>. QED  BY <1>1, <1>4, <1>5, <1>6, <1>7, <1>8 DEF Blocks

-----------------------------------------------------------------------------
(* One event more.                                                         *)

LEMMA Least ==
  ASSUME NEW N \in Nat, NEW S, S \subseteq 1..N, S # {}
  PROVE  /\ (CHOOSE i \in S : \A j \in S : i <= j) \in S
         /\ \A j \in S : (CHOOSE i \in S : \A k \in S : i <= k) <= j
<1>. DEFINE P == {n \in Nat : \A m \in 0..n : m \notin S}
<1>1. SUFFICES ASSUME ~ \E i \in S : \A j \in S : i <= j PROVE FALSE
  OBVIOUS
<1>2. 0 \in P
  OBVIOUS
<1>3. \A n \in Nat : n \in P => n + 1 \in P
  <2>. SUFFICES ASSUME NEW n \in Nat, n \in P PROVE n + 1 \in P
    OBVIOUS
  <2>1. n + 1 \notin S
    <3>. SUFFICES ASSUME n + 1 \in S PROVE FALSE
      OBVIOUS
    <3>1. \A j \in S : n + 1 <= j
      <4>. SUFFICES ASSUME NEW j \in S, j <= n PROVE FALSE
        OBVIOUS
      <4>1. j \in 0..n
        OBVIOUS
      <4>. QED  BY <4>1
    <3>. QED  BY <1>1, <3>1
  <2>2. \A m \in 0..(n + 1) : m \in 0..n \/ m = n + 1
    OBVIOUS
  <2>. QED  BY <2>1, <2>2
<1>4. Nat \subseteq P
  <2>. HIDE DEF P
  <2>. QED  BY <1>2, <1>3, Counting
<1>5. \A n \in S : n \in Nat /\ n \in 0..n
  OBVIOUS
<1>. QED  BY <1>4, <1>5

\* The entry of an event's item.
LEMMA EntryIs ==
  ASSUME NEW st \in Convs, NEW e, Middle(e), e.t \in {"added", "args", "done"}, NEW v \in Seq(Nat),
         NEW o, o = Relay!WithEntry(st, e, v)
  PROVE  /\ o \in Convs /\ o.text = st.text /\ Relay!Entry(st, e) \in DOMAIN o.tools /\ o.tools # <<>>
         /\ Relay!Entry(st, e) \in Nat /\ o.next = st.next /\ o.open = st.open
<1>1. st.tools \in Seq(Tools) /\ Len(st.tools) \in Nat /\ DOMAIN st.tools = 1..Len(st.tools)
  BY DEF Convs
<1>. DEFINE same == {i \in DOMAIN st.tools : st.tools[i].item = Relay!Key(e) \/ (e.call # 0
       /\ st.tools[i].call = e.call)}
<1>2. Relay!Entry(st, e) \in 1..Len(st.tools) \/ Relay!Entry(st, e) = Len(st.tools) + 1
  <2>1. CASE same = {}
    BY <2>1 DEF Relay!Entry
  <2>2. CASE same # {}
    <3>1. Relay!Entry(st, e) = CHOOSE i \in same : \A j \in same : i <= j
      BY <2>2 DEF Relay!Entry
    <3>2. same \subseteq 1..Len(st.tools)
      BY <1>1
    <3>. HIDE DEF same
    <3>3. Relay!Entry(st, e) \in same
      BY <1>1, <2>2, <3>1, <3>2, Least
    <3>. QED  BY <3>2, <3>3
  <2>. QED  BY <2>1, <2>2
<1>. HIDE DEF same
<1>3. CASE Relay!Entry(st, e) \in DOMAIN st.tools
  <2>1. o = st
    BY <1>3 DEF Relay!WithEntry
  <2>. QED  BY <1>1, <1>3, <2>1
<1>4. CASE Relay!Entry(st, e) \notin DOMAIN st.tools
  <2>1. PICK w : w = Relay!Tool(Relay!Key(e), Relay!CallId(e), e.name, v)
    OBVIOUS
  <2>2. w \in Tools
    <3>1. Relay!Key(e) \in Nat /\ Relay!Key(e) # 0
      BY DEF Middle, Relay!Key
    <3>2. Relay!CallId(e) \in Nat /\ Relay!CallId(e) # 0 /\ e.name \in Nat
      BY <3>1 DEF Middle, Relay!CallId
    <3>. QED  BY <2>1, <3>1, <3>2 DEF Relay!Tool, Tools
  <2>3. PICK u : u = Append(st.tools, w)
    OBVIOUS
  <2>4. u \in Seq(Tools) /\ Len(u) = Len(st.tools) + 1 /\ DOMAIN u = 1..Len(u)
    BY <1>1, <2>2, <2>3
  <2>5. o = [st EXCEPT !.tools = u]
    BY <1>4, <2>1, <2>3 DEF Relay!WithEntry
  <2>6. o \in Convs /\ o.text = st.text /\ o.tools = u /\ o.next = st.next /\ o.open = st.open
    BY <2>4, <2>5 DEF Convs
  <2>7. Relay!Entry(st, e) = Len(u) /\ Relay!Entry(st, e) \in DOMAIN u /\ u # <<>>
    BY <1>1, <1>2, <1>4, <2>4
  <2>. QED  BY <1>1, <2>4, <2>6, <2>7
<1>. QED  BY <1>3, <1>4

\* The tool i of st is changed to w.
Changed(st, i, w, x) ==
  st \in Convs /\ i \in DOMAIN st.tools /\ w \in Tools /\ x = [st EXCEPT !.tools = [st.tools EXCEPT ![i] = w]]
LEMMA ToolChanged ==
  ASSUME NEW st, NEW i, NEW w, NEW x, Changed(st, i, w, x)
  PROVE  /\ x \in Convs /\ x.text = st.text /\ x.tools # <<>> /\ st.tools # <<>>
         /\ x.next = st.next /\ x.open = st.open /\ x.kind = st.kind
<1>. USE DEF Changed
<1>1. st.tools \in Seq(Tools)
  BY DEF Convs
<1>2. PICK u : u = [st.tools EXCEPT ![i] = w]
  OBVIOUS
<1>3. u \in Seq(Tools) /\ DOMAIN u = DOMAIN st.tools
  BY <1>1, <1>2
<1>4. u # <<>> /\ st.tools # <<>>
  BY <1>1, <1>3
<1>5. x = [st EXCEPT !.tools = u]
  BY <1>2
<1>. QED  BY <1>3, <1>4, <1>5 DEF Convs

\* What was told that is no text, by a client without blocks.
LEMMA TalkOn ==
  ASSUME NEW c \in {"chat", "gemini"}, NEW st, NEW s, NEW strict, Talk(c, st, s, strict), NEW strict2,
         NEW x \in Convs, x.text = st.text, x.next = st.next, x.open = st.open, NEW out \in Seq(Chunks),
         out = <<>> \/ \E d \in Chunks : out = <<d>> /\ d.k # TextKind(c) /\ d.k \notin Relay!StopReasons
  PROVE  Talk(c, x, s \o out, strict2)
<1>1. s \in Seq(Chunks) /\ NoReason(s) /\ st.text = Said(s, TextKind(c)) /\ c # "anthropic" /\ st.open < st.next
  BY DEF Talk
<1>2. CASE out = <<>>
  <2>1. s \o out = s
    BY <1>1, <1>2
  <2>. QED  BY <1>1, <2>1 DEF Talk
<1>3. ASSUME NEW d \in Chunks, out = <<d>>, d.k # TextKind(c), d.k \notin Relay!StopReasons
      PROVE  Talk(c, x, s \o out, strict2)
  <2>1. s \o out = Append(s, d)
    BY <1>1, <1>3
  <2>2. Append(s, d) \in Seq(Chunks) /\ Said(Append(s, d), TextKind(c)) = Said(s, TextKind(c))
    BY <1>1, <1>3, SaidOther
  <2>3. NoReason(Append(s, d))
    BY <1>1, <1>3, QuietMore
  <2>. QED  BY <1>1, <2>1, <2>2, <2>3 DEF Talk
<1>. QED  BY <1>2, <1>3

\* A text.
TextTold(c, st, v, x, out) ==
  /\ c \in {"chat", "gemini"} /\ v \in Seq(Nat)
  /\ x = [st EXCEPT !.text = @ \o v] /\ out = <<Relay!Chunk(TextKind(c), 0, 0, 0, v)>>
LEMMA TalkText ==
  ASSUME NEW c, NEW st, NEW s, NEW strict, Talk(c, st, s, strict), NEW v, NEW x, NEW out,
         TextTold(c, st, v, x, out)
  PROVE  Talk(c, x, s \o out, strict) /\ x.text = st.text \o v /\ x.tools = st.tools
<1>. USE DEF TextTold
<1>1. st \in Convs /\ s \in Seq(Chunks) /\ NoReason(s) /\ st.text = Said(s, TextKind(c)) /\ c # "anthropic"
      /\ st.open < st.next
  BY DEF Talk
<1>2. PICK d : d = Relay!Chunk(TextKind(c), 0, 0, 0, v)
  OBVIOUS
<1>3. TextKind(c) \in Kinds /\ TextKind(c) \notin Relay!StopReasons
  BY DEF TextKind, Kinds, Relay!StopReasons
<1>4. d \in Chunks /\ d.k = TextKind(c) /\ d.v = v
  BY <1>2, <1>3 DEF Relay!Chunk, Chunks
<1>5. s \o out = Append(s, d)
  BY <1>1, <1>2, <1>4
<1>6. Append(s, d) \in Seq(Chunks) /\ Said(Append(s, d), TextKind(c)) = Said(s, TextKind(c)) \o v
  BY <1>1, <1>4, SaidChunk
<1>7. NoReason(Append(s, d))
  BY <1>1, <1>3, <1>4, QuietMore
<1>8. x \in Convs /\ x.text = st.text \o v /\ x.tools = st.tools /\ x.next = st.next /\ x.open = st.open
  <2>1. st.text \o v \in Seq(Nat)
    BY <1>1 DEF Convs
  <2>2. PICK y : y = st.text \o v
    OBVIOUS
  <2>3. x = [st EXCEPT !.text = y]
    BY <2>2
  <2>. QED  BY <1>1, <2>1, <2>2, <2>3 DEF Convs
<1>. QED  BY <1>1, <1>5, <1>6, <1>7, <1>8 DEF Talk

LEMMA TextChunk ==
  ASSUME NEW c, NEW v \in Seq(Nat)
  PROVE  <<Relay!Chunk(TextKind(c), 0, 0, 0, v)>> \in Seq(Chunks)
<1>1. TextKind(c) \in Kinds
  BY DEF TextKind, Kinds
<1>2. PICK d : d = Relay!Chunk(TextKind(c), 0, 0, 0, v)
  OBVIOUS
<1>3. d \in Chunks
  BY <1>1, <1>2 DEF Relay!Chunk, Chunks
<1>. QED  BY <1>2, <1>3

\* An event that a chat client is told.
LEMMA ChatTold ==
  ASSUME NEW st, NEW s, NEW strict, Talk("chat", st, s, strict), NEW e, Middle(e), NEW y,
         y = Relay!ChatTell(st, e)
  PROVE  Told("chat", st, s, strict, e, y.st, y.out)
<1>1. st \in Convs /\ s \in Seq(Chunks)
  BY DEF Talk
<1>2. TextKind("chat") = "content"
  BY DEF TextKind
<1>. DEFINE i == Relay!Entry(st, e)
            open == Relay!WithEntry(st, e, IF e.t = "args" THEN <<>> ELSE e.v)
<1>3. CASE e.t = "text"
  <2>1. y = Relay!Tell([st EXCEPT !.text = @ \o e.v], <<Relay!Chunk("content", 0, 0, 0, e.v)>>)
    BY <1>3 DEF Relay!ChatTell
  <2>2. y.st = [st EXCEPT !.text = @ \o e.v] /\ y.out = <<Relay!Chunk(TextKind("chat"), 0, 0, 0, e.v)>>
    BY <1>2, <2>1 DEF Relay!Tell
  <2>3. e.v \in Seq(Nat)
    BY <1>3 DEF Middle
  <2>4. Talk("chat", y.st, s \o y.out, strict) /\ y.st.text = st.text \o e.v /\ y.st.tools = st.tools
    <3>1. TextTold("chat", st, e.v, y.st, y.out)
      BY <2>2, <2>3 DEF TextTold
    <3>2. Talk("chat", st, s, strict)
      OBVIOUS
    <3>3. PICK v : v = e.v
      OBVIOUS
    <3>4. PICK x : x = y.st
      OBVIOUS
    <3>5. PICK out : out = y.out
      OBVIOUS
    <3>6. TextTold("chat", st, v, x, out)
      BY <3>1, <3>3, <3>4, <3>5
    <3>7. Talk("chat", x, s \o out, strict)
      BY ONLY <3>6, <3>2, TalkText
    <3>8. x.text = st.text \o v
      BY ONLY <3>6, <3>2, TalkText
    <3>9. x.tools = st.tools
      BY ONLY <3>6, <3>2, TalkText
    <3>. QED  BY <3>3, <3>4, <3>5, <3>7, <3>8, <3>9
  <2>5. y.out \in Seq(Chunks)
    BY <1>2, <2>2, <2>3, TextChunk
  <2>. QED  BY <1>3, <2>4, <2>5 DEF Told
<1>4. CASE e.t = "refusal"
  <2>1. y = Relay!Tell(st, <<Relay!Plain("refusal")>>)
    BY <1>4 DEF Relay!ChatTell
  <2>2. PICK d : d = Relay!Plain("refusal")
    OBVIOUS
  <2>3. d \in Chunks /\ d.k = "refusal"
    <3>1. "refusal" \in Kinds
      BY DEF Kinds
    <3>. QED  BY <2>2, <3>1, PlainIs
  <2>4. d.k # TextKind("chat") /\ d.k \notin Relay!StopReasons /\ <<d>> \in Seq(Chunks)
    BY <1>2, <2>3 DEF Relay!StopReasons
  <2>5. y.st = st /\ y.out = <<d>>
    BY <2>1, <2>2 DEF Relay!Tell
  <2>6. Talk("chat", y.st, s \o y.out, strict)
    BY <1>1, <2>3, <2>4, <2>5, TalkOn
  <2>. QED  BY <1>4, <2>4, <2>5, <2>6 DEF Told
<1>5. CASE e.t \in {"added", "args", "done"}
  <2>1. e.v \in Seq(Nat) /\ (IF e.t = "args" THEN <<>> ELSE e.v) \in Seq(Nat)
    BY <1>5 DEF Middle
  <2>2. PICK o : o = open
    OBVIOUS
  <2>3. /\ o \in Convs /\ o.text = st.text /\ i \in DOMAIN o.tools /\ o.tools # <<>> /\ i \in Nat
        /\ o.next = st.next /\ o.open = st.open
    <3>1. PICK v : v = (IF e.t = "args" THEN <<>> ELSE e.v)
      OBVIOUS
    <3>2. v \in Seq(Nat) /\ o = Relay!WithEntry(st, e, v)
      BY <2>1, <2>2, <3>1
    <3>. HIDE DEF open
    <3>. QED  BY <1>1, <1>5, <3>2, EntryIs
  <2>4. o.tools \in Seq(Tools) /\ o.tools[i] \in Tools
    BY <2>3 DEF Convs
  <2>. HIDE DEF i, open
  <2>5. CASE e.t = "added"
    <3>1. PICK d : d = Relay!Chunk("tool", i, o.tools[i].call, o.tools[i].name, <<>>)
      OBVIOUS
    <3>2. d \in Chunks /\ d.k = "tool"
      <4>1. "tool" \in Kinds /\ i \in Int
        BY <2>3 DEF Kinds
      <4>2. o.tools[i].call \in Nat /\ o.tools[i].name \in Nat /\ <<>> \in Seq(Nat)
        BY <2>4 DEF Tools
      <4>. QED  BY <3>1, <4>1, <4>2 DEF Relay!Chunk, Chunks
    <3>3. y.st = o /\ y.out = <<d>>
      BY <2>2, <2>5, <3>1 DEF Relay!ChatTell, Relay!Tell, i, open
    <3>4. d.k # TextKind("chat") /\ d.k \notin Relay!StopReasons /\ <<d>> \in Seq(Chunks)
      BY <1>2, <3>2 DEF Relay!StopReasons
    <3>5. Talk("chat", y.st, s \o y.out, strict)
      BY <1>1, <2>3, <3>2, <3>3, <3>4, TalkOn
    <3>. QED  BY <2>3, <2>5, <3>3, <3>4, <3>5 DEF Told
  <2>6. CASE e.t = "args"
    <3>1. PICK w : w = [o.tools[i] EXCEPT !.v = @ \o e.v]
      OBVIOUS
    <3>2. w \in Tools
      <4>1. o.tools[i].v \in Seq(Nat)
        BY <2>4 DEF Tools
      <4>2. PICK u : u = o.tools[i].v \o e.v
        OBVIOUS
      <4>3. u \in Seq(Nat) /\ w = [o.tools[i] EXCEPT !.v = u]
        BY <2>1, <3>1, <4>1, <4>2
      <4>. QED  BY <2>4, <4>3 DEF Tools
    <3>3. PICK x : x = [o EXCEPT !.tools = [o.tools EXCEPT ![i] = w]]
      OBVIOUS
    <3>4. x \in Convs /\ x.text = st.text /\ x.tools # <<>> /\ x.next = st.next /\ x.open = st.open
      <4>1. Changed(o, i, w, x)
        BY <2>3, <3>2, <3>3 DEF Changed
      <4>. QED  BY <2>3, <4>1, ToolChanged
    <3>5. PICK d : d = Relay!Chunk("tool", i, 0, 0, e.v)
      OBVIOUS
    <3>6. d \in Chunks /\ d.k = "tool"
      <4>1. "tool" \in Kinds /\ i \in Int
        BY <2>3 DEF Kinds
      <4>. QED  BY <2>1, <3>5, <4>1 DEF Relay!Chunk, Chunks
    <3>7. y.st = [o EXCEPT !.tools[i].v = @ \o e.v] /\ y.out = <<d>>
      BY <2>2, <2>6, <3>5 DEF Relay!ChatTell, Relay!Tell, i, open
    <3>8. y.st = x
      BY <3>1, <3>3, <3>7
    <3>9. d.k # TextKind("chat") /\ d.k \notin Relay!StopReasons /\ <<d>> \in Seq(Chunks)
      BY <1>2, <3>6 DEF Relay!StopReasons
    <3>10. Talk("chat", y.st, s \o y.out, strict)
      BY <1>1, <3>4, <3>6, <3>7, <3>8, <3>9, TalkOn
    <3>. QED  BY <2>6, <3>4, <3>7, <3>8, <3>9, <3>10 DEF Told
  <2>7. CASE e.t = "done"
    <3>1. PICK w : w = [o.tools[i] EXCEPT !.v = e.v, !.name = e.name]
      OBVIOUS
    <3>2. w \in Tools
      BY <2>1, <2>4, <3>1 DEF Tools, Middle
    <3>3. PICK x : x = [o EXCEPT !.tools = [o.tools EXCEPT ![i] = w]]
      OBVIOUS
    <3>4. x \in Convs /\ x.text = st.text /\ x.tools # <<>> /\ x.next = st.next /\ x.open = st.open
      <4>1. Changed(o, i, w, x)
        BY <2>3, <3>2, <3>3 DEF Changed
      <4>. QED  BY <2>3, <4>1, ToolChanged
    <3>7. y.st = [o EXCEPT !.tools[i].v = e.v, !.tools[i].name = e.name] /\ y.out = <<>>
      BY <2>2, <2>7 DEF Relay!ChatTell, Relay!Silent, Relay!Tell, i, open
    <3>8. y.st = x
      BY <2>3, <2>4, <3>1, <3>3, <3>7
    <3>9. <<>> \in Seq(Chunks)
      OBVIOUS
    <3>10. Talk("chat", y.st, s \o y.out, strict)
      BY <1>1, <3>4, <3>7, <3>8, <3>9, TalkOn
    <3>. QED  BY <2>7, <3>4, <3>7, <3>8, <3>9, <3>10 DEF Told
  <2>. QED  BY <1>5, <2>5, <2>6, <2>7
<1>. QED  BY <1>3, <1>4, <1>5 DEF Middle

\* What a tool that is named is changed to.
NamedAs(st, e, x) ==
  /\ st \in Convs /\ e.call \in Nat /\ e.name \in Nat /\ e.v \in Seq(Nat)
  /\ x = LET named == {i \in DOMAIN st.tools : st.tools[i].call = e.call \/ e.call = 0}
         IN  IF named = {} THEN st
             ELSE LET i == CHOOSE j \in named : \A k \in named : j <= k
                  IN  [st EXCEPT !.tools[i].v = e.v, !.tools[i].name = e.name]
LEMMA NamedChanged ==
  ASSUME NEW st, NEW e, NEW x,
         NamedAs(st, e, x)
  PROVE  /\ x \in Convs /\ x.text = st.text /\ (st.tools # <<>> => x.tools # <<>>)
         /\ x.next = st.next /\ x.open = st.open /\ x.kind = st.kind
<1>. USE DEF NamedAs
<1>. DEFINE named == {i \in DOMAIN st.tools : st.tools[i].call = e.call \/ e.call = 0}
            i == CHOOSE j \in named : \A k \in named : j <= k
<1>1. CASE named = {}
  BY <1>1
<1>2. CASE named # {}
  <2>1. x = [st EXCEPT !.tools[i].v = e.v, !.tools[i].name = e.name]
    BY <1>2
  <2>2. st.tools \in Seq(Tools) /\ Len(st.tools) \in Nat /\ DOMAIN st.tools = 1..Len(st.tools)
    BY DEF Convs
  <2>3. named \subseteq 1..Len(st.tools)
    BY <2>2
  <2>. HIDE DEF named
  <2>4. i \in named
    BY <1>2, <2>2, <2>3, Least
  <2>5. i \in DOMAIN st.tools
    BY <2>2, <2>3, <2>4
  <2>. HIDE DEF i
  <2>6. st.tools[i] \in Tools
    BY <2>2, <2>5
  <2>7. PICK w : w = [st.tools[i] EXCEPT !.v = e.v, !.name = e.name]
    OBVIOUS
  <2>8. w \in Tools
    BY <2>6, <2>7 DEF Tools
  <2>9. x = [st EXCEPT !.tools = [st.tools EXCEPT ![i] = w]]
    BY <2>1, <2>2, <2>5, <2>6, <2>7
  <2>10. Changed(st, i, w, x)
    BY <2>5, <2>8, <2>9 DEF Changed
  <2>11. /\ x \in Convs /\ x.text = st.text /\ x.tools # <<>>
         /\ x.next = st.next /\ x.open = st.open /\ x.kind = st.kind
    BY ONLY <2>10, ToolChanged
  <2>. QED  BY <2>11
<1>. QED  BY <1>1, <1>2

\* The last tool gets more arguments.
LEMMA LastChanged ==
  ASSUME NEW st \in Convs, NEW v \in Seq(Nat), NEW x,
         x = IF st.tools = <<>> THEN st ELSE [st EXCEPT !.tools[Relay!LastTool(st)].v = @ \o v]
  PROVE  /\ x \in Convs /\ x.text = st.text /\ (st.tools # <<>> => x.tools # <<>>)
         /\ x.next = st.next /\ x.open = st.open /\ x.kind = st.kind
<1>1. CASE st.tools = <<>>
  BY <1>1
<1>2. CASE st.tools # <<>>
  <2>1. st.tools \in Seq(Tools) /\ Len(st.tools) \in Nat /\ DOMAIN st.tools = 1..Len(st.tools)
    BY DEF Convs
  <2>2. PICK i : i = Relay!LastTool(st)
    OBVIOUS
  <2>3. i \in DOMAIN st.tools
    <3>1. Len(st.tools) # 0
      BY <1>2, <2>1
    <3>. QED  BY <2>1, <2>2, <3>1 DEF Relay!LastTool
  <2>4. st.tools[i] \in Tools
    BY <2>1, <2>3
  <2>5. PICK u : u = st.tools[i].v \o v
    OBVIOUS
  <2>6. u \in Seq(Nat)
    BY <2>4, <2>5 DEF Tools
  <2>7. PICK w : w = [st.tools[i] EXCEPT !.v = u]
    OBVIOUS
  <2>8. w \in Tools
    BY <2>4, <2>6, <2>7 DEF Tools
  <2>9. x = [st EXCEPT !.tools = [st.tools EXCEPT ![i] = w]]
    BY <1>2, <2>2, <2>5, <2>7
  <2>10. Changed(st, i, w, x)
    BY <2>3, <2>8, <2>9 DEF Changed
  <2>11. /\ x \in Convs /\ x.text = st.text /\ x.tools # <<>>
         /\ x.next = st.next /\ x.open = st.open /\ x.kind = st.kind
    BY ONLY <2>10, ToolChanged
  <2>. QED  BY <2>11
<1>. QED  BY <1>1, <1>2

\* A tool more.
ToolMore(st, w, x) == st \in Convs /\ w \in Tools /\ x = [st EXCEPT !.tools = Append(@, w)]
LEMMA ToolAdded ==
  ASSUME NEW st, NEW w, NEW x, ToolMore(st, w, x)
  PROVE  /\ x \in Convs /\ x.text = st.text /\ x.tools # <<>>
         /\ x.next = st.next /\ x.open = st.open /\ x.kind = st.kind
<1>. USE DEF ToolMore
<1>1. PICK u : u = Append(st.tools, w)
  OBVIOUS
<1>2. u \in Seq(Tools) /\ u # <<>>
  <2>1. st.tools \in Seq(Tools)
    BY DEF Convs
  <2>2. Len(u) = Len(st.tools) + 1 /\ Len(st.tools) \in Nat /\ u \in Seq(Tools)
    BY <1>1, <2>1
  <2>. QED  BY <2>2
<1>3. x = [st EXCEPT !.tools = u]
  BY <1>1
<1>. QED  BY <1>2, <1>3 DEF Convs

\* An event that a client of Gemini's is told.
LEMMA GeminiTold ==
  ASSUME NEW st, NEW s, NEW strict, Talk("gemini", st, s, strict), NEW e, Middle(e), NEW y,
         y = Relay!GeminiTell(st, e)
  PROVE  Told("gemini", st, s, strict, e, y.st, y.out)
<1>1. st \in Convs /\ s \in Seq(Chunks)
  BY DEF Talk
<1>2. TextKind("gemini") = "text"
  BY DEF TextKind
<1>3. CASE e.t = "text"
  <2>1. y.st = [st EXCEPT !.text = @ \o e.v] /\ y.out = <<Relay!Chunk(TextKind("gemini"), 0, 0, 0, e.v)>>
    BY <1>2, <1>3 DEF Relay!GeminiTell, Relay!Tell
  <2>2. e.v \in Seq(Nat)
    BY <1>3 DEF Middle
  <2>3. TextTold("gemini", st, e.v, y.st, y.out)
    BY <2>1, <2>2 DEF TextTold
  <2>4. PICK v, x, out : v = e.v /\ x = y.st /\ out = y.out
    OBVIOUS
  <2>5. TextTold("gemini", st, v, x, out) /\ Talk("gemini", st, s, strict)
    BY <2>3, <2>4
  <2>6. Talk("gemini", x, s \o out, strict) /\ x.text = st.text \o v /\ x.tools = st.tools
    <3>1. Talk("gemini", x, s \o out, strict)
      BY ONLY <2>5, TalkText
    <3>2. x.text = st.text \o v
      BY ONLY <2>5, TalkText
    <3>3. x.tools = st.tools
      BY ONLY <2>5, TalkText
    <3>. QED  BY <3>1, <3>2, <3>3
  <2>7. y.out \in Seq(Chunks)
    BY <2>1, <2>2, TextChunk
  <2>. QED  BY <1>3, <2>4, <2>6, <2>7 DEF Told
<1>4. CASE e.t # "text"
  <2>1. y.out = <<>> /\ <<>> \in Seq(Chunks)
    BY <1>4 DEF Relay!GeminiTell, Relay!Silent, Relay!Tell, Middle
  <2>2. ASSUME y.st \in Convs, y.st.text = st.text, y.st.next = st.next, y.st.open = st.open
        PROVE  Talk("gemini", y.st, s \o y.out, strict)
    BY <2>1, <2>2, TalkOn
  <2>3. CASE e.t = "refusal"
    <3>1. y.st = st
      BY <2>3 DEF Relay!GeminiTell, Relay!Silent, Relay!Tell
    <3>. QED  BY <1>1, <2>1, <2>2, <2>3, <3>1 DEF Told
  <2>4. CASE e.t = "added"
    <3>1. PICK w : w = Relay!Tool(0, Relay!CallId(e), e.name, e.v)
      OBVIOUS
    <3>2. w \in Tools
      <4>1. Relay!CallId(e) \in Nat \ {0} /\ e.name \in Nat /\ e.v \in Seq(Nat) /\ 0 \in Nat
        BY <2>4 DEF Middle, Relay!CallId, Relay!Key
      <4>. QED  BY <3>1, <4>1 DEF Relay!Tool, Tools
    <3>3. y.st = [st EXCEPT !.tools = Append(@, w)]
      BY <2>4, <3>1 DEF Relay!GeminiTell, Relay!Silent, Relay!Tell
    <3>4. y.st \in Convs /\ y.st.text = st.text /\ y.st.tools # <<>> /\ y.st.next = st.next /\ y.st.open = st.open
      <4>1. ToolMore(st, w, y.st)
        BY <1>1, <3>2, <3>3 DEF ToolMore
      <4>. QED  BY <4>1, ToolAdded
    <3>. QED  BY <2>1, <2>2, <2>4, <3>4 DEF Told
  <2>5. CASE e.t = "args"
    <3>1. PICK v : v = e.v
      OBVIOUS
    <3>2. v \in Seq(Nat)
      BY <2>5, <3>1 DEF Middle
    <3>3. y.st = IF st.tools = <<>> THEN st ELSE [st EXCEPT !.tools[Relay!LastTool(st)].v = @ \o v]
      BY <2>5, <3>1 DEF Relay!GeminiTell, Relay!Silent, Relay!Tell
    <3>4. /\ y.st \in Convs /\ y.st.text = st.text /\ (st.tools # <<>> => y.st.tools # <<>>)
          /\ y.st.next = st.next /\ y.st.open = st.open
      <4>1. PICK x : x = y.st
        OBVIOUS
      <4>2. x = IF st.tools = <<>> THEN st ELSE [st EXCEPT !.tools[Relay!LastTool(st)].v = @ \o v]
        BY <3>3, <4>1
      <4>3. /\ x \in Convs /\ x.text = st.text /\ (st.tools # <<>> => x.tools # <<>>)
            /\ x.next = st.next /\ x.open = st.open /\ x.kind = st.kind
        BY <1>1, <3>2, <4>2, LastChanged
      <4>. QED  BY <4>1, <4>3
    <3>. QED  BY <2>1, <2>2, <2>5, <3>4 DEF Told
  <2>6. CASE e.t = "done"
    <3>1. e.call \in Nat /\ e.name \in Nat /\ e.v \in Seq(Nat)
      BY <2>6 DEF Middle
    <3>2. NamedAs(st, e, y.st)
      BY <1>1, <2>6, <3>1 DEF Relay!GeminiTell, Relay!Silent, Relay!Tell, NamedAs
    <3>3. /\ y.st \in Convs /\ y.st.text = st.text /\ (st.tools # <<>> => y.st.tools # <<>>)
          /\ y.st.next = st.next /\ y.st.open = st.open
      BY <3>2, NamedChanged
    <3>. QED  BY <2>1, <2>2, <2>6, <3>3 DEF Told
  <2>. QED  BY <1>4, <2>3, <2>4, <2>5, <2>6 DEF Middle
<1>. QED  BY <1>3, <1>4

-----------------------------------------------------------------------------
(* The Anthropic converter.                                                *)

\* Nothing is sent.
LEMMA SilentTalk ==
  ASSUME NEW st, NEW s, NEW strict, Talk("anthropic", st, s, strict), NEW x \in Convs, x.text = st.text,
         x.next = st.next, x.open = st.open, x.kind = st.kind
  PROVE  Talk("anthropic", x, s \o <<>>, strict)
<1>1. s \in Seq(Chunks)
  BY DEF Talk
<1>2. s \o <<>> = s
  BY <1>1
<1>. QED  BY <1>2 DEF Talk

\* A delta of the open block is sent.
LEMMA DeltaTalk ==
  ASSUME NEW x \in Convs, NEW s \in Seq(Chunks), NEW strict, Blocks(s, x.next, x.open, x.kind, strict),
         NoReason(s),
         x.open # -1, x.kind # "none", x.open < x.next,
         NEW c \in Chunks, c.k \in Deltas, c.i = x.open, strict => ((x.kind = "text") <=> (c.k = "text_delta")),
         x.text = (IF c.k = "text_delta" THEN Said(s, "text_delta") \o c.v ELSE Said(s, "text_delta"))
  PROVE  Talk("anthropic", x, Append(s, c), strict)
<1>1. x.next \in Nat /\ x.open \in Int
  BY DEF Convs
<1>2. Blocks(Append(s, c), x.next, x.open, x.kind, strict) /\ NoReason(Append(s, c))
  BY <1>1, DeltaIs
<1>3. Append(s, c) \in Seq(Chunks) /\ x.text = Said(Append(s, c), "text_delta")
  <2>1. CASE c.k = "text_delta"
    BY <2>1, SaidChunk
  <2>2. CASE c.k # "text_delta"
    BY <2>2, SaidOther
  <2>. QED  BY <2>1, <2>2
<1>. QED  BY <1>2, <1>3 DEF Talk, TextKind

\* The next block is the open one.
BlockMore(st, kind, n, z) ==
  st \in Convs /\ kind \in {"text",
    "tool"} /\ n = st.next + 1 /\ z = [st EXCEPT !.next = n, !.open = st.next, !.kind = kind]
LEMMA BlockAdded ==
  ASSUME NEW st, NEW kind, NEW n, NEW z, BlockMore(st, kind, n, z)
  PROVE  /\ z \in Convs /\ z.text = st.text /\ z.tools = st.tools
         /\ z.next = n /\ z.open = st.next /\ z.kind = kind /\ n \in Nat
<1>1. st \in Convs /\ kind \in {"none", "text", "tool"} /\ n = st.next + 1
  BY DEF BlockMore
<1>2. PICK k : k = st.next
  OBVIOUS
<1>3. k \in Nat /\ k \in Int /\ n \in Nat
  BY <1>1, <1>2 DEF Convs
<1>4. z = [st EXCEPT !.next = n, !.open = k, !.kind = kind]
  BY <1>2 DEF BlockMore
<1>5. z \in Convs
  BY ONLY <1>1, <1>3, <1>4 DEF Convs
<1>6. z.text = st.text /\ z.tools = st.tools /\ z.next = n /\ z.open = k /\ z.kind = kind
  BY ONLY <1>1, <1>4 DEF Convs
<1>. QED  BY <1>2, <1>3, <1>5, <1>6

\* What an Anthropic client is told.
LEMMA AnthropicTold ==
  ASSUME NEW st, NEW s, NEW strict, Talk("anthropic", st, s, strict), NEW e, Middle(e), NEW y,
         y = Relay!AnthropicTell(st, e),
         strict /\ e.t = "args" /\ st.open # -1 => st.kind = "tool"
  PROVE  Told("anthropic", st, s, strict, e, y.st, y.out)
<1>1. /\ st \in Convs /\ s \in Seq(Chunks) /\ NoReason(s) /\ st.text = Said(s, "text_delta")
      /\ Blocks(s, st.next, st.open, st.kind, strict) /\ (st.open = -1 <=> st.kind = "none") /\ st.open < st.next
  BY DEF Talk, TextKind
<1>2. st.next \in Nat /\ st.open \in Int /\ st.text \in Seq(Nat) /\ st.tools \in Seq(Tools)
  BY <1>1 DEF Convs
<1>3. CASE e.t = "text"
  <2>1. e.v \in Seq(Nat)
    BY <1>3 DEF Middle
  <2>2. PICK v : v = st.text \o e.v
    OBVIOUS
  <2>3. v \in Seq(Nat)
    BY <1>2, <2>1, <2>2
  <2>4. CASE st.kind = "text"
    <3>1. PICK c : c = Relay!Chunk("text_delta", st.open, 0, 0, e.v)
      OBVIOUS
    <3>2. c \in Chunks /\ c.k = "text_delta" /\ c.i = st.open /\ c.v = e.v /\ c.k \in Deltas
      <4>1. "text_delta" \in Kinds /\ "text_delta" \in Deltas
        BY DEF Kinds, Deltas
      <4>. QED  BY <1>2, <2>1, <3>1, <4>1 DEF Relay!Chunk, Chunks
    <3>3. y.st = [st EXCEPT !.text = v] /\ y.out = Append(<<>>, c)
      BY <1>3, <2>2, <2>4, <3>1 DEF Relay!AnthropicTell, Relay!Tell
    <3>4. y.out = <<c>> /\ s \o y.out = Append(s, c)
      BY <1>1, <3>2, <3>3
    <3>5. PICK x : x = y.st
      OBVIOUS
    <3>6. /\ x \in Convs /\ x.text = v /\ x.tools = st.tools
          /\ x.next = st.next /\ x.open = st.open /\ x.kind = st.kind
      BY <1>1, <2>3, <3>3, <3>5 DEF Convs
    <3>7. Talk("anthropic", x, Append(s, c), strict)
      <4>1. x.open # -1 /\ x.kind # "none" /\ x.open < x.next
        BY <1>1, <2>4, <3>6
      <4>2. Blocks(s, x.next, x.open, x.kind, strict)
        BY <1>1, <3>6
      <4>3. x.text = Said(s, "text_delta") \o c.v
        BY <1>1, <2>2, <3>2, <3>6
      <4>4. strict => ((x.kind = "text") <=> (c.k = "text_delta"))
        BY <2>4, <3>2, <3>6
      <4>. QED  BY <1>1, <3>2, <3>6, <4>1, <4>2, <4>3, <4>4, DeltaTalk
    <3>8. y.out \in Seq(Chunks)
      BY <3>2, <3>4
    <3>9. e.t = "text" /\ st.text \o e.v = v
      BY <1>3, <2>2
    <3>10. Talk("anthropic", x, s \o y.out, strict)
      BY <3>4, <3>7
    <3>. QED  BY <3>5, <3>6, <3>8, <3>9, <3>10 DEF Told
  <2>5. CASE st.kind # "text"
    <3>1. PICK b : b = Relay!Start(st, "text", 0, 0)
      OBVIOUS
    <3>2. PICK q : q = s \o b
      OBVIOUS
    <3>3. /\ b \in Seq(Chunks) /\ Blocks(q, st.next + 1, st.next, "text", strict) /\ NoReason(q)
          /\ Said(q, "text_delta") = Said(s, "text_delta") /\ q \in Seq(Chunks)
      <4>1. PICK next : next = st.next
        OBVIOUS
      <4>2. Starting(st, s, strict, "text", 0, 0, b, q, next)
        BY <1>1, <3>1, <3>2, <4>1 DEF Starting
      <4>3. /\ b \in Seq(Chunks) /\ Blocks(q, next + 1, next, "text", strict) /\ NoReason(q)
            /\ Said(q, "text_delta") = Said(s, "text_delta") /\ q \in Seq(Chunks)
        BY ONLY <4>2, StartIs
      <4>. QED  BY <4>1, <4>3
    <3>4. PICK c : c = Relay!Chunk("text_delta", st.next, 0, 0, e.v)
      OBVIOUS
    <3>5. c \in Chunks /\ c.k = "text_delta" /\ c.i = st.next /\ c.v = e.v /\ c.k \in Deltas
      <4>1. "text_delta" \in Kinds /\ "text_delta" \in Deltas
        BY DEF Kinds, Deltas
      <4>. QED  BY <1>2, <2>1, <3>4, <4>1 DEF Relay!Chunk, Chunks
    <3>6. PICK x : x = y.st
      OBVIOUS
    <3>7. PICK z, n : z = Relay!OpenBlock(st, "text") /\ n = st.next + 1
      OBVIOUS
    <3>8. BlockMore(st, "text", n, z)
      BY <1>1, <3>7 DEF Relay!OpenBlock, BlockMore
    <3>9. z \in Convs /\ z.text = st.text /\ z.tools = st.tools /\ z.next = n /\ z.open = st.next
            /\ z.kind = "text"
      BY <3>8, BlockAdded
    <3>10. x = [z EXCEPT !.text = v] /\ y.out = Append(b, c)
      <4>1. y = Relay!Tell([z EXCEPT !.text = @ \o e.v], Append(b, Relay!Chunk("text_delta", z.open, 0, 0, e.v)))
        BY <1>3, <2>5, <3>1, <3>7 DEF Relay!AnthropicTell
      <4>2. y.st = [z EXCEPT !.text = z.text \o e.v]
              /\ y.out = Append(b, Relay!Chunk("text_delta", z.open, 0, 0, e.v))
        BY <4>1 DEF Relay!Tell
      <4>. QED  BY <2>2, <3>4, <3>6, <3>9, <4>2
    <3>11. /\ x \in Convs /\ x.text = v /\ x.tools = st.tools
           /\ x.next = st.next + 1 /\ x.open = st.next /\ x.kind = "text"
      <4>1. x \in Convs /\ x.text = v /\ x.tools = z.tools /\ x.next = z.next /\ x.open = z.open
              /\ x.kind = z.kind
        BY ONLY <2>3, <3>9, <3>10 DEF Convs
      <4>. QED  BY <3>7, <3>9, <4>1
    <3>12. s \o y.out = Append(q, c)
      BY <1>1, <3>2, <3>3, <3>5, <3>10, Chunkwise
    <3>13. Talk("anthropic", x, Append(q, c), strict)
      <4>1. x.open # -1 /\ x.kind # "none" /\ x.open < x.next
        BY <1>2, <3>11
      <4>2. Blocks(q, x.next, x.open, x.kind, strict)
        BY <3>3, <3>11
      <4>3. x.text = Said(q, "text_delta") \o c.v
        BY <1>1, <2>2, <3>3, <3>5, <3>11
      <4>4. strict => ((x.kind = "text") <=> (c.k = "text_delta"))
        BY <3>5, <3>11
      <4>. QED  BY <3>3, <3>5, <3>11, <4>1, <4>2, <4>3, <4>4, DeltaTalk
    <3>14. y.out \in Seq(Chunks)
      BY <3>3, <3>5, <3>10
    <3>. QED  BY <1>3, <2>2, <3>6, <3>11, <3>12, <3>13, <3>14 DEF Told
  <2>. QED  BY <2>4, <2>5
<1>4. CASE e.t = "added"
  <2>1. PICK w : w = Relay!Tool(0, Relay!CallId(e), e.name, <<>>)
    OBVIOUS
  <2>2. w \in Tools /\ Relay!CallId(e) \in Nat /\ e.name \in Nat
    <3>1. Relay!CallId(e) \in Nat \ {0} /\ e.name \in Nat /\ <<>> \in Seq(Nat) /\ 0 \in Nat
      BY <1>4 DEF Middle, Relay!CallId, Relay!Key
    <3>. QED  BY <2>1, <3>1 DEF Relay!Tool, Tools
  <2>3. PICK b : b = Relay!Start(st, "tool", Relay!CallId(e), e.name)
    OBVIOUS
  <2>4. PICK q : q = s \o b
    OBVIOUS
  <2>5. /\ b \in Seq(Chunks) /\ Blocks(q, st.next + 1, st.next, "tool", strict) /\ NoReason(q)
        /\ Said(q, "text_delta") = Said(s, "text_delta") /\ q \in Seq(Chunks)
    <3>1. PICK id, name : id = Relay!CallId(e) /\ name = e.name
      OBVIOUS
    <3>2. id \in Nat /\ name \in Nat /\ b = Relay!Start(st, "tool", id, name)
      BY <2>2, <2>3, <3>1
    <3>3. PICK next : next = st.next
      OBVIOUS
    <3>4. Starting(st, s, strict, "tool", id, name, b, q, next)
      BY <1>1, <2>4, <3>2, <3>3 DEF Starting
    <3>5. /\ b \in Seq(Chunks) /\ Blocks(q, next + 1, next, "tool", strict) /\ NoReason(q)
          /\ Said(q, "text_delta") = Said(s, "text_delta") /\ q \in Seq(Chunks)
      BY ONLY <3>4, StartIs
    <3>. QED  BY <3>3, <3>5
  <2>6. y = Relay!Tell([Relay!OpenBlock(st, "tool") EXCEPT !.tools = Append(@, w)], b)
    BY <1>4, <2>1, <2>3 DEF Relay!AnthropicTell
  <2>7. PICK n : n = st.next + 1
    OBVIOUS
  <2>8. n \in Nat
    BY <1>2, <2>7
  <2>9. PICK z : z = Relay!OpenBlock(st, "tool")
    OBVIOUS
  <2>10. BlockMore(st, "tool", n, z)
    BY <1>1, <2>7, <2>9 DEF Relay!OpenBlock, BlockMore
  <2>11. z \in Convs /\ z.text = st.text /\ z.next = n /\ z.open = st.next /\ z.kind = "tool"
    BY <2>10, BlockAdded
  <2>12. PICK x : x = y.st
    OBVIOUS
  <2>13. x = [z EXCEPT !.tools = Append(@, w)] /\ y.out = b
    BY <2>6, <2>9, <2>12 DEF Relay!Tell
  <2>14. x \in Convs /\ x.text = z.text /\ x.tools # <<>> /\ x.next = z.next /\ x.open = z.open /\ x.kind = z.kind
    <3>1. ToolMore(z, w, x)
      BY <2>2, <2>11, <2>13 DEF ToolMore
    <3>. QED  BY <3>1, ToolAdded
  <2>15. Talk("anthropic", x, q, strict)
    <3>1. x.open # -1 /\ x.kind # "none" /\ x.open < x.next
      BY <1>2, <2>7, <2>11, <2>14
    <3>2. Blocks(q, x.next, x.open, x.kind, strict)
      BY <2>5, <2>7, <2>11, <2>14
    <3>. QED  BY <1>1, <2>5, <2>11, <2>14, <3>1, <3>2 DEF Talk, TextKind
  <2>. QED  BY <1>4, <2>4, <2>5, <2>11, <2>12, <2>13, <2>14, <2>15 DEF Told
<1>5. CASE e.t = "args"
  <2>1. e.v \in Seq(Nat)
    BY <1>5 DEF Middle
  <2>2. PICK v, x : v = e.v /\ x = y.st
    OBVIOUS
  <2>3. /\ x = IF st.tools = <<>> THEN st ELSE [st EXCEPT !.tools[Relay!LastTool(st)].v = @ \o v]
        /\ y.out = IF st.open = -1 THEN <<>> ELSE <<Relay!Chunk("json_delta", st.open, 0, 0, e.v)>>
    BY <1>5, <2>2 DEF Relay!AnthropicTell, Relay!Tell
  <2>4. /\ x \in Convs /\ x.text = st.text /\ (st.tools # <<>> => x.tools # <<>>)
        /\ x.next = st.next /\ x.open = st.open /\ x.kind = st.kind
    BY <1>1, <2>1, <2>2, <2>3, LastChanged
  <2>5. CASE st.open = -1
    <3>1. y.out = <<>>
      BY <2>3, <2>5
    <3>2. Talk("anthropic", x, s \o <<>>, strict)
      BY <2>4, SilentTalk
    <3>3. <<>> \in Seq(Chunks)
      OBVIOUS
    <3>4. Talk("anthropic", x, s \o y.out, strict) /\ y.out \in Seq(Chunks)
      BY <3>1, <3>2, <3>3
    <3>. QED  BY <1>5, <2>2, <2>4, <3>4 DEF Told
  <2>6. CASE st.open # -1
    <3>1. PICK c : c = Relay!Chunk("json_delta", st.open, 0, 0, e.v)
      OBVIOUS
    <3>2. c \in Chunks /\ c.k = "json_delta" /\ c.i = st.open /\ c.k \in Deltas
      <4>1. "json_delta" \in Kinds /\ "json_delta" \in Deltas
        BY DEF Kinds, Deltas
      <4>. QED  BY <1>2, <2>1, <3>1, <4>1 DEF Relay!Chunk, Chunks
    <3>3. y.out = <<c>> /\ s \o y.out = Append(s, c)
      <4>1. y.out = <<c>>
        BY <2>3, <2>6, <3>1
      <4>. QED  BY <1>1, <3>2, <4>1, Chunkwise
    <3>4. Talk("anthropic", x, Append(s, c), strict)
      <4>1. x.open # -1 /\ x.kind # "none" /\ x.open < x.next
        BY <1>1, <2>4, <2>6
      <4>2. Blocks(s, x.next, x.open, x.kind, strict)
        BY <1>1, <2>4
      <4>3. x.text = Said(s, "text_delta") /\ c.k # "text_delta" /\ c.i = x.open
        BY <1>1, <2>4, <3>2
      <4>4. strict => x.kind # "text"
        BY <1>5, <2>4, <2>6
      <4>5. strict => ((x.kind = "text") <=> (c.k = "text_delta"))
        BY <4>3, <4>4
      <4>. QED  BY <1>1, <2>4, <3>2, <4>1, <4>2, <4>3, <4>5, DeltaTalk
    <3>5. y.out = <<c>> /\ c \in Chunks
      BY <3>2, <3>3
    <3>6. y.out \in Seq(Chunks)
      BY <3>5
    <3>7. Talk("anthropic", x, s \o y.out, strict)
      BY <3>3, <3>4
    <3>. QED  BY <1>5, <2>2, <2>4, <3>6, <3>7 DEF Told
  <2>. QED  BY <2>5, <2>6
<1>6. CASE e.t = "done"
  <2>1. e.call \in Nat /\ e.name \in Nat /\ e.v \in Seq(Nat)
    BY <1>6 DEF Middle
  <2>2. PICK x : x = y.st
    OBVIOUS
  <2>3. NamedAs(st, e, x) /\ y.out = <<>>
    BY <1>1, <1>6, <2>1, <2>2 DEF Relay!AnthropicTell, Relay!Silent, Relay!Tell, NamedAs
  <2>4. /\ x \in Convs /\ x.text = st.text /\ (st.tools # <<>> => x.tools # <<>>)
        /\ x.next = st.next /\ x.open = st.open /\ x.kind = st.kind
    BY <2>3, NamedChanged
  <2>5. Talk("anthropic", x, s \o <<>>, strict)
    BY <2>4, SilentTalk
  <2>6. <<>> \in Seq(Chunks)
    OBVIOUS
  <2>. QED  BY <1>6, <2>2, <2>3, <2>4, <2>5, <2>6 DEF Told
<1>7. CASE e.t = "refusal"
  <2>1. y.st = st /\ y.out = <<>>
    BY <1>7 DEF Relay!AnthropicTell, Relay!Silent, Relay!Tell
  <2>2. Talk("anthropic", st, s \o <<>>, strict)
    BY <1>1, SilentTalk
  <2>3. <<>> \in Seq(Chunks)
    OBVIOUS
  <2>. QED  BY <1>1, <1>7, <2>1, <2>2, <2>3 DEF Told
<1>. QED  BY <1>3, <1>4, <1>5, <1>6, <1>7 DEF Middle

-----------------------------------------------------------------------------
(* A turn of the stream: the events one after the other.                   *)

TurnGoes(to, acc, e) ==
  LET told == Relay!Convert(to, acc.st, e) IN Relay!Tell(told.st, acc.out \o told.out)
\* What the converter has come to after n events.
Runs(to, st, events, f) ==
  f = [n \in 0..Len(events) |-> IF n = 0 THEN Relay!Silent(st) ELSE TurnGoes(to, f[n - 1], events[n])]

LEMMA RunsExist ==
  ASSUME NEW to, NEW st, NEW events, Len(events) \in Nat
  PROVE  \E f : Runs(to, st, events, f) /\ Relay!ConvertAll(to, st, events) = f[Len(events)]
<1>. DEFINE N == Len(events)
            UpTo(n, f) == /\ f = [k \in 0..n |-> f[k]] /\ f[0] = Relay!Silent(st)
                          /\ \A k \in 1..n : f[k] = TurnGoes(to, f[k - 1], events[k])
            P == {n \in 0..N : \E f : UpTo(n, f)}
<1>1. 0 \in P
  <2>. DEFINE f == [k \in 0..0 |-> Relay!Silent(st)]
  <2>1. UpTo(0, f)
    OBVIOUS
  <2>. HIDE DEF UpTo, f
  <2>. QED  BY <2>1
<1>2. \A n \in 0..N : n < N /\ n \in P => n + 1 \in P
  <2>. SUFFICES ASSUME NEW n \in 0..N, n < N, n \in P PROVE n + 1 \in P
    OBVIOUS
  <2>1. PICK f : UpTo(n, f)
    OBVIOUS
  <2>2. PICK x : x = TurnGoes(to, f[n], events[n + 1])
    OBVIOUS
  <2>. DEFINE g == [k \in 0..(n + 1) |-> IF k = n + 1 THEN x ELSE f[k]]
  <2>3. g = [k \in 0..(n + 1) |-> g[k]] /\ g[0] = Relay!Silent(st)
    BY <2>1
  <2>4. ASSUME NEW k \in 1..(n + 1) PROVE g[k] = TurnGoes(to, g[k - 1], events[k])
    <3>1. CASE k = n + 1
      <4>1. g[k] = x /\ g[k - 1] = f[n]
        BY <3>1
      <4>. QED  BY <2>2, <3>1, <4>1
    <3>2. CASE k # n + 1
      <4>1. k \in 1..n /\ g[k] = f[k] /\ g[k - 1] = f[k - 1]
        BY <3>2
      <4>. QED  BY <2>1, <4>1
    <3>. QED  BY <3>1, <3>2
  <2>. HIDE DEF g
  <2>5. UpTo(n + 1, g)
    BY <2>3, <2>4
  <2>6. n + 1 \in 0..N
    OBVIOUS
  <2>. HIDE DEF UpTo
  <2>. QED  BY <2>5, <2>6
<1>3. N \in P
  <2>. HIDE DEF P
  <2>1. 0..N \subseteq P /\ N \in 0..N
    BY <1>1, <1>2, CountingTo
  <2>. QED  BY <2>1
<1>4. PICK f : UpTo(N, f)
  BY <1>3
<1>5. Runs(to, st, events, f)
  <2>1. f = [k \in 0..N |-> f[k]]
    BY <1>4
  <2>2. \A n \in 0..N : f[n] = IF n = 0 THEN Relay!Silent(st) ELSE TurnGoes(to, f[n - 1], events[n])
    <3>1. \A n \in 0..N : n = 0 \/ n \in 1..N
      OBVIOUS
    <3>. QED  BY <1>4, <3>1
  <2>. QED  BY <2>1, <2>2, Zenon DEF Runs
<1>. DEFINE g == CHOOSE g : Runs(to, st, events, g)
<1>6. Runs(to, st, events, g)
  BY <1>5
<1>7. Relay!ConvertAll(to, st, events) = g[N]
  BY DEF Relay!ConvertAll, Runs, TurnGoes
<1>. QED  BY <1>6, <1>7

LEMMA RunStep ==
  ASSUME NEW to, NEW st, NEW events, NEW f, Runs(to, st, events, f), Len(events) \in Nat
  PROVE  f[0] = Relay!Silent(st) /\ \A n \in 1..Len(events) : f[n] = TurnGoes(to, f[n - 1], events[n])
<1>1. 0 \in 0..Len(events) /\ \A n \in 1..Len(events) : n \in 0..Len(events) /\ n # 0
  OBVIOUS
<1>. QED  BY <1>1 DEF Runs

\* One event.
LEMMA PassOne ==
  ASSUME NEW to, NEW st, NEW e, NEW y, y = Relay!Convert(to, st, e), y.out \in Seq(Chunks),
         NEW x, x = Relay!ConvertAll(to, st, <<e>>)
  PROVE  x.st = y.st /\ x.out = y.out
<1>1. PICK events : events = <<e>>
  OBVIOUS
<1>2. Len(events) = 1 /\ events[1] = e /\ Len(events) \in Nat
  BY <1>1
<1>3. PICK f : Runs(to, st, events, f) /\ x = f[Len(events)]
  BY <1>1, <1>2, RunsExist
<1>4. f[0] = Relay!Silent(st) /\ f[1] = TurnGoes(to, f[0], e)
  <2>1. 1 \in 1..Len(events) /\ 1 - 1 = 0
    BY <1>2
  <2>. QED  BY <1>2, <1>3, <2>1, RunStep
<1>5. x = Relay!Tell(y.st, <<>> \o y.out)
  BY <1>2, <1>3, <1>4 DEF TurnGoes, Relay!Silent, Relay!Tell
<1>6. <<>> \o y.out = y.out
  OBVIOUS
<1>. QED  BY <1>5, <1>6 DEF Relay!Tell

LEMMA OneTold ==
  ASSUME NEW c \in {"chat", "anthropic", "gemini"}, NEW st, NEW s, NEW strict, Talk(c, st, s, strict),
         NEW e, Middle(e), strict /\ c = "anthropic" /\ e.t = "args" /\ st.open # -1 => st.kind = "tool",
         NEW y, y = Relay!Convert(c, st, e)
  PROVE  Told(c, st, s, strict, e, y.st, y.out)
<1>1. CASE c = "chat"
  BY <1>1, ChatTold DEF Relay!Convert
<1>2. CASE c = "anthropic"
  BY <1>2, AnthropicTold DEF Relay!Convert
<1>3. CASE c = "gemini"
  BY <1>3, GeminiTold DEF Relay!Convert
<1>. QED  BY <1>1, <1>2, <1>3

\* The message begins.
LEMMA FirstTold ==
  ASSUME NEW c \in {"chat", "anthropic", "gemini"}, NEW strict, NEW y,
         y = Relay!Convert(c, Relay!Blank, Relay!Created)
  PROVE  Talk(c, y.st, y.out, strict) /\ y.st.text = <<>> /\ y.st.tools = <<>> /\ y.out \in Seq(Chunks)
<1>1. Relay!Blank \in Convs /\ Relay!Blank.text = <<>> /\ Relay!Blank.tools = <<>> /\ Relay!Blank.next = 0
        /\ Relay!Blank.open = -1 /\ Relay!Blank.kind = "none"
  <2>1. <<>> \in Seq(Nat) /\ <<>> \in Seq(Tools) /\ <<>> \in Seq(Parts) /\ 0 \in Nat /\ -1 \in Int
    OBVIOUS
  <2>. QED  BY <2>1 DEF Relay!Blank, Convs
<1>2. y.st = Relay!Blank
  <2>1. CASE c = "chat"
    <3>1. y.st = [Relay!Blank EXCEPT !.text = <<>>]
      BY <2>1 DEF Relay!Convert, Relay!ChatTell, Relay!Created, Relay!Event, Relay!Tell
    <3>. QED  BY <3>1 DEF Relay!Blank
  <2>2. CASE c = "anthropic"
    <3>1. y.st = [Relay!Blank EXCEPT !.stop = Relay!Blank.stop, !.completed = Relay!Blank.completed,
            !.error = Relay!Blank.error]
      BY <2>2 DEF Relay!Convert, Relay!AnthropicTell, Relay!Created, Relay!Event, Relay!Tell
    <3>. QED  BY <3>1 DEF Relay!Blank
  <2>3. CASE c = "gemini"
    <3>1. y.st = [Relay!Blank EXCEPT !.text = <<>>, !.tools = <<>>]
      BY <2>3 DEF Relay!Convert, Relay!GeminiTell, Relay!Created, Relay!Event, Relay!Silent, Relay!Tell
    <3>. QED  BY <3>1 DEF Relay!Blank
  <2>. QED  BY <2>1, <2>2, <2>3
<1>3. ASSUME NEW k \in {"role", "message_start"}, y.out = <<Relay!Plain(k)>>
      PROVE  y.out \in Seq(Chunks) /\ DOMAIN y.out = {1} /\ y.out[1].k = k
  <2>1. PICK d : d = Relay!Plain(k)
    OBVIOUS
  <2>2. d \in Chunks /\ d.k = k
    <3>1. k \in Kinds
      BY DEF Kinds
    <3>. QED  BY <2>1, <3>1, PlainIs
  <2>3. y.out = <<d>>
    BY <1>3, <2>1
  <2>. QED  BY <2>2, <2>3
<1>4. ASSUME y.out \in Seq(Chunks), \A p \in DOMAIN y.out : y.out[p].k \in {"role", "message_start"}
      PROVE  NoReason(y.out) /\ Said(y.out, TextKind(c)) = <<>>
  <2>1. NoReason(y.out)
    BY <1>4 DEF NoReason, Relay!StopReasons
  <2>2. \A p \in DOMAIN y.out : y.out[p].k # TextKind(c)
    BY <1>4 DEF TextKind
  <2>. QED  BY <1>4, <2>1, <2>2, SaidNone
<1>5. CASE c = "chat"
  <2>1. y.out = <<Relay!Plain("role")>>
    BY <1>5 DEF Relay!Convert, Relay!ChatTell, Relay!Created, Relay!Event, Relay!Tell
  <2>2. y.out \in Seq(Chunks) /\ NoReason(y.out) /\ Said(y.out, TextKind(c)) = <<>>
    BY <1>3, <1>4, <2>1
  <2>. QED  BY <1>1, <1>2, <1>5, <2>2 DEF Talk
<1>6. CASE c = "gemini"
  <2>1. y.out = <<>>
    BY <1>6 DEF Relay!Convert, Relay!GeminiTell, Relay!Created, Relay!Event, Relay!Silent, Relay!Tell
  <2>2. y.out \in Seq(Chunks) /\ DOMAIN y.out = {}
    BY <2>1
  <2>3. NoReason(y.out) /\ Said(y.out, TextKind(c)) = <<>>
    BY <1>4, <2>2
  <2>. QED  BY <1>1, <1>2, <1>6, <2>2, <2>3 DEF Talk
<1>7. CASE c = "anthropic"
  <2>1. y.out = <<Relay!Plain("message_start")>>
    BY <1>7 DEF Relay!Convert, Relay!AnthropicTell, Relay!Created, Relay!Event, Relay!Tell
  <2>2. y.out \in Seq(Chunks) /\ DOMAIN y.out = {1} /\ y.out[1].k = "message_start"
    BY <1>3, <2>1
  <2>3. NoReason(y.out) /\ Said(y.out, TextKind(c)) = <<>>
    BY <1>4, <2>2
  <2>4. StartsOf(y.out) = {}
    BY <2>2 DEF StartsOf
  <2>5. Headed(y.out)
    BY <2>2 DEF Headed
  <2>6. BlockNumbers(y.out, 0)
    BY <2>4, FS_EmptySet DEF BlockNumbers
  <2>7. BlocksApart(y.out, 0, -1)
    <3>1. \A r \in DOMAIN y.out : y.out[r].k # "block_stop"
      BY <2>2
    <3>2. 0 \in Nat /\ -1 \in Int
      OBVIOUS
    <3>. QED  BY <2>4, <3>1, <3>2 DEF BlocksApart
  <2>8. BlockOpen(y.out, -1, "none")
    BY <2>4 DEF BlockOpen
  <2>9. DeltasLie(y.out, strict)
    BY <2>2 DEF DeltasLie, Deltas
  <2>. QED  BY <1>1, <1>2, <2>2, <2>3, <2>5, <2>6, <2>7, <2>8, <2>9 DEF Talk, Blocks
<1>. QED  BY <1>1, <1>2, <1>3, <1>5, <1>6, <1>7 DEF Talk

-----------------------------------------------------------------------------
(* The end of an answer.                                                   *)

Reasons(s) == {s[p].k : p \in DOMAIN s} \cap Relay!StopReasons

\* The reason to stop and the stop.
EndsWith(s, a, b, u) ==
  /\ s \in Seq(Chunks) /\ NoReason(s) /\ a \in Chunks /\ b \in Chunks
  /\ a.k \in Relay!StopReasons /\ b.k \in {"DONE", "message_stop"} /\ u = s \o <<a, b>>
LEMMA TwoMore ==
  ASSUME NEW s, NEW a, NEW b, NEW u, EndsWith(s, a, b, u)
  PROVE  /\ u \in Seq(Chunks) /\ u = Append(Append(s, a), b) /\ Reasons(u) = {a.k} /\ u[Len(u)].k = b.k
         /\ \A k \in {"content", "text_delta"} : Said(u, k) = Said(s, k)
<1>. USE DEF EndsWith
<1>1. PICK w : w = Append(s, a)
  OBVIOUS
<1>2. u = Append(w, b) /\ w \in Seq(Chunks) /\ u \in Seq(Chunks)
  BY <1>1
<1>3. Longer(s, a, w) /\ Longer(w, b, u)
  BY <1>1, <1>2, AppendIs
<1>4. /\ DOMAIN w = DOMAIN s \cup {Len(s) + 1} /\ w[Len(s) + 1] = a /\ \A p \in DOMAIN s : w[p] = s[p]
      /\ DOMAIN u = DOMAIN w \cup {Len(w) + 1} /\ u[Len(w) + 1] = b /\ \A p \in DOMAIN w : u[p] = w[p]
  BY <1>3 DEF Longer
<1>5. b.k \notin Relay!StopReasons
  BY DEF Relay!StopReasons
<1>6. Reasons(u) = {a.k}
  <2>1. \A p \in DOMAIN u : u[p].k \in Relay!StopReasons => u[p].k = a.k
    BY <1>4, <1>5 DEF NoReason
  <2>2. \E p \in DOMAIN u : u[p].k = a.k
    BY <1>4
  <2>. QED  BY <2>1, <2>2 DEF Reasons
<1>7. u[Len(u)].k = b.k
  <2>1. Len(u) = Len(w) + 1
    BY <1>2
  <2>. QED  BY <1>4, <2>1
<1>8. ASSUME NEW k \in {"content", "text_delta"} PROVE Said(u, k) = Said(s, k)
  <2>1. a.k # k /\ b.k # k
    BY DEF Relay!StopReasons
  <2>2. Said(w, k) = Said(s, k)
    BY <1>1, <2>1, SaidOther
  <2>3. Said(u, k) = Said(w, k)
    <3>1. w \in Seq(Chunks) /\ b \in Chunks /\ b.k # k
      BY <1>2, <2>1
    <3>2. Said(Append(w, b), k) = Said(w, k)
      BY ONLY <3>1, SaidOther
    <3>. QED  BY <1>2, <3>2
  <2>. QED  BY <2>2, <2>3
<1>. QED  BY <1>1, <1>2, <1>6, <1>7, <1>8

\* The answer is over.
Over(c, st, s, strict) ==
  /\ st \in Convs /\ st.open < st.next /\ s \in Seq(Chunks) /\ st.text = Said(s, TextKind(c))
  /\ c = "anthropic" => Blocks(s, st.next, -1, "none", strict) /\ st.open = -1 /\ s[Len(s)].k = "message_stop"
  /\ c # "gemini" => \E r \in Relay!StopReasons :
       /\ Reasons(s) = {r}
       /\ r \in {"tool_calls", "tool_use"} => st.tools # <<>>
       /\ r \in {"stop", "end_turn"} => st.tools = <<>>

\* What the last event makes of a state.
ConvClosed(st, open, stop, parts, x) ==
  /\ st \in Convs /\ open \in Int /\ stop \in Relay!StopReasons \cup {"none"} /\ parts \in Seq(Parts)
  /\ x = [st EXCEPT !.open = open, !.stop = stop, !.completed = parts]
LEMMA ClosedIs ==
  ASSUME NEW st, NEW open, NEW stop, NEW parts, NEW x, ConvClosed(st, open, stop, parts, x)
  PROVE  x \in Convs /\ x.text = st.text /\ x.tools = st.tools /\ x.next = st.next /\ x.open = open
BY DEF ConvClosed, Convs

LEMMA ChatOver ==
  ASSUME NEW st, NEW s, NEW strict, Talk("chat", st, s, strict), NEW t \in {"completed", "incomplete"},
         NEW parts \in Seq(Parts), NEW y, y = Relay!ChatTell(st, Relay!Ended(t, parts))
  PROVE  /\ Over("chat", y.st, s \o y.out, strict) /\ y.st.text = st.text /\ y.st.tools = st.tools
         /\ y.out \in Seq(Chunks)
<1>1. st \in Convs /\ s \in Seq(Chunks) /\ NoReason(s) /\ st.text = Said(s, "content") /\ st.open < st.next
  BY DEF Talk, TextKind
<1>2. PICK r : r = IF t = "completed" THEN Relay!FinishReason(st) ELSE "length"
  OBVIOUS
<1>3. /\ r \in Relay!StopReasons /\ (r \in {"tool_calls", "tool_use"} => st.tools # <<>>)
      /\ (r \in {"stop", "end_turn"} => st.tools = <<>>)
  BY <1>2 DEF Relay!FinishReason, Relay!StopReasons
<1>4. y.st = [st EXCEPT !.completed = parts, !.stop = r] /\ y.out = <<Relay!Plain(r), Relay!Plain("DONE")>>
  <2>1. CASE t = "completed"
    BY <1>2, <2>1 DEF Relay!ChatTell, Relay!Ended, Relay!Event, Relay!Tell
  <2>2. CASE t = "incomplete"
    BY <1>2, <2>2 DEF Relay!ChatTell, Relay!Ended, Relay!Event, Relay!Tell
  <2>. QED  BY <2>1, <2>2
<1>5. PICK a, b : a = Relay!Plain(r) /\ b = Relay!Plain("DONE")
  OBVIOUS
<1>6. a \in Chunks /\ b \in Chunks /\ a.k = r /\ b.k = "DONE"
  <2>1. r \in Kinds /\ "DONE" \in Kinds
    BY <1>3 DEF Kinds
  <2>. QED  BY <1>5, <2>1, PlainIs
<1>7. PICK u : u = s \o y.out
  OBVIOUS
<1>8. EndsWith(s, a, b, u)
  BY <1>1, <1>3, <1>4, <1>5, <1>6, <1>7 DEF EndsWith
<1>9. u \in Seq(Chunks) /\ Reasons(u) = {r} /\ Said(u, "content") = Said(s, "content")
  BY <1>6, <1>8, TwoMore
<1>10. y.st \in Convs /\ y.st.text = st.text /\ y.st.tools = st.tools /\ y.st.next = st.next
         /\ y.st.open = st.open
  <2>1. PICK open : open = st.open
    OBVIOUS
  <2>2. open \in Int /\ st = [st EXCEPT !.open = open]
    BY <1>1, <2>1 DEF Convs
  <2>3. y.st = [st EXCEPT !.open = open, !.stop = r, !.completed = parts]
    BY <1>1, <1>4, <2>1 DEF Convs
  <2>4. ConvClosed(st, open, r, parts, y.st)
    BY <1>1, <1>3, <2>2, <2>3 DEF ConvClosed
  <2>. QED  BY <2>1, <2>4, ClosedIs
<1>11. y.out \in Seq(Chunks)
  BY <1>4, <1>5, <1>6
<1>. QED  BY <1>1, <1>3, <1>7, <1>9, <1>10, <1>11 DEF Over, TextKind

LEMMA GeminiOver ==
  ASSUME NEW st, NEW s, NEW strict, Talk("gemini", st, s, strict), NEW t \in {"completed", "incomplete"},
         NEW parts \in Seq(Parts), NEW y, y = Relay!GeminiTell(st, Relay!Ended(t, parts))
  PROVE  /\ Over("gemini", y.st, s \o y.out, strict) /\ y.st.text = st.text /\ y.st.tools = st.tools
         /\ y.out \in Seq(Chunks)
<1>1. st \in Convs /\ s \in Seq(Chunks) /\ NoReason(s) /\ st.text = Said(s, "text") /\ st.open < st.next
  BY DEF Talk, TextKind
<1>2. y.st = [st EXCEPT !.completed = parts]
      /\ y.out = IF st.tools = <<>> THEN <<Relay!Plain(IF t = "completed" THEN "STOP" ELSE "MAX_TOKENS")>>
                 ELSE [i \in DOMAIN st.tools |-> Relay!Chunk("call", 0, 0, st.tools[i].name, st.tools[i].v)]
  BY DEF Relay!GeminiTell, Relay!Ended, Relay!Event, Relay!Tell
<1>3. y.st \in Convs /\ y.st.text = st.text /\ y.st.tools = st.tools /\ y.st.next = st.next /\ y.st.open = st.open
  BY <1>1, <1>2 DEF Convs
<1>4. y.out \in Seq(Chunks) /\ \A p \in DOMAIN y.out : y.out[p].k # "text"
  <2>1. CASE st.tools = <<>>
    <3>1. PICK k : k = IF t = "completed" THEN "STOP" ELSE "MAX_TOKENS"
      OBVIOUS
    <3>2. PICK d : d = Relay!Plain(k)
      OBVIOUS
    <3>3. d \in Chunks /\ d.k # "text"
      <4>1. k \in Kinds /\ k # "text"
        BY <3>1 DEF Kinds
      <4>. QED  BY <3>2, <4>1, PlainIs
    <3>4. y.out = <<d>>
      BY <1>2, <2>1, <3>1, <3>2
    <3>. QED  BY <3>3, <3>4
  <2>2. CASE st.tools # <<>>
    <3>1. st.tools \in Seq(Tools) /\ DOMAIN st.tools = 1..Len(st.tools) /\ Len(st.tools) \in Nat
      BY <1>1 DEF Convs
    <3>2. ASSUME NEW i \in 1..Len(st.tools)
          PROVE  Relay!Chunk("call", 0, 0, st.tools[i].name, st.tools[i].v) \in Chunks
                 /\ Relay!Chunk("call", 0, 0, st.tools[i].name, st.tools[i].v).k # "text"
      <4>1. st.tools[i] \in Tools
        BY <3>1
      <4>2. PICK name, v : name = st.tools[i].name /\ v = st.tools[i].v
        OBVIOUS
      <4>3. name \in Nat /\ v \in Seq(Nat) /\ "call" \in Kinds /\ 0 \in Nat /\ 0 \in Int
        BY <4>1, <4>2 DEF Tools, Kinds
      <4>. QED  BY <4>2, <4>3 DEF Relay!Chunk, Chunks
    <3>3. y.out = [i \in 1..Len(st.tools) |-> Relay!Chunk("call", 0, 0, st.tools[i].name, st.tools[i].v)]
      BY <1>2, <2>2, <3>1
    <3>. QED  BY <3>1, <3>2, <3>3
  <2>. QED  BY <2>1, <2>2
<1>5. Said(s \o y.out, "text") = Said(s, "text") /\ s \o y.out \in Seq(Chunks)
  BY <1>1, <1>4, SaidMute
<1>. QED  BY <1>1, <1>3, <1>4, <1>5 DEF Over, TextKind

LEMMA AnthropicOver ==
  ASSUME NEW st, NEW s, NEW strict, Talk("anthropic", st, s, strict), NEW t \in {"completed", "incomplete"},
         NEW parts \in Seq(Parts), NEW y, y = Relay!AnthropicTell(st, Relay!Ended(t, parts))
  PROVE  /\ Over("anthropic", y.st, s \o y.out, strict) /\ y.st.text = st.text /\ y.st.tools = st.tools
         /\ y.out \in Seq(Chunks)
<1>1. /\ st \in Convs /\ s \in Seq(Chunks) /\ NoReason(s) /\ st.text = Said(s, "text_delta") /\ st.open < st.next
      /\ Blocks(s, st.next, st.open, st.kind, strict)
  BY DEF Talk, TextKind
<1>2. PICK r : r = IF t = "incomplete" THEN "max_tokens" ELSE IF st.tools # <<>> THEN "tool_use" ELSE "end_turn"
  OBVIOUS
<1>3. /\ r \in Relay!StopReasons /\ (r \in {"tool_calls", "tool_use"} => st.tools # <<>>)
      /\ (r \in {"stop", "end_turn"} => st.tools = <<>>)
  BY <1>2 DEF Relay!StopReasons
<1>4. PICK w : w = Relay!Closing(st)
  OBVIOUS
<1>5. PICK q : q = s \o w
  OBVIOUS
<1>6. /\ w \in Seq(Chunks) /\ Blocks(q, st.next, -1, "none", strict) /\ NoReason(q)
      /\ Said(q, "text_delta") = Said(s, "text_delta") /\ q \in Seq(Chunks)
  BY <1>1, <1>4, <1>5, ClosingIs
<1>7. y.st = [st EXCEPT !.open = -1, !.stop = r, !.completed = parts]
      /\ y.out = w \o <<Relay!Plain(r), Relay!Plain("message_stop")>>
  <2>1. CASE t = "completed"
    BY <1>2, <1>4, <2>1 DEF Relay!AnthropicTell, Relay!Ended, Relay!Event, Relay!Tell, Relay!MessageEnds
  <2>2. CASE t = "incomplete"
    BY <1>2, <1>4, <2>2 DEF Relay!AnthropicTell, Relay!Ended, Relay!Event, Relay!Tell, Relay!MessageEnds
  <2>. QED  BY <2>1, <2>2
<1>8. PICK a, b : a = Relay!Plain(r) /\ b = Relay!Plain("message_stop")
  OBVIOUS
<1>9. a \in Chunks /\ b \in Chunks /\ a.k = r /\ b.k = "message_stop"
  <2>1. r \in Kinds /\ "message_stop" \in Kinds
    BY <1>3 DEF Kinds
  <2>. QED  BY <1>8, <2>1, PlainIs
<1>10. y.out = w \o <<a, b>> /\ y.out \in Seq(Chunks) /\ s \o y.out = q \o <<a, b>>
  <2>1. y.out = w \o <<a, b>>
    BY <1>7, <1>8
  <2>2. <<a, b>> \in Seq(Chunks)
    BY <1>9
  <2>3. PICK z : z = <<a, b>>
    OBVIOUS
  <2>4. z \in Seq(Chunks) /\ w \in Seq(Chunks) /\ s \in Seq(Chunks)
    BY <1>1, <1>6, <2>2, <2>3
  <2>5. s \o (w \o z) = (s \o w) \o z /\ w \o z \in Seq(Chunks)
    BY ONLY <2>4
  <2>. QED  BY <1>5, <2>1, <2>3, <2>5
<1>11. PICK u : u = s \o y.out
  OBVIOUS
<1>12. EndsWith(q, a, b, u)
  BY <1>3, <1>6, <1>9, <1>10, <1>11 DEF EndsWith
<1>13. /\ u \in Seq(Chunks) /\ u = Append(Append(q, a), b) /\ Reasons(u) = {r} /\ u[Len(u)].k = "message_stop"
       /\ Said(u, "text_delta") = Said(q, "text_delta")
  BY <1>9, <1>12, TwoMore
<1>14. Blocks(u, st.next, -1, "none", strict)
  <2>1. st.next \in Nat /\ -1 \in Int
    BY <1>1 DEF Convs
  <2>2. a.k \notin Deltas \cup {"message_start", "block_start:text", "block_start:tool", "block_stop"}
    BY <1>3, <1>9 DEF Deltas, Relay!StopReasons
  <2>3. b.k \notin Deltas \cup {"message_start", "block_start:text", "block_start:tool", "block_stop"}
    BY <1>9 DEF Deltas
  <2>4. PICK z : z = Append(q, a)
    OBVIOUS
  <2>5. Blocks(z, st.next, -1, "none", strict) /\ z \in Seq(Chunks)
    BY <1>6, <1>9, <2>1, <2>2, <2>4, OtherIs
  <2>6. Blocks(Append(z, b), st.next, -1, "none", strict)
    BY <1>9, <2>1, <2>3, <2>5, OtherIs
  <2>. QED  BY <1>13, <2>4, <2>6
<1>15. y.st \in Convs /\ y.st.text = st.text /\ y.st.tools = st.tools /\ y.st.next = st.next /\ y.st.open = -1
  <2>1. PICK open : open = -1
    OBVIOUS
  <2>2. ConvClosed(st, open, r, parts, y.st)
    BY <1>1, <1>3, <1>7, <2>1 DEF ConvClosed
  <2>. QED  BY <2>1, <2>2, ClosedIs
<1>16. -1 < st.next
  BY <1>1 DEF Convs
<1>. QED  BY <1>1, <1>3, <1>6, <1>10, <1>11, <1>13, <1>14, <1>15, <1>16 DEF Over, TextKind

LEMMA LastTold ==
  ASSUME NEW c \in {"chat", "anthropic", "gemini"}, NEW st, NEW s, NEW strict, Talk(c, st, s, strict),
         NEW t \in {"completed", "incomplete"}, NEW parts \in Seq(Parts), NEW y,
           y = Relay!Convert(c, st, Relay!Ended(t, parts))
  PROVE  /\ Over(c, y.st, s \o y.out, strict) /\ y.st.text = st.text /\ y.st.tools = st.tools
         /\ y.out \in Seq(Chunks)
<1>1. CASE c = "chat"
  BY <1>1, ChatOver DEF Relay!Convert
<1>2. CASE c = "anthropic"
  BY <1>2, AnthropicOver DEF Relay!Convert
<1>3. CASE c = "gemini"
  BY <1>3, GeminiOver DEF Relay!Convert
<1>. QED  BY <1>1, <1>2, <1>3

\* A failure changes nothing that was sent.
LEMMA FailedTold ==
  ASSUME NEW c \in {"chat", "anthropic", "gemini"}, NEW st \in Convs, NEW s \in Seq(Chunks), NEW y,
         y = Relay!Convert(c, st, Relay!Failed)
  PROVE  /\ y.st \in Convs /\ y.st.open = st.open /\ y.st.next = st.next
         /\ s \o y.out \in Seq(Chunks) /\ y.out \in Seq(Chunks)
         /\ c = "anthropic" => \E d \in Chunks : d.k = "error" /\ s \o y.out = Append(s, d)
<1>1. y.st = st \/ y.st = [st EXCEPT !.error = TRUE]
  <2>1. CASE c = "chat"
    BY <2>1 DEF Relay!Convert, Relay!ChatTell, Relay!Failed, Relay!Event, Relay!Tell
  <2>2. CASE c = "anthropic"
    BY <2>2 DEF Relay!Convert, Relay!AnthropicTell, Relay!Failed, Relay!Event, Relay!Tell
  <2>3. CASE c = "gemini"
    BY <2>3 DEF Relay!Convert, Relay!GeminiTell, Relay!Failed, Relay!Event, Relay!Silent, Relay!Tell
  <2>. QED  BY <2>1, <2>2, <2>3
<1>2. y.st \in Convs /\ y.st.open = st.open /\ y.st.next = st.next
  BY <1>1 DEF Convs
<1>3. PICK d, b : d = Relay!Plain("error") /\ b = Relay!Plain("DONE")
  OBVIOUS
<1>4. d \in Chunks /\ d.k = "error" /\ b \in Chunks
  <2>1. "error" \in Kinds /\ "DONE" \in Kinds
    BY DEF Kinds
  <2>. QED  BY <1>3, <2>1, PlainIs
<1>5. /\ c = "anthropic" => y.out = <<d>>
      /\ y.out = <<>> \/ y.out = <<d>> \/ y.out = <<d, b>>
  <2>1. CASE c = "chat"
    BY <1>3, <2>1 DEF Relay!Convert, Relay!ChatTell, Relay!Failed, Relay!Event, Relay!Tell
  <2>2. CASE c = "anthropic"
    BY <1>3, <2>2 DEF Relay!Convert, Relay!AnthropicTell, Relay!Failed, Relay!Event, Relay!Tell
  <2>3. CASE c = "gemini"
    BY <1>3, <2>3 DEF Relay!Convert, Relay!GeminiTell, Relay!Failed, Relay!Event, Relay!Silent, Relay!Tell
  <2>. QED  BY <2>1, <2>2, <2>3
<1>6. y.out \in Seq(Chunks)
  <2>1. <<>> \in Seq(Chunks) /\ <<d>> \in Seq(Chunks) /\ <<d, b>> \in Seq(Chunks)
    BY <1>4
  <2>. QED  BY <1>5, <2>1
<1>7. s \o y.out \in Seq(Chunks)
  BY <1>6
<1>8. c = "anthropic" => s \o y.out = Append(s, d)
  <2>1. s \o <<d>> = Append(s, d)
    BY <1>4, Chunkwise
  <2>. QED  BY <1>5, <2>1
<1>. QED  BY <1>2, <1>4, <1>6, <1>7, <1>8

-----------------------------------------------------------------------------
(* The events of calls, one after the other.                               *)

\* What was sent until the event n.
Now(c, s, f, n, text, some) ==
  /\ f[n].out \in Seq(Chunks) /\ Talk(c, f[n].st, s \o f[n].out, FALSE) /\ f[n].st.text = text
  /\ some => f[n].st.tools # <<>>
AboutCalls(e) == Middle(e) /\ e.t \in {"added", "args", "done"}

Follows(c, st, events, f, s, m, M, text, some) ==
  /\ c \in {"chat", "anthropic", "gemini"} /\ Runs(c, st, events, f) /\ Len(events) \in Nat /\ s \in Seq(Chunks)
  /\ m \in Nat /\ M \in Nat /\ m <= M /\ M <= Len(events)
  /\ Now(c, s, f, m, text, some) /\ \A n \in (m + 1)..M : AboutCalls(events[n])

LEMMA NowNext ==
  ASSUME NEW c, NEW st, NEW events, NEW f, NEW s, NEW m, NEW M, NEW text, NEW some,
         Follows(c, st, events, f, s, m, M, text, some),
         NEW n \in m..M, n < M, NEW has, Now(c, s, f, n, text, has)
  PROVE  Now(c, s, f, n + 1, text, has \/ events[n + 1].t = "added")
<1>1. /\ c \in {"chat", "anthropic",
           "gemini"} /\ Runs(c, st, events, f) /\ Len(events) \in Nat /\ s \in Seq(Chunks)
      /\ n + 1 \in 1..Len(events) /\ (n + 1) - 1 = n /\ n + 1 \in (m + 1)..M
  BY DEF Follows
<1>2. f[n + 1] = TurnGoes(c, f[n], events[n + 1])
  BY <1>1, RunStep
<1>3. AboutCalls(events[n + 1])
  BY <1>1 DEF Follows
<1>4. PICK e, x, o : e = events[n + 1] /\ x = f[n].st /\ o = f[n].out
  OBVIOUS
<1>5. PICK y : y = Relay!Convert(c, x, e)
  OBVIOUS
<1>6. PICK z : z = s \o o
  OBVIOUS
<1>7. Talk(c, x, z, FALSE) /\ Middle(e) /\ e.t # "text" /\ o \in Seq(Chunks) /\ x.text = text
        /\ (has => x.tools # <<>>)
  BY <1>3, <1>4, <1>6 DEF Now, AboutCalls
<1>8. Told(c, x, z, FALSE, e, y.st, y.out)
  BY <1>1, <1>5, <1>7, OneTold
<1>9. y.out \in Seq(Chunks) /\ Talk(c, y.st, z \o y.out, FALSE)
  BY <1>8 DEF Told
<1>10. y.st.text = text /\ (has \/ e.t = "added" => y.st.tools # <<>>)
  BY <1>7, <1>8 DEF Told
<1>11. f[n + 1].st = y.st /\ f[n + 1].out = o \o y.out
  <2>1. f[n + 1] = Relay!Tell(y.st, o \o y.out)
    BY <1>2, <1>4, <1>5 DEF TurnGoes
  <2>. QED  BY <2>1 DEF Relay!Tell
<1>12. o \o y.out \in Seq(Chunks) /\ z \o y.out = s \o (o \o y.out)
  <2>1. PICK w : w = y.out
    OBVIOUS
  <2>2. w \in Seq(Chunks) /\ o \in Seq(Chunks) /\ s \in Seq(Chunks)
    BY <1>1, <1>7, <1>9, <2>1
  <2>3. o \o w \in Seq(Chunks) /\ (s \o o) \o w = s \o (o \o w)
    BY ONLY <2>2
  <2>. QED  BY <1>6, <2>1, <2>3
<1>. QED  BY <1>4, <1>9, <1>10, <1>11, <1>12 DEF Now

LEMMA Along ==
  ASSUME NEW c, NEW st, NEW events, NEW f, NEW s, NEW m, NEW M, NEW text, NEW some,
         Follows(c, st, events, f, s, m, M, text, some)
  PROVE  Now(c, s, f, M, text, some \/ \E n \in (m + 1)..M : events[n].t = "added")
<1>1. m \in Nat /\ M \in Nat /\ m <= M /\ Now(c, s, f, m, text, some)
  BY DEF Follows
<1>. DEFINE Has(n) == some \/ \E k \in (m + 1)..n : events[k].t = "added"
            P == {j \in 0..(M - m) : Now(c, s, f, m + j, text, Has(m + j))}
<1>2. 0 \in P
  <2>1. m + 0 = m /\ 0 \in 0..(M - m) /\ (m + 1)..m = {}
    BY <1>1
  <2>2. Has(m) => some
    BY <2>1
  <2>. HIDE DEF Has
  <2>3. Now(c, s, f, m, text, Has(m))
    BY <1>1, <2>2 DEF Now
  <2>. QED  BY <2>1, <2>3
<1>3. \A j \in 0..(M - m) : j < M - m /\ j \in P => j + 1 \in P
  <2>. SUFFICES ASSUME NEW j \in 0..(M - m), j < M - m, j \in P PROVE j + 1 \in P
    OBVIOUS
  <2>1. PICK n : n = m + j
    OBVIOUS
  <2>2. n \in m..M /\ n < M /\ m + (j + 1) = n + 1 /\ j + 1 \in 0..(M - m)
    BY <1>1, <2>1
  <2>3. Now(c, s, f, n, text, Has(n))
    BY <2>1
  <2>4. Now(c, s, f, n + 1, text, Has(n) \/ events[n + 1].t = "added")
    <3>. HIDE DEF Has
    <3>1. PICK has : has = Has(n)
      OBVIOUS
    <3>2. Now(c, s, f, n, text, has)
      BY <2>3, <3>1
    <3>3. Now(c, s, f, n + 1, text, has \/ events[n + 1].t = "added")
      BY <2>2, <3>2, NowNext
    <3>. QED  BY <3>1, <3>3
  <2>5. Has(n + 1) => Has(n) \/ events[n + 1].t = "added"
    <3>1. \A k \in (m + 1)..(n + 1) : k \in (m + 1)..n \/ k = n + 1
      BY <2>2
    <3>. QED  BY <3>1
  <2>. HIDE DEF Has
  <2>6. Now(c, s, f, n + 1, text, Has(n + 1))
    BY <2>4, <2>5 DEF Now
  <2>. QED  BY <2>2, <2>6
<1>4. M - m \in P
  <2>. HIDE DEF P
  <2>1. M - m \in Nat /\ M - m \in 0..(M - m)
    BY <1>1
  <2>2. 0..(M - m) \subseteq P
    BY <1>2, <1>3, <2>1, CountingTo
  <2>. QED  BY <2>1, <2>2
<1>5. m + (M - m) = M
  BY <1>1
<1>. QED  BY <1>4, <1>5

\* Then the answer ends.
Ending(c, st, events, f, s, m, M, text, has, parts) ==
  /\ Follows(c, st, events, f, s, m, M, text, FALSE) /\ Len(events) = M + 1
  /\ parts \in Seq(Parts) /\ events[M + 1] = Relay!Ended("completed", parts)
  /\ has => f[m].st.tools # <<>> \/ \E n \in (m + 1)..M : events[n].t = "added"
  /\ ~has => f[m].st.tools = <<>> /\ M = m
Complete(c, st, u, text) == Over(c, st, u, FALSE) /\ st.text = text
WithCalls(st, has) == has <=> st.tools # <<>>
LEMMA EndRuns ==
  ASSUME NEW c, NEW st, NEW events, NEW f, NEW s, NEW m, NEW M, NEW text, NEW has, NEW parts,
         Ending(c, st, events, f, s, m, M, text, has, parts), NEW x, x = f[Len(events)], NEW u, u = s \o x.out
  PROVE  Complete(c, x.st, u, text)
<1>1. /\ Follows(c, st, events, f, s, m, M, text, FALSE) /\ Len(events) = M + 1
      /\ parts \in Seq(Parts) /\ events[M + 1] = Relay!Ended("completed", parts)
  BY DEF Ending
<1>2. /\ c \in {"chat", "anthropic",
           "gemini"} /\ Runs(c, st, events, f) /\ Len(events) \in Nat /\ s \in Seq(Chunks)
      /\ M + 1 \in 1..Len(events) /\ (M + 1) - 1 = M
  BY <1>1 DEF Follows
<1>3. \E some : Now(c, s, f, M, text, some)
  BY <1>1, Along
<1>4. PICK w, o : w = f[M].st /\ o = f[M].out
  OBVIOUS
<1>5. PICK z : z = s \o o
  OBVIOUS
<1>6. Talk(c, w, z, FALSE) /\ o \in Seq(Chunks) /\ w.text = text
  BY <1>3, <1>4, <1>5 DEF Now
<1>7. PICK y : y = Relay!Convert(c, w, Relay!Ended("completed", parts))
  OBVIOUS
<1>8. Over(c, y.st, z \o y.out, FALSE) /\ y.st.text = w.text /\ y.out \in Seq(Chunks)
  <2>1. PICK strict, t : strict = FALSE /\ t = "completed"
    OBVIOUS
  <2>2. Talk(c, w, z, strict) /\ y = Relay!Convert(c, w, Relay!Ended(t, parts)) /\ t \in {"completed",
          "incomplete"}
    BY <1>6, <1>7, <2>1
  <2>3. Over(c, y.st, z \o y.out, strict) /\ y.st.text = w.text /\ y.out \in Seq(Chunks)
    BY <1>1, <1>2, <2>2, LastTold
  <2>. QED  BY <2>1, <2>3
<1>9. x = TurnGoes(c, f[M], events[M + 1])
  BY <1>1, <1>2, RunStep
<1>10. x.st = y.st /\ x.out = o \o y.out
  <2>1. x = Relay!Tell(y.st, o \o y.out)
    BY <1>1, <1>4, <1>7, <1>9 DEF TurnGoes
  <2>. QED  BY <2>1 DEF Relay!Tell
<1>11. z \o y.out = u
  <2>1. PICK v : v = y.out
    OBVIOUS
  <2>2. v \in Seq(Chunks) /\ o \in Seq(Chunks) /\ s \in Seq(Chunks)
    BY <1>2, <1>6, <1>8, <2>1
  <2>3. (s \o o) \o v = s \o (o \o v)
    BY ONLY <2>2
  <2>. QED  BY <1>5, <1>10, <2>1, <2>3
<1>. QED  BY <1>6, <1>8, <1>10, <1>11 DEF Complete

\* And has calls if some were told.
LEMMA EndCalls ==
  ASSUME NEW c, NEW st, NEW events, NEW f, NEW s, NEW m, NEW M, NEW text, NEW has, NEW parts,
         Ending(c, st, events, f, s, m, M, text, has, parts), NEW x, x = f[Len(events)]
  PROVE  WithCalls(x.st, has)
<1>1. /\ Follows(c, st, events, f, s, m, M, text, FALSE) /\ Len(events) = M + 1
      /\ parts \in Seq(Parts) /\ events[M + 1] = Relay!Ended("completed", parts)
      /\ has => f[m].st.tools # <<>> \/ \E n \in (m + 1)..M : events[n].t = "added"
      /\ ~has => f[m].st.tools = <<>> /\ M = m
  BY DEF Ending
<1>2. /\ c \in {"chat", "anthropic", "gemini"} /\ Runs(c, st, events, f) /\ Len(events) \in Nat
      /\ M + 1 \in 1..Len(events) /\ (M + 1) - 1 = M
  BY <1>1 DEF Follows
<1>3. Follows(c, st, events, f, s, m, M, text, f[m].st.tools # <<>>)
  BY <1>1 DEF Follows, Now
<1>4. Now(c, s, f, M, text, f[m].st.tools # <<>> \/ \E n \in (m + 1)..M : events[n].t = "added")
  <2>1. PICK some : some = (f[m].st.tools # <<>>)
    OBVIOUS
  <2>2. Follows(c, st, events, f, s, m, M, text, some)
    BY <1>3, <2>1
  <2>3. Now(c, s, f, M, text, some \/ \E n \in (m + 1)..M : events[n].t = "added")
    BY <2>2, Along
  <2>. QED  BY <2>1, <2>3
<1>5. has <=> f[M].st.tools # <<>>
  <2>1. CASE has
    BY <1>1, <1>4, <2>1 DEF Now
  <2>2. CASE ~has
    BY <1>1, <2>2
  <2>. QED  BY <2>1, <2>2
<1>6. PICK w, o : w = f[M].st /\ o = f[M].out
  OBVIOUS
<1>7. PICK y : y = Relay!Convert(c, w, Relay!Ended("completed", parts))
  OBVIOUS
<1>8. y.st.tools = w.tools
  <2>1. PICK z : z = s \o o
    OBVIOUS
  <2>2. Talk(c, w, z, FALSE)
    BY <1>4, <1>6, <2>1 DEF Now
  <2>3. PICK strict, t : strict = FALSE /\ t = "completed"
    OBVIOUS
  <2>4. Talk(c, w, z, strict) /\ y = Relay!Convert(c, w, Relay!Ended(t, parts)) /\ t \in {"completed",
          "incomplete"}
    BY <1>7, <2>2, <2>3
  <2>. QED  BY <1>1, <1>2, <2>4, LastTold
<1>9. x = TurnGoes(c, f[M], events[M + 1])
  BY <1>1, <1>2, RunStep
<1>10. x.st = y.st
  BY <1>1, <1>6, <1>7, <1>9 DEF TurnGoes, Relay!Tell
<1>. QED  BY <1>5, <1>6, <1>8, <1>10 DEF WithCalls

-----------------------------------------------------------------------------
(* What is said.                                                           *)

HasCall(s) == \E n \in DOMAIN s : Relay!IsCall(s[n])

LEMMA PartsAre ==
  ASSUME NEW s \in Seq(Parts)
  PROVE  /\ Len(s) \in Nat /\ DOMAIN s = 1..Len(s)
         /\ \A n \in 1..Len(s) : s[n] \in Parts /\ s[n].v \in Seq(Nat)
              /\ (Relay!IsText(s[n]) <=> ~Relay!IsCall(s[n]))
<1>1. Len(s) \in Nat /\ DOMAIN s = 1..Len(s) /\ \A n \in 1..Len(s) : s[n] \in Parts
  OBVIOUS
<1>2. \A p \in Parts : p.v \in Seq(Nat) /\ (Relay!IsText(p) <=> ~Relay!IsCall(p))
  BY DEF Parts, Relay!IsText, Relay!IsCall
<1>. QED  BY <1>1, <1>2

LEMMA PartsValued ==
  ASSUME NEW s \in Seq(Parts), NEW P
  PROVE  Valued(Nat, s, P)
BY PartsAre DEF Valued

\* A part more.
LEMMA AllTextAppend ==
  ASSUME NEW s \in Seq(Parts), NEW p \in Parts, NEW u, u = Append(s, p)
  PROVE  /\ u \in Seq(Parts) /\ Relay!AllText(s) \in Seq(Nat)
         /\ Relay!AllText(u) = IF Relay!IsText(p) THEN Relay!AllText(s) \o p.v ELSE Relay!AllText(s)
<1>1. PICK t : t = <<p>>
  OBVIOUS
<1>2. t \in Seq(Parts) /\ u = s \o t /\ Len(t) = 1 /\ DOMAIN t = {1} /\ t[1] = p
  BY <1>1
<1>3. Joined(s, t, u) /\ u \in Seq(Parts)
  BY <1>2, ConcatIs
<1>. DEFINE P == {n \in DOMAIN s : Relay!IsText(s[n])}
            Q == {n \in DOMAIN t : Relay!IsText(t[n])}
            R == {n \in DOMAIN u : Relay!IsText(u[n])}
<1>4. \A n \in 1..Len(s) : n \in R <=> n \in P
  <2>1. \A n \in 1..Len(s) : n \in DOMAIN s /\ n \in DOMAIN u /\ u[n] = s[n]
    BY <1>3 DEF Joined
  <2>. QED  BY <2>1
<1>5. \A n \in 1..Len(t) : Len(s) + n \in R <=> n \in Q
  <2>1. \A n \in 1..Len(t) : n \in DOMAIN t /\ Len(s) + n \in DOMAIN u /\ u[Len(s) + n] = t[n]
    BY <1>3 DEF Joined
  <2>. QED  BY <2>1
<1>6. Valued(Nat, s, P) /\ Valued(Nat, t, Q)
  BY <1>2, PartsValued
<1>7. 1 \in Q <=> Relay!IsText(p)
  BY <1>2
<1>8. p.v \in Seq(Nat)
  BY DEF Parts
<1>. HIDE DEF P, Q, R
<1>9. Relay!JoinOf(u, R) = Relay!JoinOf(s, P) \o Relay!JoinOf(t, Q) /\ Relay!JoinOf(s, P) \in Seq(Nat)
  <2>1. Both(Nat, s, P, t, Q, u, R)
    BY <1>3, <1>4, <1>5, <1>6 DEF Both
  <2>. QED  BY <2>1, JoinBoth
<1>10. Relay!JoinOf(t, Q) = IF 1 \in Q THEN p.v ELSE <<>>
  BY <1>1, <1>8, JoinOne
<1>11. \A x \in Seq(Nat) : x \o <<>> = x
  OBVIOUS
<1>12. Relay!JoinOf(u, R) = IF Relay!IsText(p) THEN Relay!JoinOf(s, P) \o p.v ELSE Relay!JoinOf(s, P)
  BY <1>7, <1>9, <1>10, <1>11
<1>. QED  BY <1>3, <1>9, <1>12 DEF Relay!AllText, P, R

\* A part that is another, but no other text.
LEMMA AllTextSame ==
  ASSUME NEW s \in Seq(Parts), NEW u \in Seq(Parts), Len(s) = Len(u),
         \A n \in 1..Len(s) : (Relay!IsText(s[n]) <=> Relay!IsText(u[n]))
           /\ (Relay!IsText(s[n]) => s[n].v = u[n].v)
  PROVE  Relay!AllText(s) = Relay!AllText(u)
<1>. DEFINE P == {n \in DOMAIN s : Relay!IsText(s[n])}
            Q == {n \in DOMAIN u : Relay!IsText(u[n])}
<1>1. Valued(Nat, s, P) /\ Valued(Nat, u, Q)
  BY PartsValued
<1>2. DOMAIN s = 1..Len(s) /\ DOMAIN u = 1..Len(s)
  BY PartsAre
<1>3. \A n \in 1..Len(s) : (n \in P <=> n \in Q) /\ (n \in P => s[n].v = u[n].v)
  BY <1>2
<1>. HIDE DEF P, Q
<1>4. Relay!JoinOf(s, P) = Relay!JoinOf(u, Q)
  BY <1>1, <1>3, JoinSame
<1>. QED  BY <1>4 DEF Relay!AllText, P, Q

\* How many calls the first n parts have.
CallCounts(s, g) ==
  /\ g[0] = 0
  /\ \A n \in 1..Len(s) : g[n - 1] \in Nat /\ g[n] \in Nat
       /\ g[n] = IF Relay!IsCall(s[n]) THEN g[n - 1] + 1 ELSE g[n - 1]

LEMMA CallsLen ==
  ASSUME NEW s \in Seq(Parts)
  PROVE  Relay!CallsOf(s) \in Seq(Parts) /\ \E g : CallCounts(s, g) /\ Len(Relay!CallsOf(s)) = g[Len(s)]
<1>. DEFINE S == {part \in Relay!ToSet(s) : Relay!IsCall(part)}
<1>1. Len(s) \in Nat /\ DOMAIN s = 1..Len(s) /\ \A n \in 1..Len(s) : s[n] \in Parts
  BY PartsAre
<1>2. \A n \in 1..Len(s) : s[n] \in S <=> Relay!IsCall(s[n])
  BY <1>1 DEF Relay!ToSet
<1>3. Relay!CallsOf(s) = Relay!Only(s, S)
  BY DEF Relay!CallsOf
<1>. HIDE DEF S
<1>4. PICK f : Picks(s, S, f) /\ Relay!Only(s, S) = f[Len(s)]
  BY PicksExist
<1>5. f[0] = <<>> /\ \A n \in 1..Len(s) : f[n] = IF Relay!IsCall(s[n]) THEN Append(f[n - 1], s[n]) ELSE f[n - 1]
  <2>1. 0 \in 0..Len(s) /\ \A n \in 1..Len(s) : n \in 0..Len(s) /\ n # 0
    BY <1>1
  <2>. QED  BY <1>2, <1>4, <2>1 DEF Picks
<1>. DEFINE P == {n \in 0..Len(s) : f[n] \in Seq(Parts)}
<1>6. 0 \in P
  <2>1. 0 \in 0..Len(s) /\ <<>> \in Seq(Parts)
    BY <1>1
  <2>. QED  BY <1>5, <2>1
<1>7. \A n \in 0..Len(s) : n < Len(s) /\ n \in P => n + 1 \in P
  <2>. SUFFICES ASSUME NEW n \in 0..Len(s), n < Len(s), n \in P PROVE n + 1 \in P
    OBVIOUS
  <2>1. n + 1 \in 1..Len(s) /\ (n + 1) - 1 = n
    BY <1>1
  <2>2. f[n + 1] = IF Relay!IsCall(s[n + 1]) THEN Append(f[n], s[n + 1]) ELSE f[n]
    BY <1>5, <2>1
  <2>3. f[n] \in Seq(Parts) /\ s[n + 1] \in Parts
    BY <1>1, <2>1
  <2>4. f[n + 1] \in Seq(Parts)
    BY <2>2, <2>3
  <2>. QED  BY <2>1, <2>4
<1>8. \A n \in 0..Len(s) : f[n] \in Seq(Parts)
  <2>1. 0..Len(s) \subseteq P
    <3>. HIDE DEF P
    <3>. QED  BY <1>1, <1>6, <1>7, CountingTo
  <2>. QED  BY <2>1
<1>. HIDE DEF P
<1>. DEFINE g == [n \in 0..Len(s) |-> Len(f[n])]
<1>9. CallCounts(s, g)
  <2>1. g[0] = 0
    <3>1. 0 \in 0..Len(s) /\ Len(<<>>) = 0
      BY <1>1
    <3>. QED  BY <1>5, <3>1
  <2>2. ASSUME NEW n \in 1..Len(s)
        PROVE  g[n - 1] \in Nat /\ g[n] \in Nat /\ g[n] = IF Relay!IsCall(s[n]) THEN g[n - 1] + 1 ELSE g[n - 1]
    <3>1. n - 1 \in 0..Len(s) /\ n \in 0..Len(s)
      BY <1>1
    <3>2. PICK a, b, p : a = f[n - 1] /\ b = f[n] /\ p = s[n]
      OBVIOUS
    <3>3. a \in Seq(Parts) /\ b \in Seq(Parts) /\ p \in Parts
      BY <1>1, <1>8, <3>1, <3>2
    <3>4. b = IF Relay!IsCall(p) THEN Append(a, p) ELSE a
      BY <1>5, <3>2
    <3>5. Len(a) \in Nat /\ Len(b) \in Nat /\ Len(Append(a, p)) = Len(a) + 1
      BY ONLY <3>3
    <3>6. g[n - 1] = Len(a) /\ g[n] = Len(b)
      BY <3>1, <3>2
    <3>. QED  BY <3>2, <3>4, <3>5, <3>6
  <2>. QED  BY <2>1, <2>2 DEF CallCounts
<1>10. g[Len(s)] = Len(f[Len(s)]) /\ f[Len(s)] \in Seq(Parts)
  BY <1>1, <1>8
<1>. HIDE DEF g
<1>. QED  BY <1>3, <1>4, <1>9, <1>10

LEMMA CountsSame ==
  ASSUME NEW s, NEW g, CallCounts(s, g), NEW u, NEW h, CallCounts(u, h), Len(s) \in Nat, Len(u) \in Nat,
         NEW N \in Nat, N <= Len(s), N <= Len(u), \A n \in 1..N : Relay!IsCall(s[n]) <=> Relay!IsCall(u[n])
  PROVE  g[N] = h[N]
<1>. DEFINE P == {n \in 0..N : g[n] = h[n]}
<1>1. 0 \in P
  BY DEF CallCounts
<1>2. \A n \in 0..N : n < N /\ n \in P => n + 1 \in P
  <2>. SUFFICES ASSUME NEW n \in 0..N, n < N, n \in P PROVE n + 1 \in P
    OBVIOUS
  <2>1. n + 1 \in 1..Len(s) /\ n + 1 \in 1..Len(u) /\ (n + 1) - 1 = n /\ n + 1 \in 1..N
    OBVIOUS
  <2>2. g[n + 1] = IF Relay!IsCall(s[n + 1]) THEN g[n] + 1 ELSE g[n]
    BY <2>1 DEF CallCounts
  <2>3. h[n + 1] = IF Relay!IsCall(u[n + 1]) THEN h[n] + 1 ELSE h[n]
    BY <2>1 DEF CallCounts
  <2>. QED  BY <2>1, <2>2, <2>3
<1>3. 0..N \subseteq P
  <2>. HIDE DEF P
  <2>. QED  BY <1>1, <1>2, CountingTo
<1>. QED  BY <1>3

LEMMA CallsSame ==
  ASSUME NEW s \in Seq(Parts), NEW u \in Seq(Parts), Len(s) = Len(u),
         \A n \in 1..Len(s) : Relay!IsCall(s[n]) <=> Relay!IsCall(u[n])
  PROVE  Len(Relay!CallsOf(s)) = Len(Relay!CallsOf(u))
<1>1. PICK g : CallCounts(s, g) /\ Len(Relay!CallsOf(s)) = g[Len(s)]
  BY CallsLen
<1>2. PICK h : CallCounts(u, h) /\ Len(Relay!CallsOf(u)) = h[Len(u)]
  BY CallsLen
<1>3. PICK N : N = Len(s)
  OBVIOUS
<1>4. N \in Nat /\ N <= Len(s) /\ N <= Len(u) /\ Len(s) \in Nat /\ Len(u) \in Nat
        /\ \A n \in 1..N : Relay!IsCall(s[n]) <=> Relay!IsCall(u[n])
  BY <1>3
<1>5. g[N] = h[N]
  BY <1>1, <1>2, <1>4, CountsSame
<1>. QED  BY <1>1, <1>2, <1>3, <1>5

LEMMA CallsAppend ==
  ASSUME NEW s \in Seq(Parts), NEW p \in Parts, NEW u, u = Append(s, p)
  PROVE  /\ Len(Relay!CallsOf(s)) \in Nat
         /\ Len(Relay!CallsOf(u)) = IF Relay!IsCall(p) THEN Len(Relay!CallsOf(s)) + 1 ELSE Len(Relay!CallsOf(s))
<1>1. u \in Seq(Parts) /\ Longer(s, p, u) /\ Len(u) = Len(s) + 1 /\ Len(s) \in Nat
  BY AppendIs
<1>2. PICK g : CallCounts(s, g) /\ Len(Relay!CallsOf(s)) = g[Len(s)] /\ Relay!CallsOf(s) \in Seq(Parts)
  BY CallsLen
<1>3. PICK h : CallCounts(u, h) /\ Len(Relay!CallsOf(u)) = h[Len(u)]
  BY <1>1, CallsLen
<1>4. PICK N : N = Len(s)
  OBVIOUS
<1>5. N \in Nat /\ N <= Len(s) /\ N <= Len(u) /\ Len(s) \in Nat /\ Len(u) \in Nat
  BY <1>1, <1>4
<1>6. \A n \in 1..N : Relay!IsCall(s[n]) <=> Relay!IsCall(u[n])
  BY <1>1, <1>4 DEF Longer
<1>7. g[N] = h[N]
  <2>1. CallCounts(s, g) /\ CallCounts(u, h)
    BY <1>2, <1>3
  <2>. QED  BY ONLY <1>5, <1>6, <2>1, CountsSame
<1>8. N + 1 \in 1..Len(u) /\ (N + 1) - 1 = N /\ u[N + 1] = p /\ Len(u) = N + 1
  BY <1>1, <1>4 DEF Longer
<1>9. h[N + 1] = IF Relay!IsCall(p) THEN h[N] + 1 ELSE h[N]
  BY <1>3, <1>8 DEF CallCounts
<1>10. Len(Relay!CallsOf(s)) \in Nat
  BY <1>2
<1>. QED  BY <1>2, <1>3, <1>4, <1>7, <1>8, <1>9, <1>10

LEMMA CallsSome ==
  ASSUME NEW s \in Seq(Parts)
  PROVE  /\ Len(Relay!CallsOf(s)) \in Nat /\ (Relay!CallsOf(s) # <<>> <=> HasCall(s))
              /\ (Relay!CallsOf(s) = <<>> <=> Len(Relay!CallsOf(s)) = 0)
<1>1. PICK g : CallCounts(s, g) /\ Len(Relay!CallsOf(s)) = g[Len(s)] /\ Relay!CallsOf(s) \in Seq(Parts)
  BY CallsLen
<1>2. Len(s) \in Nat /\ DOMAIN s = 1..Len(s)
  BY PartsAre
<1>. DEFINE P == {n \in 0..Len(s) : g[n] \in Nat /\ (g[n] # 0 <=> \E k \in 1..n : Relay!IsCall(s[k]))}
<1>3. 0 \in P
  BY <1>1, <1>2 DEF CallCounts
<1>4. \A n \in 0..Len(s) : n < Len(s) /\ n \in P => n + 1 \in P
  <2>. SUFFICES ASSUME NEW n \in 0..Len(s), n < Len(s), n \in P PROVE n + 1 \in P
    OBVIOUS
  <2>1. n + 1 \in 1..Len(s) /\ (n + 1) - 1 = n /\ n + 1 \in 0..Len(s)
    BY <1>2
  <2>2. g[n] \in Nat /\ g[n + 1] \in Nat /\ g[n + 1] = IF Relay!IsCall(s[n + 1]) THEN g[n] + 1 ELSE g[n]
    BY <1>1, <2>1 DEF CallCounts
  <2>3. CASE Relay!IsCall(s[n + 1])
    <3>1. g[n + 1] # 0
      BY <2>2, <2>3
    <3>2. n + 1 \in 1..(n + 1)
      BY <1>2
    <3>3. \E k \in 1..(n + 1) : Relay!IsCall(s[k])
      BY <2>3, <3>2
    <3>. QED  BY <2>1, <2>2, <3>1, <3>3
  <2>4. CASE ~Relay!IsCall(s[n + 1])
    <3>1. \A k \in 1..(n + 1) : k \in 1..n \/ k = n + 1
      BY <1>2
    <3>2. \A k \in 1..n : k \in 1..(n + 1)
      BY <1>2
    <3>3. (\E k \in 1..(n + 1) : Relay!IsCall(s[k])) <=> \E k \in 1..n : Relay!IsCall(s[k])
      BY <2>4, <3>1, <3>2
    <3>4. g[n + 1] = g[n]
      BY <2>2, <2>4
    <3>. QED  BY <2>1, <2>2, <3>3, <3>4
  <2>. QED  BY <2>3, <2>4
<1>5. Len(s) \in P
  <2>1. Len(s) \in Nat /\ Len(s) \in 0..Len(s)
    BY <1>2
  <2>. HIDE DEF P
  <2>2. 0..Len(s) \subseteq P
    BY <1>3, <1>4, <2>1, CountingTo
  <2>. QED  BY <2>1, <2>2
<1>6. g[Len(s)] # 0 <=> HasCall(s)
  BY <1>2, <1>5 DEF HasCall
<1>7. Len(Relay!CallsOf(s)) \in Nat /\ (Relay!CallsOf(s) = <<>> <=> Len(Relay!CallsOf(s)) = 0)
  BY <1>1
<1>. QED  BY <1>1, <1>6, <1>7

\* Where the call n of a list is.
LEMMA CallAt ==
  ASSUME NEW s \in Seq(Parts), NEW n \in 1..Len(Relay!CallsOf(s))
  PROVE  \E i \in DOMAIN s : Relay!IsCall(s[i]) /\ Len(Relay!CallsOf(SubSeq(s, 1, i))) = n
<1>1. PICK g : CallCounts(s, g) /\ Len(Relay!CallsOf(s)) = g[Len(s)]
  BY CallsLen
<1>2. Len(s) \in Nat /\ DOMAIN s = 1..Len(s)
  BY PartsAre
<1>. DEFINE P == {m \in 0..Len(s) : \A k \in 1..g[m] : \E i \in 1..m : Relay!IsCall(s[i]) /\ g[i] = k}
<1>3. 0 \in P
  <2>1. g[0] = 0
    BY <1>1 DEF CallCounts
  <2>2. 1..0 = {} /\ 0 \in 0..Len(s)
    BY <1>2
  <2>. QED  BY <2>1, <2>2
<1>4. \A m \in 0..Len(s) : m < Len(s) /\ m \in P => m + 1 \in P
  <2>. SUFFICES ASSUME NEW m \in 0..Len(s), m < Len(s), m \in P, NEW k \in 1..g[m + 1]
                PROVE  m + 1 \in 0..Len(s) /\ \E i \in 1..(m + 1) : Relay!IsCall(s[i]) /\ g[i] = k
    OBVIOUS
  <2>1. m + 1 \in 1..Len(s) /\ (m + 1) - 1 = m /\ m + 1 \in 0..Len(s) /\ m + 1 \in 1..(m + 1)
    BY <1>2
  <2>2. g[m] \in Nat /\ g[m + 1] \in Nat /\ g[m + 1] = IF Relay!IsCall(s[m + 1]) THEN g[m] + 1 ELSE g[m]
    BY <1>1, <2>1 DEF CallCounts
  <2>3. CASE k \in 1..g[m]
    <3>1. PICK i \in 1..m : Relay!IsCall(s[i]) /\ g[i] = k
      BY <2>3
    <3>2. i \in 1..(m + 1)
      BY <1>2
    <3>. QED  BY <2>1, <3>1, <3>2
  <2>4. CASE k \notin 1..g[m]
    <3>1. Relay!IsCall(s[m + 1]) /\ k = g[m + 1]
      BY <2>2, <2>4
    <3>. QED  BY <2>1, <3>1
  <2>. QED  BY <2>3, <2>4
<1>5. Len(s) \in P
  <2>1. Len(s) \in Nat /\ Len(s) \in 0..Len(s)
    BY <1>2
  <2>. HIDE DEF P
  <2>2. 0..Len(s) \subseteq P
    BY <1>3, <1>4, <2>1, CountingTo
  <2>. QED  BY <2>1, <2>2
<1>6. PICK i \in 1..Len(s) : Relay!IsCall(s[i]) /\ g[i] = n
  BY <1>1, <1>5
<1>. HIDE DEF P
<1>7. PICK u : u = SubSeq(s, 1, i)
  OBVIOUS
<1>8. u \in Seq(Parts) /\ Len(u) = i /\ \A k \in 1..i : u[k] = s[k]
  BY <1>2, <1>7
<1>9. PICK h : CallCounts(u, h) /\ Len(Relay!CallsOf(u)) = h[Len(u)]
  BY <1>8, CallsLen
<1>10. h[i] = g[i]
  <2>1. i \in Nat /\ i <= Len(s) /\ i <= Len(u) /\ Len(s) \in Nat /\ Len(u) \in Nat
    BY <1>2, <1>8
  <2>2. \A k \in 1..i : Relay!IsCall(u[k]) <=> Relay!IsCall(s[k])
    BY <1>8
  <2>. QED  BY <1>1, <1>9, <2>1, <2>2, CountsSame
<1>. QED  BY <1>2, <1>6, <1>7, <1>8, <1>9, <1>10

-----------------------------------------------------------------------------
(* What Antigravity's answer is collected to.                              *)

CloudCalls == [id : Nat, name : Nat, v : Seq(Nat), signed : BOOLEAN]
Accs == [text : Seq(Nat), calls : Seq(CloudCalls), pending : BOOLEAN]

LEMMA MergeIs ==
  ASSUME NEW calls \in Seq(CloudCalls), NEW made \in CloudCalls
  PROVE  Relay!MergeCall(calls, made) \in Seq(CloudCalls) /\ Relay!MergeCall(calls, made) # <<>>
<1>. DEFINE same == {i \in DOMAIN calls : calls[i].id = made.id}
            i == CHOOSE j \in same : \A k \in same : j <= k
<1>1. Len(calls) \in Nat /\ DOMAIN calls = 1..Len(calls)
  OBVIOUS
<1>2. CASE same = {}
  <2>1. Relay!MergeCall(calls, made) = Append(calls, made)
    BY <1>2 DEF Relay!MergeCall
  <2>2. Append(calls, made) \in Seq(CloudCalls) /\ Len(Append(calls, made)) = Len(calls) + 1
    OBVIOUS
  <2>. QED  BY <1>1, <2>1, <2>2
<1>3. CASE same # {}
  <2>1. Relay!MergeCall(calls, made) = IF made.signed \/ ~calls[i].signed
          THEN [calls EXCEPT ![i] = made] ELSE calls
    BY <1>3 DEF Relay!MergeCall
  <2>2. same \subseteq 1..Len(calls)
    BY <1>1
  <2>. HIDE DEF same
  <2>3. i \in same
    BY <1>1, <1>3, <2>2, Least
  <2>4. i \in DOMAIN calls
    BY <1>1, <2>2, <2>3
  <2>. HIDE DEF i
  <2>5. [calls EXCEPT ![i] = made] \in Seq(CloudCalls) /\ [calls EXCEPT ![i] = made] # <<>> /\ calls # <<>>
    <3>1. PICK j : j = i
      OBVIOUS
    <3>2. j \in DOMAIN calls
      BY <2>4, <3>1
    <3>3. PICK u : u = [calls EXCEPT ![j] = made]
      OBVIOUS
    <3>4. u \in Seq(CloudCalls) /\ DOMAIN u = DOMAIN calls
      BY ONLY <3>2, <3>3, made \in CloudCalls, calls \in Seq(CloudCalls)
    <3>5. u # <<>> /\ calls # <<>>
      BY <3>2, <3>4
    <3>. QED  BY <3>1, <3>3, <3>4, <3>5
  <2>. QED  BY <2>1, <2>5
<1>. QED  BY <1>2, <1>3

LEMMA TakeIs ==
  ASSUME NEW acc \in Accs, NEW part \in Parts, NEW x, x = Relay!CloudTake(acc, part)
  PROVE  /\ x \in Accs /\ x.text = (IF Relay!IsText(part) THEN acc.text \o part.v ELSE acc.text)
         /\ x.calls # <<>> <=> acc.calls # <<>> \/ Relay!IsCall(part)
<1>1. acc.text \in Seq(Nat) /\ acc.calls \in Seq(CloudCalls) /\ acc.pending \in BOOLEAN
  BY DEF Accs
<1>2. part.v \in Seq(Nat) /\ part.id \in Nat /\ part.name \in Nat /\ part.signed \in BOOLEAN
  BY DEF Parts
<1>3. Relay!IsText(part) <=> ~Relay!IsCall(part)
  BY DEF Parts, Relay!IsText, Relay!IsCall
<1>4. CASE Relay!IsCall(part)
  <2>1. PICK b : b = (part.signed \/ acc.pending)
    OBVIOUS
  <2>2. b \in BOOLEAN
    BY <2>1
  <2>3. PICK w : w = [id |-> part.id, name |-> part.name, v |-> part.v, signed |-> b]
    OBVIOUS
  <2>4. w \in CloudCalls
    BY <1>2, <2>2, <2>3 DEF CloudCalls
  <2>5. PICK u : u = Relay!MergeCall(acc.calls, w)
    OBVIOUS
  <2>6. u \in Seq(CloudCalls) /\ u # <<>>
    BY <1>1, <2>4, <2>5, MergeIs
  <2>7. x = [acc EXCEPT !.calls = u, !.pending = FALSE]
    BY <1>4, <2>1, <2>3, <2>5 DEF Relay!CloudTake
  <2>8. x \in Accs /\ x.text = acc.text /\ x.calls = u
    BY <2>6, <2>7 DEF Accs
  <2>. QED  BY <1>3, <1>4, <2>6, <2>8
<1>5. CASE ~Relay!IsCall(part)
  <2>1. PICK b, t : b = (acc.pending \/ part.signed) /\ t = acc.text \o part.v
    OBVIOUS
  <2>2. b \in BOOLEAN /\ t \in Seq(Nat)
    <3>1. b \in BOOLEAN
      BY <2>1
    <3>. QED  BY <1>1, <1>2, <2>1, <3>1
  <2>3. x = [acc EXCEPT !.text = t, !.pending = b]
    BY <1>5, <2>1 DEF Relay!CloudTake
  <2>4. x \in Accs /\ x.text = t /\ x.calls = acc.calls
    BY <2>2, <2>3 DEF Accs
  <2>. QED  BY <1>3, <1>5, <2>1, <2>4
<1>. QED  BY <1>4, <1>5

\* What is collected of the first n parts.
NoAcc == [text |-> <<>>, calls |-> <<>>, pending |-> FALSE]
Collects(parts, f) ==
  f = [n \in 0..Len(parts) |-> IF n = 0 THEN NoAcc ELSE Relay!CloudTake(f[n - 1], parts[n])]

LEMMA CollectsExist ==
  ASSUME NEW parts \in Seq(Parts)
  PROVE  \E f : Collects(parts, f) /\ Relay!CloudCollect(parts) = f[Len(parts)]
<1>1. Len(parts) \in Nat /\ \A n \in 1..Len(parts) : parts[n] \in Parts
  BY PartsAre
<1>. DEFINE Step == [n \in 1..Len(parts) |-> [a \in Accs |-> Relay!CloudTake(a, parts[n])]]
<1>2. Step \in [1..Len(parts) -> [Accs -> Accs]]
  <2>1. ASSUME NEW n \in 1..Len(parts), NEW a \in Accs PROVE Relay!CloudTake(a, parts[n]) \in Accs
    <3>1. PICK x : x = Relay!CloudTake(a, parts[n])
      OBVIOUS
    <3>. QED  BY <1>1, <3>1, TakeIs
  <2>. QED  BY <2>1
<1>3. NoAcc \in Accs
  <2>1. <<>> \in Seq(Nat) /\ <<>> \in Seq(CloudCalls) /\ FALSE \in BOOLEAN
    OBVIOUS
  <2>. QED  BY <2>1 DEF NoAcc, Accs
<1>. HIDE DEF Step
<1>4. PICK f : Unrolls(f, Len(parts), NoAcc, Step) /\ \A n \in 0..Len(parts) : f[n] \in Accs
  BY <1>1, <1>2, <1>3, RecursionIn
<1>5. \A n \in 1..Len(parts) : f[n] = Relay!CloudTake(f[n - 1], parts[n])
  <2>. SUFFICES ASSUME NEW n \in 1..Len(parts) PROVE f[n] = Relay!CloudTake(f[n - 1], parts[n])
    OBVIOUS
  <2>1. n - 1 \in 0..Len(parts)
    BY <1>1
  <2>2. f[n] = Step[n][f[n - 1]] /\ f[n - 1] \in Accs
    BY <1>4, <2>1 DEF Unrolls
  <2>. QED  BY <2>2 DEF Step
<1>6. Collects(parts, f)
  <2>1. f = [n \in 0..Len(parts) |-> f[n]] /\ f[0] = NoAcc
    BY <1>4 DEF Unrolls
  <2>2. \A n \in 0..Len(parts) : f[n] = IF n = 0 THEN NoAcc ELSE Relay!CloudTake(f[n - 1], parts[n])
    <3>1. \A n \in 0..Len(parts) : n = 0 \/ n \in 1..Len(parts)
      BY <1>1
    <3>. QED  BY <1>5, <2>1, <3>1
  <2>. QED  BY <2>1, <2>2, Zenon DEF Collects
<1>. DEFINE g == CHOOSE g : Collects(parts, g)
<1>7. Collects(parts, g)
  BY <1>6
<1>8. Relay!CloudCollect(parts) = g[Len(parts)]
  BY DEF Relay!CloudCollect, Collects, NoAcc
<1>. QED  BY <1>7, <1>8

LEMMA CollectIs ==
  ASSUME NEW parts \in Seq(Parts), NEW x, x = Relay!CloudCollect(parts)
  PROVE  x \in Accs /\ x.text = Relay!AllText(parts) /\ (x.calls # <<>> <=> HasCall(parts))
<1>1. PICK f : Collects(parts, f) /\ x = f[Len(parts)]
  BY CollectsExist
<1>2. Len(parts) \in Nat /\ DOMAIN parts = 1..Len(parts) /\ \A n \in 1..Len(parts) : parts[n] \in Parts
  BY PartsAre
<1>. DEFINE T == {n \in DOMAIN parts : Relay!IsText(parts[n])}
<1>3. Valued(Nat, parts, T)
  BY PartsValued
<1>4. \A n \in 1..Len(parts) : n \in T <=> Relay!IsText(parts[n])
  BY <1>2
<1>5. Relay!AllText(parts) = Relay!JoinOf(parts, T)
  BY DEF Relay!AllText
<1>. HIDE DEF T
<1>6. PICK h : JoinsAt(parts, T, h) /\ Relay!JoinOf(parts, T) = h[Len(parts)]
  BY <1>3, JoinOfIs
<1>. DEFINE P == {n \in 0..Len(parts) : f[n] \in Accs /\ f[n].text = h[n]
                                        /\ (f[n].calls # <<>> <=> \E k \in 1..n : Relay!IsCall(parts[k]))}
<1>7. 0 \in P
  <2>1. 0 \in 0..Len(parts)
    BY <1>2
  <2>2. f[0] = NoAcc /\ h[0] = <<>>
    BY <1>1, <1>6, <2>1 DEF Collects, JoinsAt
  <2>3. <<>> \in Seq(Nat) /\ <<>> \in Seq(CloudCalls) /\ FALSE \in BOOLEAN /\ 1..0 = {}
    OBVIOUS
  <2>4. NoAcc \in Accs /\ NoAcc.text = <<>> /\ NoAcc.calls = <<>>
    BY <2>3 DEF NoAcc, Accs
  <2>. QED  BY <2>1, <2>2, <2>3, <2>4
<1>8. \A n \in 0..Len(parts) : n < Len(parts) /\ n \in P => n + 1 \in P
  <2>. SUFFICES ASSUME NEW n \in 0..Len(parts), n < Len(parts), n \in P PROVE n + 1 \in P
    OBVIOUS
  <2>1. n + 1 \in 1..Len(parts) /\ (n + 1) - 1 = n /\ n + 1 \in 0..Len(parts) /\ n + 1 # 0
    BY <1>2
  <2>2. PICK m : m = n + 1
    OBVIOUS
  <2>3. f[m] = Relay!CloudTake(f[n], parts[m])
    BY <1>1, <2>1, <2>2 DEF Collects
  <2>4. h[m] = IF m \in T THEN h[n] \o parts[m].v ELSE h[n]
    BY <1>6, <2>1, <2>2 DEF JoinsAt
  <2>5. PICK a, p, y : a = f[n] /\ p = parts[m] /\ y = f[m]
    OBVIOUS
  <2>6. a \in Accs /\ p \in Parts /\ y = Relay!CloudTake(a, p)
    BY <1>2, <2>1, <2>2, <2>3, <2>5
  <2>7. /\ y \in Accs /\ y.text = (IF Relay!IsText(p) THEN a.text \o p.v ELSE a.text)
        /\ (y.calls # <<>> <=> a.calls # <<>> \/ Relay!IsCall(p))
    BY <2>6, TakeIs
  <2>8. y.text = h[m]
    <3>1. m \in T <=> Relay!IsText(p)
      BY <1>4, <2>1, <2>2, <2>5
    <3>2. a.text = h[n]
      BY <2>5
    <3>. QED  BY <2>4, <2>5, <2>7, <3>1, <3>2
  <2>9. y.calls # <<>> <=> \E k \in 1..m : Relay!IsCall(parts[k])
    <3>1. \A k \in 1..m : k \in 1..n \/ k = m
      BY <1>2, <2>2
    <3>2. \A k \in 1..n : k \in 1..m
      BY <1>2, <2>2
    <3>3. m \in 1..m
      BY <2>1, <2>2
    <3>4. (\E k \in 1..m : Relay!IsCall(parts[k]))
          <=> ((\E k \in 1..n : Relay!IsCall(parts[k])) \/ Relay!IsCall(parts[m]))
      BY <3>1, <3>2, <3>3
    <3>5. a.calls # <<>> <=> \E k \in 1..n : Relay!IsCall(parts[k])
      BY <2>5
    <3>. QED  BY <2>5, <2>7, <3>4, <3>5
  <2>. QED  BY <2>1, <2>2, <2>5, <2>7, <2>8, <2>9
<1>9. Len(parts) \in P
  <2>1. Len(parts) \in Nat /\ Len(parts) \in 0..Len(parts)
    BY <1>2
  <2>. HIDE DEF P
  <2>2. 0..Len(parts) \subseteq P
    BY <1>7, <1>8, <2>1, CountingTo
  <2>. QED  BY <2>1, <2>2
<1>. QED  BY <1>1, <1>2, <1>5, <1>6, <1>9 DEF HasCall

-----------------------------------------------------------------------------
(* The events that are sent at the end.                                    *)

CallsEvents == [t : {"added", "args", "done"}, item : Nat \ {0}, call : Nat, name : Nat, v : Seq(Nat)]

LEMMA CallsEventIs ==
  ASSUME NEW t \in {"added", "args", "done"}, NEW n \in Nat, NEW made \in Nat, NEW name \in Nat,
         NEW v \in Seq(Nat)
  PROVE  Relay!Event(t, Relay!ItemId(n), made, name, v) \in CallsEvents
<1>1. Relay!ItemId(n) \in Nat \ {0}
  BY DEF Relay!ItemId
<1>. QED  BY <1>1 DEF Relay!Event, CallsEvents

LEMMA CallsEventsMiddle ==
  ASSUME NEW e \in CallsEvents
  PROVE  AboutCalls(e)
BY DEF CallsEvents, AboutCalls, Middle

Tells(flat, calls) ==
  /\ flat \in Seq(CallsEvents)
  /\ calls = <<>> => flat = <<>>
  /\ calls # <<>> => \E k \in DOMAIN flat : flat[k].t = "added"
LEMMA CloudFlat ==
  ASSUME NEW calls \in Seq(CloudCalls), NEW flat,
         flat = Relay!FlattenSeq([n \in DOMAIN calls |-> Relay!CallEvents(n, calls[n])])
  PROVE  Tells(flat, calls)
<1>. USE DEF Tells
<1>1. Len(calls) \in Nat /\ DOMAIN calls = 1..Len(calls) /\ \A n \in 1..Len(calls) : calls[n] \in CloudCalls
  OBVIOUS
<1>2. PICK q : q = [n \in 1..Len(calls) |-> Relay!CallEvents(n, calls[n])]
  OBVIOUS
<1>3. ASSUME NEW n \in 1..Len(calls)
      PROVE  Relay!CallEvents(n, calls[n]) \in Seq(CallsEvents)
               /\ 1 \in DOMAIN Relay!CallEvents(n, calls[n]) /\ Relay!CallEvents(n, calls[n])[1].t = "added"
  <2>1. PICK x : x = calls[n]
    OBVIOUS
  <2>2. x.id \in Nat /\ x.name \in Nat /\ x.v \in Seq(Nat) /\ <<>> \in Seq(Nat) /\ 0 \in Nat /\ n \in Nat
    BY <1>1, <2>1 DEF CloudCalls
  <2>3. PICK a, b, c : /\ a = Relay!Event("added", Relay!ItemId(n), x.id, x.name, <<>>)
                       /\ b = Relay!Event("args", Relay!ItemId(n), x.id, 0, x.v)
                       /\ c = Relay!Event("done", Relay!ItemId(n), x.id, x.name, x.v)
    OBVIOUS
  <2>4. a \in CallsEvents /\ b \in CallsEvents /\ c \in CallsEvents
    <3>1. a \in CallsEvents
      BY <2>2, <2>3, CallsEventIs
    <3>2. b \in CallsEvents
      BY <2>2, <2>3, CallsEventIs
    <3>3. c \in CallsEvents
      BY <2>2, <2>3, CallsEventIs
    <3>. QED  BY <3>1, <3>2, <3>3
  <2>5. Relay!CallEvents(n, x) = <<a, b, c>>
    BY <2>3 DEF Relay!CallEvents, Relay!Added, Relay!ArgsDelta, Relay!Done
  <2>6. a.t = "added"
    BY <2>3 DEF Relay!Event
  <2>7. <<a, b, c>> \in Seq(CallsEvents) /\ 1 \in DOMAIN <<a, b, c>> /\ <<a, b, c>>[1] = a
    BY <2>4
  <2>. QED  BY <2>1, <2>5, <2>6, <2>7
<1>4. /\ q \in Seq(Seq(CallsEvents)) /\ Len(q) = Len(calls)
      /\ \A n \in 1..Len(calls) : 1 \in DOMAIN q[n] /\ q[n][1].t = "added"
  <2>1. \A n \in 1..Len(calls) : q[n] = Relay!CallEvents(n, calls[n])
    BY <1>2
  <2>2. q \in Seq(Seq(CallsEvents)) /\ Len(q) = Len(calls)
    BY <1>1, <1>2, <1>3
  <2>. QED  BY <1>3, <2>1, <2>2
<1>5. flat = Relay!FlattenSeq(q)
  BY <1>1, <1>2
<1>6. flat \in Seq(CallsEvents) /\ \E at, off : Placed(q, Len(q), flat, at, off)
  BY <1>4, <1>5, FlatPlaces
<1>7. PICK at, off : Placed(q, Len(q), flat, at, off)
  BY <1>6
<1>8. CASE calls = <<>>
  <2>1. Len(q) = 0 /\ 1..0 = {}
    BY <1>4, <1>8
  <2>2. DOMAIN flat = {}
    BY <1>7, <2>1 DEF Placed
  <2>3. flat = <<>>
    BY <1>6, <2>2
  <2>. QED  BY <1>6, <1>8, <2>3
<1>9. CASE calls # <<>>
  <2>1. 1 \in 1..Len(q) /\ 1 \in DOMAIN q[1] /\ q[1][1].t = "added"
    BY <1>1, <1>4, <1>9
  <2>2. PICK k \in DOMAIN flat : at[k] = 1 /\ off[k] = 1
    BY <1>7, <2>1 DEF Placed
  <2>3. flat[k] = q[at[k]][off[k]]
    BY <1>7 DEF Placed
  <2>. QED  BY <1>6, <1>9, <2>1, <2>2, <2>3
<1>. QED  BY <1>8, <1>9

LEMMA DoneFlat ==
  ASSUME NEW list \in Seq(Parts), NEW flat,
         flat = Relay!FlattenSeq([i \in DOMAIN list |->
                  LET item == list[i] IN IF Relay!IsCall(item)
                    THEN <<Relay!Done(Relay!ItemId(i), item.id, item.name, item.v)>> ELSE <<>>])
  PROVE  flat \in Seq(CallsEvents) /\ (~HasCall(list) => flat = <<>>)
<1>1. Len(list) \in Nat /\ DOMAIN list = 1..Len(list) /\ \A n \in 1..Len(list) : list[n] \in Parts
  BY PartsAre
<1>. DEFINE Of(i) == IF Relay!IsCall(list[i])
       THEN <<Relay!Done(Relay!ItemId(i), list[i].id, list[i].name, list[i].v)>> ELSE <<>>
<1>2. PICK q : q = [i \in 1..Len(list) |-> Of(i)]
  OBVIOUS
<1>3. ASSUME NEW i \in 1..Len(list) PROVE Of(i) \in Seq(CallsEvents) /\ (~Relay!IsCall(list[i]) => Of(i) = <<>>)
  <2>1. PICK x : x = list[i]
    OBVIOUS
  <2>2. x.id \in Nat /\ x.name \in Nat /\ x.v \in Seq(Nat) /\ i \in Nat
    BY <1>1, <2>1 DEF Parts
  <2>3. PICK c : c = Relay!Event("done", Relay!ItemId(i), x.id, x.name, x.v)
    OBVIOUS
  <2>4. c \in CallsEvents
    BY <2>2, <2>3, CallsEventIs
  <2>5. Of(i) = IF Relay!IsCall(x) THEN <<c>> ELSE <<>>
    BY <2>1, <2>3 DEF Relay!Done
  <2>6. <<c>> \in Seq(CallsEvents) /\ <<>> \in Seq(CallsEvents)
    BY <2>4
  <2>. HIDE DEF Of
  <2>. QED  BY <2>1, <2>5, <2>6
<1>4. flat = Relay!FlattenSeq(q)
  BY <1>1, <1>2
<1>. HIDE DEF Of
<1>5. q \in Seq(Seq(CallsEvents)) /\ Len(q) = Len(list) /\ \A i \in 1..Len(list) : q[i] = Of(i)
  BY <1>1, <1>2, <1>3
<1>6. flat \in Seq(CallsEvents) /\ \E at, off : Placed(q, Len(q), flat, at, off)
  BY <1>4, <1>5, FlatPlaces
<1>7. PICK at, off : Placed(q, Len(q), flat, at, off)
  BY <1>6
<1>8. ASSUME ~HasCall(list) PROVE flat = <<>>
  <2>1. \A i \in 1..Len(list) : q[i] = <<>>
    BY <1>1, <1>3, <1>5, <1>8 DEF HasCall
  <2>2. \A k \in DOMAIN flat : at[k] \in 1..Len(list) /\ off[k] \in DOMAIN q[at[k]]
    BY <1>5, <1>7 DEF Placed
  <2>3. DOMAIN <<>> = {}
    OBVIOUS
  <2>4. DOMAIN flat = {}
    BY <2>1, <2>2, <2>3
  <2>. QED  BY <1>6, <2>4
<1>. QED  BY <1>6, <1>8

\* The events of calls between what comes first and the end.
Assembles(T, head, flat, end, events) ==
  head \in Seq(T) /\ flat \in Seq(CallsEvents) /\ CallsEvents \subseteq T /\ end \in T
    /\ events = (head \o flat) \o <<end>>
LEMMA Assembled ==
  ASSUME NEW T, NEW head, NEW flat, NEW end, NEW events, Assembles(T, head, flat, end, events)
  PROVE  /\ Len(head) \in Nat /\ Len(flat) \in Nat /\ Len(events) = Len(head) + Len(flat) + 1
              /\ Len(events) \in Nat
         /\ \A n \in 1..Len(head) : events[n] = head[n]
         /\ \A n \in 1..Len(flat) : events[Len(head) + n] = flat[n]
         /\ \A n \in (Len(head) + 1)..(Len(head) + Len(flat)) : AboutCalls(events[n])
         /\ events[Len(head) + Len(flat) + 1] = end
<1>. USE DEF Assembles
<1>1. flat \in Seq(T) /\ Len(flat) \in Nat /\ DOMAIN flat = 1..Len(flat)
        /\ \A n \in 1..Len(flat) : flat[n] \in CallsEvents
  OBVIOUS
<1>2. PICK w : w = head \o flat
  OBVIOUS
<1>3. w \in Seq(T) /\ Joined(head, flat, w)
  BY <1>1, <1>2, ConcatIs
<1>4. events = Append(w, end)
  BY <1>2, <1>3
<1>5. Longer(w, end, events) /\ events \in Seq(T) /\ Len(events) = Len(w) + 1
  <2>1. w \in Seq(T) /\ end \in T
    BY <1>3
  <2>2. Longer(w, end, Append(w, end)) /\ Append(w, end) \in Seq(T)
    BY ONLY <2>1, AppendIs
  <2>3. Len(Append(w, end)) = Len(w) + 1
    BY ONLY <2>1
  <2>. QED  BY <1>4, <2>2, <2>3
<1>6. /\ Len(head) \in Nat /\ Len(w) = Len(head) + Len(flat)
      /\ \A n \in 1..Len(head) : w[n] = head[n]
      /\ \A n \in 1..Len(flat) : w[Len(head) + n] = flat[n]
  BY <1>3 DEF Joined
<1>7. \A n \in 1..Len(w) : events[n] = w[n]
  BY <1>5 DEF Longer
<1>8. events[Len(w) + 1] = end
  BY <1>5 DEF Longer
<1>9. \A n \in 1..Len(head) : events[n] = head[n]
  <2>1. \A n \in 1..Len(head) : n \in 1..Len(w)
    BY <1>1, <1>6
  <2>. QED  BY <1>6, <1>7, <2>1
<1>10. \A n \in 1..Len(flat) : events[Len(head) + n] = flat[n]
  <2>1. \A n \in 1..Len(flat) : Len(head) + n \in 1..Len(w)
    BY <1>1, <1>6
  <2>. QED  BY <1>6, <1>7, <2>1
<1>11. ASSUME NEW n \in (Len(head) + 1)..(Len(head) + Len(flat)) PROVE AboutCalls(events[n])
  <2>1. PICK k : k = n - Len(head)
    OBVIOUS
  <2>2. k \in 1..Len(flat) /\ n = Len(head) + k
    BY <1>1, <1>6, <2>1
  <2>3. events[n] = flat[k] /\ flat[k] \in CallsEvents
    BY <1>1, <1>10, <2>2
  <2>. QED  BY <2>3, CallsEventsMiddle
<1>. QED  BY <1>1, <1>5, <1>6, <1>8, <1>9, <1>10, <1>11

\* What comes first was told; then come the calls, and the end.
Rest(c, st, s, T, head, flat, end, events, f, text, has, parts) ==
  /\ c \in {"chat", "anthropic", "gemini"} /\ Assembles(T, head, flat, end, events) /\ Runs(c, st, events, f)
  /\ parts \in Seq(Parts) /\ end = Relay!Ended("completed", parts) /\ s \in Seq(Chunks)
  /\ Now(c, s, f, Len(head), text, FALSE)
  /\ has => f[Len(head)].st.tools # <<>> \/ \E k \in DOMAIN flat : flat[k].t = "added"
  /\ ~has => f[Len(head)].st.tools = <<>> /\ flat = <<>>
LEMMA RestTold ==
  ASSUME NEW c, NEW st, NEW s, NEW T, NEW head, NEW flat, NEW end, NEW events, NEW f, NEW text, NEW has,
         NEW parts,
         Rest(c, st, s, T, head, flat, end, events, f, text, has, parts), NEW x, x = f[Len(events)]
  PROVE  Complete(c, x.st, s \o x.out, text) /\ WithCalls(x.st, has)
<1>1. PICK m, M : m = Len(head) /\ M = Len(head) + Len(flat)
  OBVIOUS
<1>2. Assembles(T, head, flat, end, events)
  BY DEF Rest
<1>3. /\ Len(head) \in Nat /\ Len(flat) \in Nat /\ Len(events) = Len(head) + Len(flat) + 1 /\ Len(events) \in Nat
      /\ \A n \in 1..Len(flat) : events[Len(head) + n] = flat[n]
      /\ \A n \in (Len(head) + 1)..(Len(head) + Len(flat)) : AboutCalls(events[n])
      /\ events[Len(head) + Len(flat) + 1] = end
  BY <1>2, Assembled
<1>4. m \in Nat /\ M \in Nat /\ m <= M /\ M <= Len(events) /\ Len(events) = M + 1 /\ Len(events) \in Nat
  BY <1>1, <1>3
<1>5. \A n \in (m + 1)..M : AboutCalls(events[n])
  BY <1>1, <1>3
<1>6. /\ c \in {"chat", "anthropic",
           "gemini"} /\ Runs(c, st, events, f) /\ s \in Seq(Chunks) /\ parts \in Seq(Parts)
      /\ end = Relay!Ended("completed", parts) /\ Now(c, s, f, m, text, FALSE)
  BY <1>1 DEF Rest
<1>7. Follows(c, st, events, f, s, m, M, text, FALSE)
  BY <1>4, <1>5, <1>6 DEF Follows
<1>8. events[M + 1] = Relay!Ended("completed", parts)
  BY <1>1, <1>3, <1>6
<1>9. has => f[m].st.tools # <<>> \/ \E n \in (m + 1)..M : events[n].t = "added"
  <2>. SUFFICES ASSUME has, f[m].st.tools = <<>> PROVE \E n \in (m + 1)..M : events[n].t = "added"
    OBVIOUS
  <2>1. PICK k \in DOMAIN flat : flat[k].t = "added"
    BY <1>1 DEF Rest
  <2>2. DOMAIN flat = 1..Len(flat)
    BY <1>2 DEF Assembles
  <2>3. PICK n : n = m + k
    OBVIOUS
  <2>4. n \in (m + 1)..M
    BY <1>1, <1>3, <2>2, <2>3
  <2>5. events[n] = flat[k]
    BY <1>1, <1>3, <2>2, <2>3
  <2>. QED  BY <2>1, <2>4, <2>5
<1>10. ~has => f[m].st.tools = <<>> /\ M = m
  <2>. SUFFICES ASSUME ~has PROVE f[m].st.tools = <<>> /\ M = m
    OBVIOUS
  <2>1. f[m].st.tools = <<>> /\ flat = <<>>
    BY <1>1 DEF Rest
  <2>2. Len(flat) = 0
    BY <2>1
  <2>. QED  BY <1>1, <1>3, <2>1, <2>2
<1>11. Ending(c, st, events, f, s, m, M, text, has, parts)
  BY <1>4, <1>6, <1>7, <1>8, <1>9, <1>10 DEF Ending
<1>12. PICK u : u = s \o x.out
  OBVIOUS
<1>13. x = f[Len(events)]
  OBVIOUS
<1>14. Complete(c, x.st, u, text)
  BY ONLY <1>11, <1>12, <1>13, EndRuns
<1>15. WithCalls(x.st, has)
  BY ONLY <1>11, <1>13, EndCalls
<1>. QED  BY <1>12, <1>14, <1>15

-----------------------------------------------------------------------------
(* WorkBuddy's end: every call is done, and the answer is over.            *)

WorkbuddyEnds(c, st, s, list, x) ==
  /\ c \in {"chat", "anthropic", "gemini"} /\ list \in Seq(Parts) /\ Talk(c, st, s, FALSE)
  /\ st.tools # <<>> <=> HasCall(list)
  /\ x = Relay!ConvertAll(c, st, Relay!WorkbuddyEnd([output |-> list, out |-> <<>>]).out)
WorkbuddyEnded(c, st, s, list, x) ==
  Over(c, x.st, s \o x.out, FALSE) /\ x.st.text = st.text /\ (HasCall(list) <=> x.st.tools # <<>>)
LEMMA WorkbuddyEndTold ==
  ASSUME NEW c, NEW st, NEW s, NEW list, NEW x, WorkbuddyEnds(c, st, s, list, x)
  PROVE  WorkbuddyEnded(c, st, s, list, x)
<1>. USE DEF WorkbuddyEnds
<1>1. PICK flat : flat = Relay!FlattenSeq([i \in DOMAIN list |->
        LET item == list[i] IN IF Relay!IsCall(item)
          THEN <<Relay!Done(Relay!ItemId(i), item.id, item.name, item.v)>> ELSE <<>>])
  OBVIOUS
<1>2. flat \in Seq(CallsEvents) /\ (~HasCall(list) => flat = <<>>)
  BY <1>1, DoneFlat
<1>3. PICK end, events : end = Relay!Ended("completed", list) /\ events = flat \o <<end>>
  OBVIOUS
<1>4. x = Relay!ConvertAll(c, st, events)
  BY <1>1, <1>3 DEF Relay!WorkbuddyEnd
<1>5. PICK T, head : T = CallsEvents \cup {end} /\ head = <<>>
  OBVIOUS
<1>6. Assembles(T, head, flat, end, events)
  <2>1. head \in Seq(T) /\ head \o flat = flat /\ end \in T /\ CallsEvents \subseteq T
    BY <1>2, <1>5
  <2>. QED  BY <1>2, <1>3, <2>1 DEF Assembles
<1>7. Len(events) \in Nat /\ Len(head) = 0
  <2>1. Len(events) \in Nat
    BY <1>6, Assembled
  <2>. QED  BY <1>5, <2>1
<1>8. PICK f : Runs(c, st, events, f) /\ x = f[Len(events)]
  BY <1>4, <1>7, RunsExist
<1>9. f[0] = Relay!Silent(st)
  BY <1>7, <1>8, RunStep
<1>10. f[0].st = st /\ f[0].out = <<>>
  BY <1>9 DEF Relay!Silent, Relay!Tell
<1>11. s \in Seq(Chunks) /\ s \o <<>> = s /\ <<>> \in Seq(Chunks)
  BY DEF Talk
<1>12. PICK text, has : text = st.text /\ has = HasCall(list)
  OBVIOUS
<1>13. Now(c, s, f, 0, text, FALSE)
  BY <1>10, <1>11, <1>12 DEF Now
<1>14. Rest(c, st, s, T, head, flat, end, events, f, text, has, list)
  BY <1>2, <1>3, <1>6, <1>7, <1>8, <1>10, <1>11, <1>12, <1>13 DEF Rest
<1>15. Over(c, x.st, s \o x.out, FALSE) /\ x.st.text = text /\ (has <=> x.st.tools # <<>>)
  <2>1. x = f[Len(events)]
    BY <1>8
  <2>2. Complete(c, x.st, s \o x.out, text) /\ WithCalls(x.st, has)
    BY ONLY <1>14, <2>1, RestTold
  <2>. QED  BY <2>2 DEF Complete, WithCalls
<1>. QED  BY <1>12, <1>15 DEF WorkbuddyEnded

-----------------------------------------------------------------------------
(* Antigravity's answer, told at once.                                     *)

Begins(c, events, f) ==
  c \in {"chat", "anthropic",
    "gemini"} /\ Runs(c, Relay!Blank, events, f) /\ Len(events) \in Nat /\ 1 <= Len(events)
      /\ events[1] = Relay!Created
LEMMA FirstHeard ==
  ASSUME NEW c, NEW events, NEW f, Begins(c, events, f)
  PROVE  Now(c, <<>>, f, 1, <<>>, FALSE) /\ f[1].st.tools = <<>>
<1>. USE DEF Begins
<1>1. PICK y : y = Relay!Convert(c, Relay!Blank, Relay!Created)
  OBVIOUS
<1>2. Talk(c, y.st, y.out, FALSE) /\ y.st.text = <<>> /\ y.st.tools = <<>> /\ y.out \in Seq(Chunks)
  <2>1. PICK strict : strict = FALSE
    OBVIOUS
  <2>2. Talk(c, y.st, y.out, strict) /\ y.st.text = <<>> /\ y.st.tools = <<>> /\ y.out \in Seq(Chunks)
    BY <1>1, FirstTold
  <2>. QED  BY <2>1, <2>2
<1>3. f[0] = Relay!Silent(Relay!Blank) /\ f[1] = TurnGoes(c, f[0], Relay!Created)
  <2>1. 1 \in 1..Len(events) /\ 1 - 1 = 0
    OBVIOUS
  <2>. QED  BY <2>1, RunStep
<1>4. f[1] = Relay!Tell(y.st, <<>> \o y.out)
  BY <1>1, <1>3 DEF TurnGoes, Relay!Silent, Relay!Tell
<1>5. <<>> \o y.out = y.out
  BY <1>2
<1>6. f[1].st = y.st /\ f[1].out = y.out
  BY <1>4, <1>5 DEF Relay!Tell
<1>. QED  BY <1>2, <1>5, <1>6 DEF Now

LEMMA SecondTold ==
  ASSUME NEW c, NEW events, NEW f, Begins(c, events, f), 2 <= Len(events), NEW e, e = events[2],
         Middle(e), e.t \in {"text", "refusal"}, NEW v \in Seq(Nat),
         v = (IF e.t = "text" THEN e.v ELSE <<>>)
  PROVE  Now(c, <<>>, f, 2, v, FALSE) /\ f[2].st.tools = <<>>
<1>1. c \in {"chat", "anthropic", "gemini"} /\ Runs(c, Relay!Blank, events, f) /\ Len(events) \in Nat
  BY DEF Begins
<1>2. Now(c, <<>>, f, 1, <<>>, FALSE) /\ f[1].st.tools = <<>>
  BY FirstHeard
<1>3. f[2] = TurnGoes(c, f[1], e)
  <2>1. 2 \in 1..Len(events) /\ 2 - 1 = 1
    BY <1>1
  <2>. QED  BY <1>1, <2>1, RunStep
<1>4. PICK x, o : x = f[1].st /\ o = f[1].out
  OBVIOUS
<1>5. o \in Seq(Chunks) /\ Talk(c, x, o, FALSE) /\ x.text = <<>> /\ x.tools = <<>>
  <2>1. o \in Seq(Chunks) /\ <<>> \o o = o
    BY <1>2, <1>4 DEF Now
  <2>. QED  BY <1>2, <1>4, <2>1 DEF Now
<1>6. PICK y, strict : y = Relay!Convert(c, x, e) /\ strict = FALSE
  OBVIOUS
<1>7. Told(c, x, o, strict, e, y.st, y.out)
  <2>1. Talk(c, x, o, strict) /\ ~strict
    BY <1>5, <1>6
  <2>. QED  BY <1>1, <1>6, <2>1, OneTold
<1>8. /\ y.out \in Seq(Chunks) /\ Talk(c, y.st, o \o y.out, FALSE) /\ y.st.tools = <<>>
      /\ y.st.text = IF e.t = "text" THEN x.text \o e.v ELSE x.text
  BY <1>5, <1>6, <1>7 DEF Told
<1>9. y.st.text = v
  <2>1. <<>> \o v = v
    OBVIOUS
  <2>. QED  BY <1>5, <1>8, <2>1
<1>10. f[2] = Relay!Tell(y.st, o \o y.out)
  BY <1>3, <1>4, <1>6 DEF TurnGoes
<1>11. o \o y.out \in Seq(Chunks) /\ <<>> \o (o \o y.out) = o \o y.out
  <2>1. o \o y.out \in Seq(Chunks)
    BY <1>5, <1>8
  <2>. QED  BY <2>1
<1>12. f[2].st = y.st /\ f[2].out = o \o y.out
  BY <1>10 DEF Relay!Tell
<1>. QED  BY <1>8, <1>9, <1>11, <1>12 DEF Now

LEMMA PairIs ==
  ASSUME NEW a, NEW b
  PROVE  <<a>> \o <<>> = <<a>> /\ <<a>> \o <<b>> = <<a, b>>
<1>1. PICK T : T = {a, b}
  OBVIOUS
<1>2. a \in T /\ b \in T
  BY <1>1
<1>3. <<a>> \in Seq(T) /\ <<b>> \in Seq(T) /\ <<a, b>> \in Seq(T)
  BY ONLY <1>2
<1>4. <<a>> \o <<>> = <<a>>
  BY ONLY <1>3
<1>5. <<a>> \o <<b>> = <<a, b>>
  <2>1. PICK u, w : u = <<a>> \o <<b>> /\ w = <<a, b>>
    OBVIOUS
  <2>2. u \in Seq(T) /\ w \in Seq(T) /\ Len(u) = 2 /\ Len(w) = 2
    BY ONLY <1>2, <2>1
  <2>3. u[1] = w[1] /\ u[2] = w[2]
    BY ONLY <1>2, <2>1
  <2>4. \A k \in 1..2 : u[k] = w[k]
    BY ONLY <2>3
  <2>5. u = [k \in 1..2 |-> u[k]] /\ w = [k \in 1..2 |-> w[k]]
    BY ONLY <2>2
  <2>. QED  BY <2>1, <2>4, <2>5
<1>. QED  BY <1>4, <1>5

Clouds(c, parts, blocked, x) ==
  /\ c \in {"chat", "anthropic", "gemini"} /\ parts \in Seq(Parts) /\ (blocked => parts = <<>>)
  /\ x = Relay!ConvertAll(c, Relay!Blank, Relay!CloudEvents(parts, blocked))
LEMMA CloudTold ==
  ASSUME NEW c, NEW parts, NEW blocked, NEW x, Clouds(c, parts, blocked, x)
  PROVE  Over(c, x.st, x.out, FALSE) /\ x.st.text = Relay!AllText(parts) /\ (HasCall(parts) <=> x.st.tools # <<>>)
<1>. USE DEF Clouds
<1>1. PICK all : all = Relay!CloudCollect(parts)
  OBVIOUS
<1>2. all \in Accs /\ all.text = Relay!AllText(parts) /\ (all.calls # <<>> <=> HasCall(parts))
  BY <1>1, CollectIs
<1>3. PICK calls : calls = IF blocked THEN <<>> ELSE all.calls
  OBVIOUS
<1>4. all.text \in Seq(Nat) /\ all.calls \in Seq(CloudCalls) /\ calls \in Seq(CloudCalls)
  <2>1. all.text \in Seq(Nat) /\ all.calls \in Seq(CloudCalls) /\ <<>> \in Seq(CloudCalls)
    BY <1>2 DEF Accs
  <2>. QED  BY <1>3, <2>1
<1>5. calls # <<>> <=> HasCall(parts)
  <2>1. CASE blocked
    <3>1. ~HasCall(parts)
      <4>1. DOMAIN parts = {}
        BY <2>1
      <4>. QED  BY <4>1 DEF HasCall
    <3>. QED  BY <1>3, <2>1, <3>1
  <2>2. CASE ~blocked
    BY <1>2, <1>3, <2>2
  <2>. QED  BY <2>1, <2>2
<1>6. PICK flat : flat = Relay!FlattenSeq([n \in DOMAIN calls |-> Relay!CallEvents(n, calls[n])])
  OBVIOUS
<1>7. /\ flat \in Seq(CallsEvents) /\ (calls = <<>> => flat = <<>>)
      /\ (calls # <<>> => \E k \in DOMAIN flat : flat[k].t = "added")
  <2>1. calls \in Seq(CloudCalls)
    BY <1>4
  <2>2. Tells(flat, calls)
    BY ONLY <1>6, <2>1, CloudFlat
  <2>. QED  BY <2>2 DEF Tells
<1>8. PICK output : output = (IF all.text = <<>> THEN <<>> ELSE <<Relay!Text(all.text)>>)
                             \o [n \in DOMAIN calls |-> Relay!Call(calls[n].id, calls[n].name, calls[n].v)]
  OBVIOUS
<1>9. output \in Seq(Parts)
  <2>1. PICK a, b : /\ a = (IF all.text = <<>> THEN <<>> ELSE <<Relay!Text(all.text)>>)
                    /\ b = [n \in DOMAIN calls |-> Relay!Call(calls[n].id, calls[n].name, calls[n].v)]
    OBVIOUS
  <2>2. a \in Seq(Parts)
    <3>1. PICK p : p = Relay!Text(all.text)
      OBVIOUS
    <3>2. p \in Parts
      BY <1>4, <3>1 DEF Relay!Text, Parts
    <3>3. <<p>> \in Seq(Parts) /\ <<>> \in Seq(Parts)
      BY <3>2
    <3>. QED  BY <2>1, <3>1, <3>3
  <2>3. b \in Seq(Parts)
    <3>1. Len(calls) \in Nat /\ DOMAIN calls = 1..Len(calls) /\ \A n \in 1..Len(calls) : calls[n] \in CloudCalls
      BY <1>4
    <3>2. ASSUME NEW n \in 1..Len(calls) PROVE Relay!Call(calls[n].id, calls[n].name, calls[n].v) \in Parts
      <4>1. PICK w : w = calls[n]
        OBVIOUS
      <4>2. w.id \in Nat /\ w.name \in Nat /\ w.v \in Seq(Nat)
        BY <3>1, <4>1 DEF CloudCalls
      <4>3. Relay!Call(w.id, w.name, w.v) \in Parts
        BY <4>2 DEF Relay!Call, Parts
      <4>. QED  BY <4>1, <4>3
    <3>3. b = [n \in 1..Len(calls) |-> Relay!Call(calls[n].id, calls[n].name, calls[n].v)]
      BY <2>1, <3>1
    <3>. QED  BY <3>1, <3>2, <3>3
  <2>4. a \o b \in Seq(Parts)
    BY <2>2, <2>3
  <2>. QED  BY <1>8, <2>1, <2>4
<1>10. PICK end, d : end = Relay!Ended("completed", output)
         /\ d = (IF blocked THEN Relay!Refusal ELSE Relay!TextDelta(all.text))
  OBVIOUS
<1>11. PICK short : short = (~blocked /\ all.text = <<>>)
  OBVIOUS
<1>12. PICK head : head = IF short THEN <<Relay!Created>> ELSE <<Relay!Created, d>>
  OBVIOUS
<1>13. PICK events : events = (head \o flat) \o <<end>>
  OBVIOUS
<1>14. x = Relay!ConvertAll(c, Relay!Blank, events)
  <2>1. PICK mid : mid = IF blocked THEN <<Relay!Refusal>> ELSE IF all.text = <<>>
          THEN <<>> ELSE <<Relay!TextDelta(all.text)>>
    OBVIOUS
  <2>2. Relay!CloudEvents(parts, blocked) = ((<<Relay!Created>> \o mid) \o flat) \o <<end>>
    BY <1>1, <1>3, <1>6, <1>8, <1>10, <2>1 DEF Relay!CloudEvents
  <2>3. mid = IF short THEN <<>> ELSE <<d>>
    BY <1>10, <1>11, <2>1
  <2>4. <<Relay!Created>> \o <<>> = <<Relay!Created>> /\ <<Relay!Created>> \o <<d>> = <<Relay!Created, d>>
    BY PairIs
  <2>5. <<Relay!Created>> \o mid = head
    BY <1>12, <2>3, <2>4
  <2>. QED  BY <1>13, <2>2, <2>5
<1>15. PICK T : T = CallsEvents \cup {Relay!Created, d, end}
  OBVIOUS
<1>16. Assembles(T, head, flat, end, events)
  <2>1. <<Relay!Created>> \in Seq(T) /\ <<Relay!Created, d>> \in Seq(T)
    BY <1>15
  <2>2. head \in Seq(T) /\ CallsEvents \subseteq T /\ end \in T
    BY <1>12, <1>15, <2>1
  <2>. QED  BY <1>7, <1>13, <2>2 DEF Assembles
<1>17. /\ Len(head) \in Nat /\ Len(flat) \in Nat /\ Len(events) = Len(head) + Len(flat) + 1 /\ Len(events) \in Nat
       /\ \A n \in 1..Len(head) : events[n] = head[n]
  BY <1>16, Assembled
<1>18. Len(head) = (IF short THEN 1 ELSE 2) /\ head[1] = Relay!Created /\ (~short => head[2] = d)
  <2>1. Len(<<Relay!Created>>) = 1 /\ Len(<<Relay!Created, d>>) = 2 /\ <<Relay!Created>>[1] = Relay!Created
          /\ <<Relay!Created, d>>[1] = Relay!Created
        /\ <<Relay!Created, d>>[2] = d
    OBVIOUS
  <2>. QED  BY <1>12, <2>1
<1>19. PICK f : Runs(c, Relay!Blank, events, f) /\ x = f[Len(events)]
  BY <1>14, <1>17, RunsExist
<1>20. Begins(c, events, f)
  <2>1. 1 <= Len(events) /\ 1 \in 1..Len(head)
    BY <1>17, <1>18
  <2>. QED  BY <1>17, <1>18, <1>19, <2>1 DEF Begins
<1>21. PICK text : text = Relay!AllText(parts)
  OBVIOUS
<1>22. Now(c, <<>>, f, Len(head), text, FALSE) /\ f[Len(head)].st.tools = <<>>
  <2>1. CASE short
    <3>1. Now(c, <<>>, f, 1, <<>>, FALSE) /\ f[1].st.tools = <<>>
      BY <1>20, FirstHeard
    <3>2. text = <<>> /\ Len(head) = 1
      BY <1>2, <1>11, <1>18, <1>21, <2>1
    <3>. QED  BY <3>1, <3>2
  <2>2. CASE ~short
    <3>1. Len(head) = 2 /\ events[2] = d /\ 2 <= Len(events)
      <4>1. Len(head) = 2
        BY <1>18, <2>2
      <4>2. 2 \in 1..Len(head) /\ 2 <= Len(events)
        BY <1>17, <4>1
      <4>. QED  BY <1>17, <1>18, <2>2, <4>1, <4>2
    <3>2. d.t \in {"text", "refusal"} /\ Middle(d) /\ text \in Seq(Nat)
            /\ text = (IF d.t = "text" THEN d.v ELSE <<>>)
      <4>1. CASE blocked
        <5>1. d.t = "refusal" /\ Middle(d)
          BY <1>10, <4>1 DEF Relay!Refusal, Relay!Event, Middle
        <5>2. text = <<>>
          <6>1. parts = <<>> /\ parts \in Seq(Parts)
            BY <4>1
          <6>2. Len(parts) = 0 /\ DOMAIN parts = {}
            BY <6>1
          <6>3. Relay!JoinOf(parts, {n \in DOMAIN parts : Relay!IsText(parts[n])}) = <<>>
            BY <6>2, JoinNone
          <6>. QED  BY <1>21, <6>3 DEF Relay!AllText
        <5>3. <<>> \in Seq(Nat)
          OBVIOUS
        <5>. QED  BY <5>1, <5>2, <5>3
      <4>2. CASE ~blocked
        <5>1. d.t = "text" /\ d.v = all.text /\ Middle(d)
          BY <1>4, <1>10, <4>2 DEF Relay!TextDelta, Relay!Event, Middle
        <5>. QED  BY <1>2, <1>4, <1>21, <5>1
      <4>. QED  BY <4>1, <4>2
    <3>3. Now(c, <<>>, f, 2, text, FALSE) /\ f[2].st.tools = <<>>
      BY <1>20, <3>1, <3>2, SecondTold
    <3>. QED  BY <3>1, <3>3
  <2>. QED  BY <2>1, <2>2
<1>23. PICK has, s : has = HasCall(parts) /\ s = <<>>
  OBVIOUS
<1>24. Rest(c, Relay!Blank, s, T, head, flat, end, events, f, text, has, output)
  <2>0. s \in Seq(Chunks)
    BY <1>23
  <2>1. Now(c, s, f, Len(head), text, FALSE)
    BY <1>22, <1>23
  <2>2. has => \E k \in DOMAIN flat : flat[k].t = "added"
    BY <1>5, <1>7, <1>23
  <2>3. ~has => f[Len(head)].st.tools = <<>> /\ flat = <<>>
    BY <1>5, <1>7, <1>22, <1>23
  <2>. QED  BY <1>9, <1>10, <1>16, <1>19, <2>0, <2>1, <2>2, <2>3 DEF Rest
<1>25. PICK st : st = Relay!Blank
  OBVIOUS
<1>26. Over(c, x.st, s \o x.out, FALSE) /\ x.st.text = text /\ (has <=> x.st.tools # <<>>)
  <2>1. Rest(c, st, s, T, head, flat, end, events, f, text, has, output)
    BY <1>24, <1>25
  <2>2. x = f[Len(events)]
    BY <1>19
  <2>3. Complete(c, x.st, s \o x.out, text) /\ WithCalls(x.st, has)
    BY ONLY <2>1, <2>2, RestTold
  <2>. QED  BY <2>3 DEF Complete, WithCalls
<1>27. s \o x.out = x.out
  BY <1>23, <1>26 DEF Over
<1>. QED  BY <1>21, <1>23, <1>26, <1>27

-----------------------------------------------------------------------------
(* A stream that goes on, and what a step makes of it.                     *)

ClientKinds == {"chat", "anthropic", "gemini"}

\* Every number of a call is the id of one.
HasIds(sd) == \A n \in 1..Len(Relay!CallsOf(sd)) : \E i \in DOMAIN sd : Relay!IsCall(sd[i]) /\ sd[i].id = n

\* The client has heard the text so far, and of a call if there is one.
LiveOf(c, strict, sd, st, s) ==
  /\ c \in ClientKinds /\ sd \in Seq(Parts) /\ Talk(c, st, s, strict) /\ st.text = Relay!AllText(sd)
  /\ st.tools # <<>> <=> HasCall(sd)
  /\ HasIds(sd)
OverOf(c, strict, sd, st, s) ==
  /\ c \in ClientKinds /\ sd \in Seq(Parts) /\ Over(c, st, s, strict) /\ st.text = Relay!AllText(sd)
  /\ st.tools # <<>> <=> HasCall(sd)
FailedOf(c, strict, st, s) ==
  /\ c \in ClientKinds /\ st \in Convs /\ st.open < st.next /\ s \in Seq(Chunks)
  /\ c = "anthropic" => \E n, o, k : Blocks(s, n, o, k, strict)

\* One event of an answer that goes on.
Event1(c, strict, sd, st, s, e, x) ==
  /\ LiveOf(c, strict, sd, st, s) /\ Middle(e) /\ x = Relay!ConvertAll(c, st, <<e>>)
  /\ strict /\ c = "anthropic" /\ e.t = "args" /\ st.open # -1 => st.kind = "tool"
LEMMA Event1Told ==
  ASSUME NEW c, NEW strict, NEW sd, NEW st, NEW s, NEW e, NEW x, Event1(c, strict, sd, st, s, e, x)
  PROVE  Told(c, st, s, strict, e, x.st, x.out)
<1>1. /\ c \in {"chat", "anthropic",
           "gemini"} /\ Talk(c, st, s, strict) /\ Middle(e) /\ x = Relay!ConvertAll(c, st, <<e>>)
      /\ strict /\ c = "anthropic" /\ e.t = "args" /\ st.open # -1 => st.kind = "tool"
  BY DEF Event1, LiveOf, ClientKinds
<1>2. PICK y : y = Relay!Convert(c, st, e)
  OBVIOUS
<1>3. Told(c, st, s, strict, e, y.st, y.out)
  BY <1>1, <1>2, OneTold
<1>4. y.out \in Seq(Chunks)
  BY <1>3 DEF Told
<1>5. x.st = y.st /\ x.out = y.out
  BY <1>1, <1>2, <1>4, PassOne
<1>. QED  BY <1>3, <1>5

\* It begins.
LEMMA LiveBegins ==
  ASSUME NEW c \in ClientKinds, NEW strict, NEW x, x = Relay!ConvertAll(c, Relay!Blank, <<Relay!Created>>)
  PROVE  LiveOf(c, strict, <<>>, x.st, <<>> \o x.out)
<1>1. PICK y : y = Relay!Convert(c, Relay!Blank, Relay!Created)
  OBVIOUS
<1>2. Talk(c, y.st, y.out, strict) /\ y.st.text = <<>> /\ y.st.tools = <<>> /\ y.out \in Seq(Chunks)
  BY <1>1, FirstTold DEF ClientKinds
<1>3. x.st = y.st /\ x.out = y.out
  BY <1>1, <1>2, PassOne
<1>4. <<>> \o x.out = y.out
  BY <1>2, <1>3
<1>5. PICK sd : sd = <<>>
  OBVIOUS
<1>6. sd \in Seq(Parts) /\ DOMAIN sd = {} /\ Len(sd) = 0
  BY <1>5
<1>7. ~HasCall(sd)
  BY <1>6 DEF HasCall
<1>8. Relay!AllText(sd) = <<>>
  BY <1>6, JoinNone DEF Relay!AllText
<1>9. HasIds(sd)
  <2>1. Len(Relay!CallsOf(sd)) = 0
    BY <1>6, <1>7, CallsSome
  <2>2. 1..0 = {}
    OBVIOUS
  <2>. QED  BY <2>1, <2>2 DEF HasIds
<1>10. LiveOf(c, strict, sd, y.st, y.out)
  BY <1>2, <1>6, <1>7, <1>8, <1>9 DEF LiveOf
<1>. QED  BY <1>3, <1>4, <1>5, <1>10

\* A text is said.
TextSaid(c, strict, sd, st, s, p, v, x) ==
  /\ LiveOf(c, strict, sd, st, s) /\ p \in Parts /\ Relay!IsText(p) /\ p.v = v
  /\ x = Relay!ConvertAll(c, st, <<Relay!TextDelta(v)>>)
LEMMA LiveText ==
  ASSUME NEW c, NEW strict, NEW sd, NEW st, NEW s, NEW p, NEW v, NEW x,
         TextSaid(c, strict, sd, st, s, p, v, x)
  PROVE  LiveOf(c, strict, Append(sd, p), x.st, s \o x.out)
<1>1. /\ c \in ClientKinds /\ sd \in Seq(Parts) /\ st.text = Relay!AllText(sd)
      /\ (st.tools # <<>> <=> HasCall(sd)) /\ HasIds(sd) /\ p \in Parts /\ Relay!IsText(p) /\ p.v = v
  BY DEF TextSaid, LiveOf
<1>2. PICK e : e = Relay!TextDelta(v)
  OBVIOUS
<1>3. e.t = "text" /\ e.v = v /\ Middle(e)
  <2>1. v \in Seq(Nat) /\ 0 \in Nat
    BY <1>1 DEF Parts
  <2>. QED  BY <1>2, <2>1 DEF Relay!TextDelta, Relay!Event, Middle
<1>4. Event1(c, strict, sd, st, s, e, x)
  BY <1>2, <1>3 DEF TextSaid, Event1
<1>5. Told(c, st, s, strict, e, x.st, x.out)
  BY <1>4, Event1Told
<1>6. Talk(c, x.st, s \o x.out, strict) /\ x.st.text = st.text \o v /\ x.st.tools = st.tools
  BY <1>3, <1>5 DEF Told
<1>7. PICK u : u = Append(sd, p)
  OBVIOUS
<1>8. u \in Seq(Parts) /\ Relay!AllText(u) = Relay!AllText(sd) \o v
  BY <1>1, <1>7, AllTextAppend
<1>9. ~Relay!IsCall(p)
  BY <1>1 DEF Relay!IsText, Relay!IsCall
<1>10. Len(Relay!CallsOf(u)) = Len(Relay!CallsOf(sd))
  BY <1>1, <1>7, <1>9, CallsAppend
<1>11. Longer(sd, p, u)
  BY <1>1, <1>7, AppendIs
<1>12. HasCall(u) <=> HasCall(sd)
  BY <1>9, <1>11 DEF HasCall, Longer
<1>13. HasIds(u)
  <2>1. \A i \in DOMAIN sd : i \in DOMAIN u /\ u[i] = sd[i]
    BY <1>11 DEF Longer
  <2>. QED  BY <1>1, <1>10, <2>1 DEF HasIds
<1>. QED  BY <1>1, <1>6, <1>7, <1>8, <1>12, <1>13 DEF LiveOf

\* A call begins.
CallSaid(c, strict, sd, st, s, p, e, x) ==
  /\ LiveOf(c, strict, sd, st, s) /\ p \in Parts /\ Relay!IsCall(p) /\ p.id = Len(Relay!CallsOf(sd)) + 1
  /\ e \in CallsEvents /\ e.t = "added" /\ x = Relay!ConvertAll(c, st, <<e>>)
LEMMA LiveCall ==
  ASSUME NEW c, NEW strict, NEW sd, NEW st, NEW s, NEW p, NEW e, NEW x,
         CallSaid(c, strict, sd, st, s, p, e, x)
  PROVE  LiveOf(c, strict, Append(sd, p), x.st, s \o x.out) /\ (c = "anthropic" => x.st.kind = "tool")
<1>1. /\ c \in ClientKinds /\ sd \in Seq(Parts) /\ st.text = Relay!AllText(sd)
      /\ HasIds(sd) /\ p \in Parts /\ Relay!IsCall(p) /\ p.id = Len(Relay!CallsOf(sd)) + 1
  BY DEF CallSaid, LiveOf
<1>2. e.t = "added" /\ Middle(e)
  BY CallsEventsMiddle DEF CallSaid, AboutCalls
<1>3. Event1(c, strict, sd, st, s, e, x)
  BY <1>2 DEF CallSaid, Event1
<1>4. Told(c, st, s, strict, e, x.st, x.out)
  BY <1>3, Event1Told
<1>5. /\ Talk(c, x.st, s \o x.out, strict) /\ x.st.text = st.text /\ x.st.tools # <<>>
      /\ c = "anthropic" => x.st.kind = "tool"
  BY <1>2, <1>4 DEF Told
<1>6. PICK u : u = Append(sd, p)
  OBVIOUS
<1>7. u \in Seq(Parts) /\ Relay!AllText(u) = Relay!AllText(sd)
  <2>1. ~Relay!IsText(p)
    BY <1>1 DEF Relay!IsText, Relay!IsCall
  <2>. QED  BY <1>1, <1>6, <2>1, AllTextAppend
<1>8. Len(Relay!CallsOf(u)) = Len(Relay!CallsOf(sd)) + 1 /\ Len(Relay!CallsOf(sd)) \in Nat
  BY <1>1, <1>6, CallsAppend
<1>9. Longer(sd, p, u)
  BY <1>1, <1>6, AppendIs
<1>10. Len(sd) + 1 \in DOMAIN u /\ u[Len(sd) + 1] = p /\ \A i \in DOMAIN sd : i \in DOMAIN u /\ u[i] = sd[i]
  BY <1>9 DEF Longer
<1>11. HasCall(u)
  BY <1>1, <1>10 DEF HasCall
<1>12. HasIds(u)
  <2>. SUFFICES ASSUME NEW n \in 1..Len(Relay!CallsOf(u))
                PROVE \E i \in DOMAIN u : Relay!IsCall(u[i]) /\ u[i].id = n
    BY DEF HasIds
  <2>1. n \in 1..Len(Relay!CallsOf(sd)) \/ n = Len(Relay!CallsOf(sd)) + 1
    BY <1>8
  <2>2. CASE n \in 1..Len(Relay!CallsOf(sd))
    BY <1>1, <1>10, <2>2 DEF HasIds
  <2>3. CASE n = Len(Relay!CallsOf(sd)) + 1
    BY <1>1, <1>10, <2>3
  <2>. QED  BY <2>1, <2>2, <2>3
<1>. QED  BY <1>1, <1>5, <1>6, <1>7, <1>11, <1>12 DEF LiveOf

\* A call that is said goes on, or is done.
Alters(sd, u) ==
  /\ u \in Seq(Parts) /\ Len(u) = Len(sd)
  /\ \A n \in 1..Len(sd) : (Relay!IsCall(u[n]) <=> Relay!IsCall(sd[n])) /\ u[n].id = sd[n].id
       /\ (Relay!IsText(sd[n]) => u[n].v = sd[n].v)
CallGoesOn(c, strict, sd, st, s, u, e, x) ==
  /\ LiveOf(c, strict, sd, st, s) /\ HasCall(sd) /\ Alters(sd, u)
  /\ e \in CallsEvents /\ e.t \in {"args", "done"} /\ x = Relay!ConvertAll(c, st, <<e>>)
  /\ strict /\ c = "anthropic" /\ e.t = "args" => st.kind = "tool"
LEMMA LiveGoesOn ==
  ASSUME NEW c, NEW strict, NEW sd, NEW st, NEW s, NEW u, NEW e, NEW x,
         CallGoesOn(c, strict, sd, st, s, u, e, x)
  PROVE  /\ LiveOf(c, strict, u, x.st, s \o x.out)
         /\ c = "anthropic" /\ e.t = "args" => x.st.kind = st.kind
<1>1. /\ c \in ClientKinds /\ sd \in Seq(Parts) /\ st.text = Relay!AllText(sd) /\ HasCall(sd)
           /\ st.tools # <<>> /\ HasIds(sd)
      /\ u \in Seq(Parts) /\ Len(u) = Len(sd)
      /\ \A n \in 1..Len(sd) : (Relay!IsCall(u[n]) <=> Relay!IsCall(sd[n])) /\ u[n].id = sd[n].id
           /\ (Relay!IsText(sd[n]) => u[n].v = sd[n].v)
  BY DEF CallGoesOn, LiveOf, Alters
<1>2. e.t \in {"args", "done"} /\ Middle(e)
  BY CallsEventsMiddle DEF CallGoesOn, AboutCalls
<1>3. Event1(c, strict, sd, st, s, e, x)
  BY <1>2 DEF CallGoesOn, Event1
<1>4. Told(c, st, s, strict, e, x.st, x.out)
  BY <1>3, Event1Told
<1>5. /\ Talk(c, x.st, s \o x.out, strict) /\ x.st.text = st.text /\ x.st.tools # <<>>
      /\ c = "anthropic" /\ e.t = "args" => x.st.kind = st.kind
  BY <1>1, <1>2, <1>4 DEF Told
<1>6. /\ DOMAIN sd = 1..Len(sd) /\ DOMAIN u = 1..Len(sd)
      /\ \A n \in 1..Len(sd) : (Relay!IsText(sd[n]) <=> ~Relay!IsCall(sd[n]))
           /\ (Relay!IsText(u[n]) <=> ~Relay!IsCall(u[n]))
  BY <1>1, PartsAre
<1>7. Relay!AllText(u) = Relay!AllText(sd)
  <2>1. \A n \in 1..Len(sd) : (Relay!IsText(sd[n]) <=> Relay!IsText(u[n]))
          /\ (Relay!IsText(sd[n]) => sd[n].v = u[n].v)
    BY <1>1, <1>6
  <2>2. sd \in Seq(Parts) /\ u \in Seq(Parts) /\ Len(sd) = Len(u)
    BY <1>1
  <2>. QED  BY ONLY <2>1, <2>2, AllTextSame
<1>8. Len(Relay!CallsOf(sd)) = Len(Relay!CallsOf(u))
  <2>1. \A n \in 1..Len(sd) : Relay!IsCall(sd[n]) <=> Relay!IsCall(u[n])
    BY <1>1
  <2>2. sd \in Seq(Parts) /\ u \in Seq(Parts) /\ Len(sd) = Len(u)
    BY <1>1
  <2>. QED  BY ONLY <2>1, <2>2, CallsSame
<1>9. HasCall(u)
  BY <1>1, <1>6 DEF HasCall
<1>10. HasIds(u)
  BY <1>1, <1>6, <1>8 DEF HasIds
<1>. QED  BY <1>1, <1>5, <1>7, <1>9, <1>10 DEF LiveOf

\* The answer ends.
LEMMA LiveEnds ==
  ASSUME NEW c, NEW strict, NEW sd, NEW st, NEW s, LiveOf(c, strict, sd, st, s),
         NEW t \in {"completed", "incomplete"}, NEW x, x = Relay!ConvertAll(c, st, <<Relay!Ended(t, sd)>>)
  PROVE  OverOf(c, strict, sd, x.st, s \o x.out)
<1>1. PICK y : y = Relay!Convert(c, st, Relay!Ended(t, sd))
  OBVIOUS
<1>2. /\ c \in {"chat", "anthropic", "gemini"} /\ c \in ClientKinds /\ sd \in Seq(Parts) /\ Talk(c, st, s, strict)
      /\ st.text = Relay!AllText(sd) /\ (st.tools # <<>> <=> HasCall(sd))
  BY DEF LiveOf, ClientKinds
<1>3. Over(c, y.st, s \o y.out, strict) /\ y.st.text = st.text /\ y.st.tools = st.tools /\ y.out \in Seq(Chunks)
  BY <1>1, <1>2, LastTold
<1>4. x.st = y.st /\ x.out = y.out
  BY <1>1, <1>3, PassOne
<1>. QED  BY <1>2, <1>3, <1>4 DEF OverOf

LEMMA WorkbuddyOver ==
  ASSUME NEW c, NEW sd, NEW st, NEW s, LiveOf(c, FALSE, sd, st, s), NEW its \in Seq(Parts),
         Len(Relay!CallsOf(its)) = Len(Relay!CallsOf(sd)), NEW x,
           x = Relay!ConvertAll(c, st, Relay!WorkbuddyEnd([output |-> its, out |-> <<>>]).out)
  PROVE  OverOf(c, FALSE, sd, x.st, s \o x.out)
<1>1. /\ c \in {"chat", "anthropic", "gemini"} /\ c \in ClientKinds /\ sd \in Seq(Parts) /\ Talk(c, st, s, FALSE)
      /\ st.text = Relay!AllText(sd) /\ (st.tools # <<>> <=> HasCall(sd))
  BY DEF LiveOf, ClientKinds
<1>2. HasCall(its) <=> HasCall(sd)
  <2>1. (Relay!CallsOf(its) # <<>> <=> HasCall(its))
          /\ (Relay!CallsOf(its) = <<>> <=> Len(Relay!CallsOf(its)) = 0)
    BY CallsSome
  <2>2. (Relay!CallsOf(sd) # <<>> <=> HasCall(sd)) /\ (Relay!CallsOf(sd) = <<>> <=> Len(Relay!CallsOf(sd)) = 0)
    BY <1>1, CallsSome
  <2>. QED  BY <2>1, <2>2
<1>3. WorkbuddyEnds(c, st, s, its, x)
  BY <1>1, <1>2 DEF WorkbuddyEnds
<1>4. Over(c, x.st, s \o x.out, FALSE) /\ x.st.text = st.text /\ (HasCall(its) <=> x.st.tools # <<>>)
  <2>1. WorkbuddyEnded(c, st, s, its, x)
    BY ONLY <1>3, WorkbuddyEndTold
  <2>. QED  BY <2>1 DEF WorkbuddyEnded
<1>. QED  BY <1>1, <1>2, <1>4 DEF OverOf

LEMMA CloudOver ==
  ASSUME NEW c \in ClientKinds, NEW sd \in Seq(Parts), NEW blocked, blocked => sd = <<>>,
         NEW x, x = Relay!ConvertAll(c, Relay!Blank, Relay!CloudEvents(sd, blocked))
  PROVE  OverOf(c, FALSE, sd, x.st, <<>> \o x.out)
<1>1. Clouds(c, sd, blocked, x)
  BY DEF Clouds, ClientKinds
<1>2. Over(c, x.st, x.out, FALSE) /\ x.st.text = Relay!AllText(sd) /\ (HasCall(sd) <=> x.st.tools # <<>>)
  BY <1>1, CloudTold
<1>3. <<>> \o x.out = x.out
  BY <1>2 DEF Over
<1>. QED  BY <1>2, <1>3 DEF OverOf

\* The stream fails.
Fails(c, strict, st, s, x) ==
  /\ c \in ClientKinds /\ st \in Convs /\ st.open < st.next /\ s \in Seq(Chunks)
  /\ c = "anthropic" => \E o, k : o \in Int /\ Blocks(s, st.next, o, k, strict)
  /\ x = Relay!ConvertAll(c, st, <<Relay!Failed>>)
LEMMA FailTold ==
  ASSUME NEW c, NEW strict, NEW st, NEW s, NEW x, Fails(c, strict, st, s, x)
  PROVE  FailedOf(c, strict, x.st, s \o x.out)
<1>. USE DEF Fails
<1>1. PICK y : y = Relay!Convert(c, st, Relay!Failed)
  OBVIOUS
<1>2. /\ y.st \in Convs /\ y.st.open = st.open /\ y.st.next = st.next
      /\ s \o y.out \in Seq(Chunks) /\ y.out \in Seq(Chunks)
      /\ c = "anthropic" => \E d \in Chunks : d.k = "error" /\ s \o y.out = Append(s, d)
  <2>1. c \in {"chat", "anthropic", "gemini"}
    BY DEF ClientKinds
  <2>. QED  BY <1>1, <2>1, FailedTold
<1>3. x.st = y.st /\ x.out = y.out
  BY <1>1, <1>2, PassOne
<1>4. ASSUME c = "anthropic" PROVE \E n, o, k : Blocks(s \o y.out, n, o, k, strict)
  <2>1. PICK o, k : o \in Int /\ Blocks(s, st.next, o, k, strict)
    BY <1>4
  <2>2. PICK d \in Chunks : d.k = "error" /\ s \o y.out = Append(s, d)
    BY <1>2, <1>4
  <2>3. d.k \notin Deltas \cup {"message_start", "block_start:text", "block_start:tool", "block_stop"}
    BY <2>2 DEF Deltas
  <2>4. st.next \in Nat
    BY DEF Convs
  <2>5. PICK n : n = st.next
    OBVIOUS
  <2>6. Blocks(Append(s, d), n, o, k, strict)
    BY <2>1, <2>3, <2>4, <2>5, OtherIs
  <2>. QED  BY <2>2, <2>6
<1>. QED  BY <1>2, <1>3, <1>4 DEF FailedOf

LEMMA LiveFails ==
  ASSUME NEW c, NEW strict, NEW sd, NEW st, NEW s, LiveOf(c, strict, sd, st, s), NEW x,
         x = Relay!ConvertAll(c, st, <<Relay!Failed>>)
  PROVE  FailedOf(c, strict, x.st, s \o x.out)
<1>1. /\ c \in ClientKinds /\ st \in Convs /\ st.open < st.next /\ s \in Seq(Chunks)
      /\ c = "anthropic" => Blocks(s, st.next, st.open, st.kind, strict)
  BY DEF LiveOf, Talk
<1>2. st.open \in Int
  BY <1>1 DEF Convs
<1>3. Fails(c, strict, st, s, x)
  BY <1>1, <1>2 DEF Fails
<1>. QED  BY <1>3, FailTold

LEMMA OverFails ==
  ASSUME NEW c, NEW strict, NEW sd, NEW st, NEW s, OverOf(c, strict, sd, st, s), NEW x,
         x = Relay!ConvertAll(c, st, <<Relay!Failed>>)
  PROVE  FailedOf(c, strict, x.st, s \o x.out)
<1>1. /\ c \in ClientKinds /\ st \in Convs /\ st.open < st.next /\ s \in Seq(Chunks)
      /\ c = "anthropic" => Blocks(s, st.next, -1, "none", strict)
  BY DEF OverOf, Over
<1>2. -1 \in Int
  OBVIOUS
<1>3. Fails(c, strict, st, s, x)
  BY <1>1, <1>2 DEF Fails
<1>. QED  BY <1>3, FailTold

-----------------------------------------------------------------------------
(* What the fragments make of what is said and of WorkBuddy's items.       *)

LEMMA OnePiece ==
  ASSUME NEW n \in Nat
  PROVE  <<n>> \in Seq(Nat)
OBVIOUS

LEMMA TextPart ==
  ASSUME NEW v \in Seq(Nat), NEW signed \in BOOLEAN, NEW p,
         p = IF signed THEN Relay!Signed(Relay!Text(v)) ELSE Relay!Text(v)
  PROVE  p \in Parts /\ Relay!IsText(p) /\ p.v = v /\ ~Relay!IsCall(p)
<1>1. CASE signed
  <2>1. p = [kind |-> "text", id |-> 0, name |-> 0, v |-> v, signed |-> TRUE]
    BY <1>1 DEF Relay!Signed, Relay!Text
  <2>. QED  BY ONLY <2>1, v \in Seq(Nat) DEF Parts, Relay!IsText, Relay!IsCall
<1>2. CASE ~signed
  <2>1. p = [kind |-> "text", id |-> 0, name |-> 0, v |-> v, signed |-> FALSE]
    BY <1>2 DEF Relay!Text
  <2>. QED  BY ONLY <2>1, v \in Seq(Nat) DEF Parts, Relay!IsText, Relay!IsCall
<1>. QED  BY <1>1, <1>2

LEMMA CallPart ==
  ASSUME NEW n \in Nat, NEW name \in Nat, NEW v \in Seq(Nat), NEW signed \in BOOLEAN, NEW p,
         p = IF signed THEN Relay!Signed(Relay!Call(n, name, v)) ELSE Relay!Call(n, name, v)
  PROVE  p \in Parts /\ Relay!IsCall(p) /\ p.id = n
<1>1. CASE signed
  <2>1. p = [kind |-> "call", id |-> n, name |-> name, v |-> v, signed |-> TRUE]
    BY <1>1 DEF Relay!Signed, Relay!Call
  <2>. QED  BY ONLY <2>1, n \in Nat, name \in Nat, v \in Seq(Nat) DEF Parts, Relay!IsCall
<1>2. CASE ~signed
  <2>1. p = [kind |-> "call", id |-> n, name |-> name, v |-> v, signed |-> FALSE]
    BY <1>2 DEF Relay!Call
  <2>. QED  BY ONLY <2>1, n \in Nat, name \in Nat, v \in Seq(Nat) DEF Parts, Relay!IsCall
<1>. QED  BY <1>1, <1>2

\* A part gets another value.
Edits(s, i, w, u) ==
  /\ s \in Seq(Parts) /\ i \in DOMAIN s /\ w \in Seq(Nat) /\ u = [s EXCEPT ![i].v = w]
Edited(s, i, u) ==
  /\ u \in Seq(Parts) /\ Len(u) = Len(s)
  /\ \A n \in 1..Len(s) : (Relay!IsCall(u[n]) <=> Relay!IsCall(s[n])) /\ u[n].id = s[n].id
       /\ (n # i => u[n] = s[n])
LEMMA EditIs ==
  ASSUME NEW s, NEW i, NEW w, NEW u, Edits(s, i, w, u)
  PROVE  Edited(s, i, u)
<1>. USE DEF Edits
<1>1. Len(s) \in Nat /\ DOMAIN s = 1..Len(s) /\ \A n \in 1..Len(s) : s[n] \in Parts
  OBVIOUS
<1>2. PICK a, b : a = s[i] /\ b = [s[i] EXCEPT !.v = w]
  OBVIOUS
<1>3. a \in Parts /\ b = [a EXCEPT !.v = w]
  BY <1>1, <1>2
<1>4. b \in Parts /\ b.kind = a.kind /\ b.id = a.id
  BY <1>3 DEF Parts
<1>5. u = [n \in 1..Len(s) |-> IF n = i THEN b ELSE s[n]]
  BY <1>1, <1>2
<1>6. \A n \in 1..Len(s) : u[n] \in Parts
  BY <1>1, <1>4, <1>5
<1>7. u \in Seq(Parts) /\ Len(u) = Len(s)
  <2>1. u \in [1..Len(s) -> Parts]
    BY <1>5, <1>6
  <2>. QED  BY ONLY <1>1, <2>1
<1>8. \A n \in 1..Len(s) : (Relay!IsCall(u[n]) <=> Relay!IsCall(s[n])) /\ u[n].id = s[n].id
        /\ (n # i => u[n] = s[n])
  BY <1>2, <1>4, <1>5 DEF Relay!IsCall
<1>. QED  BY <1>7, <1>8 DEF Edited

LEMMA EditAlters ==
  ASSUME NEW s, NEW i, NEW w, NEW u, Edits(s, i, w, u), Relay!IsCall(s[i])
  PROVE  Alters(s, u)
<1>1. Edited(s, i, u)
  BY EditIs
<1>2. i \in 1..Len(s)
  BY DEF Edits
<1>3. ~Relay!IsText(s[i])
  BY DEF Relay!IsText, Relay!IsCall
<1>. QED  BY <1>1, <1>2, <1>3 DEF Edited, Alters

\* What WorkBuddy's translator does with a text, with a call and with its arguments.
Items(its, next, its2, out, grow, more) ==
  /\ its2 = next.output /\ next.out = out /\ its2 \in Seq(Parts)
  /\ Len(its2) \in Nat /\ Len(its2) <= Len(its) + grow
  /\ Len(Relay!CallsOf(its2)) = Len(Relay!CallsOf(its)) + more
LEMMA TextItems ==
  ASSUME NEW its \in Seq(Parts), NEW v \in Seq(Nat), NEW next,
         next = Relay!WorkbuddyText([output |-> its, out |-> <<>>], v)
  PROVE  Items(its, next, next.output, <<Relay!TextDelta(v)>>, 1, 0)
<1>1. PICK at : at = {i \in DOMAIN its : Relay!IsText(its[i])}
  OBVIOUS
<1>2. Len(its) \in Nat /\ DOMAIN its = 1..Len(its) /\ \A n \in 1..Len(its) : its[n] \in Parts
        /\ its[n].v \in Seq(Nat)
  BY PartsAre
<1>3. Len(Relay!CallsOf(its)) \in Nat
  BY CallsSome
<1>4. CASE at = {}
  <2>1. PICK p : p = Relay!Text(v)
    OBVIOUS
  <2>2. p \in Parts /\ ~Relay!IsCall(p)
    <3>1. p = [kind |-> "text", id |-> 0, name |-> 0, v |-> v, signed |-> FALSE]
      BY <2>1 DEF Relay!Text
    <3>. QED  BY <3>1 DEF Parts, Relay!IsCall
  <2>3. PICK u : u = Append(its, p)
    OBVIOUS
  <2>4. next = [output |-> u, out |-> <<Relay!TextDelta(v)>>]
    BY <1>1, <1>4, <2>1, <2>3 DEF Relay!WorkbuddyText, Relay!TextPiece
  <2>5. Len(Relay!CallsOf(u)) = Len(Relay!CallsOf(its)) + 0
    <3>1. Len(Relay!CallsOf(u)) = IF Relay!IsCall(p) THEN Len(Relay!CallsOf(its)) + 1 ELSE Len(Relay!CallsOf(its))
      BY <2>2, <2>3, CallsAppend
    <3>. QED  BY ONLY <1>3, <2>2, <3>1
  <2>6. u \in Seq(Parts) /\ Len(u) = Len(its) + 1
    BY <2>2, <2>3
  <2>7. next.output = u /\ next.out = <<Relay!TextDelta(v)>>
    BY <2>4
  <2>. QED  BY <1>2, <2>5, <2>6, <2>7 DEF Items
<1>5. CASE at # {}
  <2>1. PICK i : i = CHOOSE j \in at : TRUE
    OBVIOUS
  <2>2. i \in at
    BY <1>5, <2>1
  <2>3. i \in DOMAIN its
    BY <1>1, <2>2
  <2>4. PICK w : w = its[i].v \o v
    OBVIOUS
  <2>5. w \in Seq(Nat)
    BY <1>2, <2>3, <2>4
  <2>6. PICK u : u = [its EXCEPT ![i].v = w]
    OBVIOUS
  <2>7. Edits(its, i, w, u)
    BY <2>3, <2>5, <2>6 DEF Edits
  <2>8. Edited(its, i, u)
    BY <2>7, EditIs
  <2>9. next = [output |-> u, out |-> <<Relay!TextDelta(v)>>]
    BY <1>1, <1>5, <2>1, <2>4, <2>6 DEF Relay!WorkbuddyText, Relay!TextPiece
  <2>10. u \in Seq(Parts) /\ Len(u) = Len(its)
           /\ \A n \in 1..Len(its) : Relay!IsCall(its[n]) <=> Relay!IsCall(u[n])
    BY <2>8 DEF Edited
  <2>11. Len(Relay!CallsOf(its)) = Len(Relay!CallsOf(u))
    BY ONLY its \in Seq(Parts), <2>10, CallsSame
  <2>12. Len(Relay!CallsOf(u)) = Len(Relay!CallsOf(its)) + 0
    BY <1>3, <2>11
  <2>13. next.output = u /\ next.out = <<Relay!TextDelta(v)>>
    BY <2>9
  <2>. QED  BY <1>2, <2>10, <2>12, <2>13 DEF Items
<1>. QED  BY <1>4, <1>5

LEMMA OpenItems ==
  ASSUME NEW its \in Seq(Parts), NEW id \in Nat, NEW name \in Nat, NEW next,
         next = Relay!WorkbuddyOpen([output |-> its, out |-> <<>>], id, name)
  PROVE  Items(its, next, next.output, <<Relay!Added(Relay!ItemId(Len(its) + 1), 0, 0, <<>>)>>, 1, 1)
<1>1. PICK p : p = Relay!Call(id, name, <<>>)
  OBVIOUS
<1>2. p \in Parts /\ Relay!IsCall(p)
  <2>1. p = [kind |-> "call", id |-> id, name |-> name, v |-> <<>>, signed |-> FALSE] /\ <<>> \in Seq(Nat)
    BY <1>1 DEF Relay!Call
  <2>. QED  BY <2>1 DEF Parts, Relay!IsCall
<1>3. PICK u : u = Append(its, p)
  OBVIOUS
<1>4. next = [output |-> u, out |-> <<Relay!Added(Relay!ItemId(Len(its) + 1), 0, 0, <<>>)>>]
  BY <1>1, <1>3 DEF Relay!WorkbuddyOpen
<1>5. Len(Relay!CallsOf(u)) = Len(Relay!CallsOf(its)) + 1
  BY <1>2, <1>3, CallsAppend
<1>6. u \in Seq(Parts) /\ Len(u) = Len(its) + 1 /\ Len(its) \in Nat
  BY <1>2, <1>3
<1>7. next.output = u /\ next.out = <<Relay!Added(Relay!ItemId(Len(its) + 1), 0, 0, <<>>)>>
  BY <1>4
<1>. QED  BY <1>5, <1>6, <1>7 DEF Items

LEMMA ArgsItems ==
  ASSUME NEW its \in Seq(Parts), NEW n \in 1..Len(Relay!CallsOf(its)), NEW v \in Seq(Nat), NEW next,
         next = Relay!WorkbuddyArgs([output |-> its, out |-> <<>>], n, v)
  PROVE  \E i \in Nat : Items(its, next, next.output, <<Relay!ArgsDelta(Relay!ItemId(i), 0, v)>>, 0, 0)
<1>1. PICK i : i = CHOOSE j \in DOMAIN its : Relay!IsCall(its[j]) /\ Len(Relay!CallsOf(SubSeq(its, 1, j))) = n
  OBVIOUS
<1>2. i \in DOMAIN its
  <2>1. \E j \in DOMAIN its : Relay!IsCall(its[j]) /\ Len(Relay!CallsOf(SubSeq(its, 1, j))) = n
    BY CallAt
  <2>. QED  BY <1>1, <2>1
<1>3. Len(its) \in Nat /\ DOMAIN its = 1..Len(its) /\ \A k \in 1..Len(its) : its[k] \in Parts
        /\ its[k].v \in Seq(Nat)
  BY PartsAre
<1>4. Len(Relay!CallsOf(its)) \in Nat
  BY CallsSome
<1>5. PICK w : w = its[i].v \o v
  OBVIOUS
<1>6. w \in Seq(Nat)
  BY <1>2, <1>3, <1>5
<1>7. PICK u : u = [its EXCEPT ![i].v = w]
  OBVIOUS
<1>8. Edits(its, i, w, u)
  BY <1>2, <1>6, <1>7 DEF Edits
<1>9. Edited(its, i, u)
  BY <1>8, EditIs
<1>10. next = [output |-> u, out |-> <<Relay!ArgsDelta(Relay!ItemId(i), 0, v)>>]
  <2>1. Relay!NthCall([output |-> its, out |-> <<>>], n) = i
    BY <1>1 DEF Relay!NthCall
  <2>. QED  BY <1>5, <1>7, <2>1 DEF Relay!WorkbuddyArgs
<1>11. u \in Seq(Parts) /\ Len(u) = Len(its) /\ \A k \in 1..Len(its) : Relay!IsCall(its[k]) <=> Relay!IsCall(u[k])
  BY <1>9 DEF Edited
<1>12. Len(Relay!CallsOf(its)) = Len(Relay!CallsOf(u))
  BY ONLY its \in Seq(Parts), <1>11, CallsSame
<1>13. Len(Relay!CallsOf(u)) = Len(Relay!CallsOf(its)) + 0
  BY <1>4, <1>12
<1>14. next.output = u /\ next.out = <<Relay!ArgsDelta(Relay!ItemId(i), 0, v)>> /\ i \in Nat
  BY <1>2, <1>3, <1>10
<1>15. Len(u) <= Len(its) + 0 /\ Len(u) \in Nat
  BY <1>3, <1>11
<1>. QED  BY <1>11, <1>13, <1>14, <1>15 DEF Items

\* The rule that a delta is for a block of its kind is kept for Codex only.
LEMMA LooseOver ==
  ASSUME NEW c, NEW sd, NEW st, NEW s, OverOf(c, FALSE, sd, st, s), NEW strict, ~strict
  PROVE  OverOf(c, strict, sd, st, s)
BY DEF OverOf, Over, Blocks, DeltasLie
LEMMA LooseLive ==
  ASSUME NEW c, NEW strict, NEW sd, NEW st, NEW s, LiveOf(c, strict, sd, st, s)
  PROVE  LiveOf(c, FALSE, sd, st, s)
BY DEF LiveOf, Talk, Blocks, DeltasLie

-----------------------------------------------------------------------------
(* The invariant of the stream: nothing is sent before it begins, nor      *)
(* while Antigravity's answer is collected (NothingYet); while it is open, *)
(* what was sent is a message that goes on and has told the text so far    *)
(* (HeardLive), and a call of Codex that is not done has its block open    *)
(* (CallOpened); after its end the message is complete, or broken off at a *)
(* place where its blocks still are in order (AllTold).                    *)

Strict(p) == p = "codex"
Placing ==
  /\ provider \in {"codex", "workbuddy", "antigravity"} /\ provider \in Providers
  /\ client \in ClientKinds /\ client \in Clients
  /\ pieces \in 0..MaxPieces /\ closed \in BOOLEAN /\ phase \in Relay!Phases
PartsKept ==
  /\ said \in Seq(Parts) /\ items \in Seq(Parts)
  /\ Len(items) <= Len(said) /\ Len(said) <= pieces
  /\ provider = "workbuddy" => Len(Relay!CallsOf(items)) = Len(Relay!CallsOf(said))
Silence == phase = "new" \/ (phase = "open" /\ provider = "antigravity")
NothingYet ==
  /\ Silence => conv = Relay!Blank /\ sent = <<>> /\ closed
  /\ phase = "new" => said = <<>>
HeardLive == phase = "open" /\ provider # "antigravity" => LiveOf(client, Strict(provider), said, conv, sent)
CallOpened ==
  phase = "open" /\ ~closed =>
    provider = "codex" /\ said # <<>> /\ Relay!IsCall(said[Len(said)])
      /\ (client = "anthropic" => conv.kind = "tool")
AllTold ==
  /\ phase = "ended" => OverOf(client, Strict(provider), said, conv, sent)
  /\ phase \in {"failed", "broken"} => FailedOf(client, Strict(provider), conv, sent)
StreamInv == Placing /\ PartsKept /\ NothingYet /\ HeardLive /\ CallOpened /\ AllTold

LEMMA StreamBegins ==
  ASSUME Relay!PiecesAssumption, Relay!Init
  PROVE  StreamInv
<1>. USE DEF Relay!Init, Relay!PiecesAssumption
<1>1. provider \in {"codex", "workbuddy", "antigravity"} /\ client \in ClientKinds
  BY DEF ClientKinds
<1>2. Placing
  <2>1. 0 \in 0..MaxPieces
    OBVIOUS
  <2>2. closed \in BOOLEAN /\ phase \in Relay!Phases
    BY DEF Relay!Phases
  <2>. QED  BY <1>1, <2>1, <2>2 DEF Placing
<1>3. PartsKept
  <2>1. PICK s : s = <<>>
    OBVIOUS
  <2>2. s \in Seq(Parts) /\ Len(s) = 0
    BY <2>1
  <2>. QED  BY <2>1, <2>2 DEF PartsKept
<1>4. NothingYet /\ HeardLive /\ CallOpened /\ AllTold
  BY DEF NothingYet, HeardLive, CallOpened, AllTold
<1>. QED  BY <1>2, <1>3, <1>4 DEF StreamInv

\* What a step must show: a stream that is open afterwards is open to the client, ...
LEMMA StaysLive ==
  ASSUME Placing', PartsKept', phase' = "open", provider' # "antigravity",
         LiveOf(client', Strict(provider'), said', conv', sent'), CallOpened'
  PROVE  StreamInv'
BY DEF StreamInv, NothingYet, Silence, HeardLive, AllTold
\* ... Antigravity's is silent, ...
LEMMA StaysDark ==
  ASSUME Placing', PartsKept', phase' = "open", provider' = "antigravity", conv' = Relay!Blank,
         sent' = <<>>, closed'
  PROVE  StreamInv'
BY DEF StreamInv, NothingYet, Silence, HeardLive, CallOpened, AllTold
\* ... one that has ended is over, and one that has failed is known as failed.
LEMMA HasStopped ==
  ASSUME Placing', PartsKept', phase' \in {"ended", "failed", "broken"}, AllTold'
  PROVE  StreamInv'
BY DEF StreamInv, NothingYet, Silence, HeardLive, CallOpened

LEMMA SameLists ==
  ASSUME PartsKept, UNCHANGED <<provider, said, items, pieces>>
  PROVE  PartsKept'
BY DEF PartsKept

LEMMA BeginKeeps ==
  ASSUME StreamInv, Relay!Begin
  PROVE  StreamInv'
<1>. USE DEF Relay!Begin, Relay!Steady
<1>1. Placing' /\ PartsKept'
  <2>1. Placing'
    BY DEF StreamInv, Placing, Relay!Phases
  <2>2. PartsKept'
    BY SameLists DEF StreamInv
  <2>. QED  BY <2>1, <2>2
<1>2. conv = Relay!Blank /\ sent = <<>> /\ closed /\ said = <<>>
  BY DEF StreamInv, NothingYet, Silence
<1>3. CASE provider = "antigravity"
  BY <1>1, <1>2, <1>3, StaysDark
<1>4. CASE provider # "antigravity"
  <2>1. PICK x : x = Relay!ConvertAll(client, conv, <<Relay!Created>>)
    OBVIOUS
  <2>2. conv' = x.st /\ sent' = sent \o x.out
    BY <1>4, <2>1 DEF Relay!Pass
  <2>3. client \in ClientKinds
    BY DEF StreamInv, Placing
  <2>4. x = Relay!ConvertAll(client, Relay!Blank, <<Relay!Created>>)
    BY <1>2, <2>1
  <2>5. LiveOf(client, Strict(provider), <<>>, x.st, <<>> \o x.out)
    BY <2>3, <2>4, LiveBegins
  <2>6. LiveOf(client', Strict(provider'), said', conv', sent')
    BY <1>2, <2>2, <2>5
  <2>7. CallOpened'
    BY <1>2 DEF CallOpened
  <2>. QED  BY <1>1, <1>4, <2>6, <2>7, StaysLive
<1>. QED  BY <1>3, <1>4

\* A fragment that is appended to what is said.
LEMMA Appends ==
  ASSUME Relay!PiecesAssumption, StreamInv, Relay!Fragment, NEW p \in Parts, said' = Append(said, p),
         UNCHANGED <<provider, client, phase>>, closed' \in BOOLEAN
  PROVE  /\ Placing' /\ said' \in Seq(Parts) /\ Len(said') = Len(said) + 1 /\ Len(said') <= pieces'
              /\ pieces' \in Nat
         /\ Len(said) \in Nat /\ Len(items) \in Nat /\ Len(items) <= Len(said)
         /\ Len(Relay!CallsOf(said)) \in Nat
         /\ Len(Relay!CallsOf(said')) = IF Relay!IsCall(p)
              THEN Len(Relay!CallsOf(said)) + 1 ELSE Len(Relay!CallsOf(said))
<1>1. said \in Seq(Parts) /\ items \in Seq(Parts) /\ Len(items) <= Len(said) /\ Len(said) <= pieces
  BY DEF StreamInv, PartsKept
<1>2. said' \in Seq(Parts) /\ Len(said') = Len(said) + 1
  BY <1>1
<1>3. pieces \in 0..MaxPieces /\ pieces < MaxPieces /\ pieces' = pieces + 1
  BY DEF StreamInv, Placing, Relay!Fragment
<1>4. pieces' \in 0..MaxPieces /\ pieces' \in Nat
  <2>1. MaxPieces \in Nat
    BY DEF Relay!PiecesAssumption
  <2>. QED  BY ONLY <1>3, <2>1
<1>5. Placing'
  BY <1>4 DEF StreamInv, Placing
<1>6. Len(said) \in Nat /\ Len(items) \in Nat
  BY <1>1
<1>7. Len(said') <= pieces'
  BY ONLY <1>1, <1>2, <1>3, <1>6
<1>8. /\ Len(Relay!CallsOf(said)) \in Nat
      /\ Len(Relay!CallsOf(said')) = IF Relay!IsCall(p)
           THEN Len(Relay!CallsOf(said)) + 1 ELSE Len(Relay!CallsOf(said))
  BY <1>1, CallsAppend
<1>. QED  BY <1>1, <1>2, <1>4, <1>5, <1>6, <1>7, <1>8

LEMMA TextKeeps ==
  ASSUME Relay!PiecesAssumption, StreamInv, Relay!SayText
  PROVE  StreamInv'
<1>. USE DEF Relay!SayText, Relay!Steady
<1>1. PICK v : v = <<pieces'>>
  OBVIOUS
<1>2. v \in Seq(Nat)
  <2>1. pieces' \in Nat
    BY DEF StreamInv, Placing, Relay!Fragment
  <2>. QED  BY <1>1, <2>1, OnePiece
<1>3. PICK p : p \in Parts /\ Relay!IsText(p) /\ p.v = v /\ ~Relay!IsCall(p) /\ said' = Append(said, p)
  <2>1. PICK signed \in BOOLEAN : said' = Append(said,
          IF signed THEN Relay!Signed(Relay!Text(v)) ELSE Relay!Text(v))
    BY <1>1
  <2>2. PICK p : p = IF signed THEN Relay!Signed(Relay!Text(v)) ELSE Relay!Text(v)
    OBVIOUS
  <2>3. p \in Parts /\ Relay!IsText(p) /\ p.v = v /\ ~Relay!IsCall(p)
    BY <1>2, <2>2, TextPart
  <2>. QED  BY <2>1, <2>2, <2>3
<1>4. /\ Placing' /\ said' \in Seq(Parts) /\ Len(said') = Len(said) + 1 /\ Len(said') <= pieces'
           /\ pieces' \in Nat
      /\ Len(said) \in Nat /\ Len(items) \in Nat /\ Len(items) <= Len(said)
      /\ Len(Relay!CallsOf(said)) \in Nat /\ Len(Relay!CallsOf(said')) = Len(Relay!CallsOf(said))
  <2>1. closed' \in BOOLEAN
    BY DEF StreamInv, Placing
  <2>. QED  BY <1>3, <2>1, Appends
<1>5. CallOpened'
  BY DEF CallOpened
<1>6. CASE provider = "antigravity"
  <2>1. PartsKept'
    BY <1>4, <1>6 DEF StreamInv, PartsKept
  <2>2. conv' = Relay!Blank /\ sent' = <<>> /\ closed'
    BY <1>6 DEF StreamInv, NothingYet, Silence
  <2>. QED  BY <1>4, <1>6, <2>1, <2>2, StaysDark
<1>7. CASE provider # "antigravity"
  <2>1. items' \in Seq(Parts) /\ Relay!Pass(<<Relay!TextDelta(v)>>) /\ PartsKept'
    <3>1. CASE provider = "codex"
      BY <1>1, <1>4, <3>1 DEF StreamInv, PartsKept
    <3>2. CASE provider = "workbuddy"
      <4>1. PICK next : next = Relay!WorkbuddyText([output |-> items, out |-> <<>>], v)
        OBVIOUS
      <4>2. items' = next.output /\ Relay!Pass(next.out)
        BY <1>1, <3>2, <4>1
      <4>3. items \in Seq(Parts) /\ Len(Relay!CallsOf(items)) = Len(Relay!CallsOf(said))
        BY <3>2 DEF StreamInv, PartsKept
      <4>4. Items(items, next, next.output, <<Relay!TextDelta(v)>>, 1, 0)
        BY <1>2, <4>1, <4>3, TextItems
      <4>5. /\ items' \in Seq(Parts) /\ next.out = <<Relay!TextDelta(v)>> /\ Len(items') \in Nat
                 /\ Len(items') <= Len(items) + 1
            /\ Len(Relay!CallsOf(items')) = Len(Relay!CallsOf(items)) + 0
        BY <4>2, <4>4 DEF Items
      <4>6. Len(Relay!CallsOf(items')) = Len(Relay!CallsOf(said'))
        BY <1>4, <4>3, <4>5
      <4>7. Len(items') <= Len(said')
        BY <1>4, <4>5
      <4>. QED  BY <1>4, <4>2, <4>5, <4>6, <4>7 DEF PartsKept
    <3>. QED  BY <1>7, <3>1, <3>2 DEF StreamInv, Placing
  <2>2. PICK x : x = Relay!ConvertAll(client, conv, <<Relay!TextDelta(v)>>)
    OBVIOUS
  <2>3. conv' = x.st /\ sent' = sent \o x.out
    BY <2>1, <2>2 DEF Relay!Pass
  <2>4. LiveOf(client, Strict(provider), said, conv, sent)
    BY <1>7 DEF StreamInv, HeardLive
  <2>5. TextSaid(client, Strict(provider), said, conv, sent, p, v, x)
    BY <1>3, <2>2, <2>4 DEF TextSaid
  <2>6. LiveOf(client, Strict(provider), Append(said, p), x.st, sent \o x.out)
    BY <2>5, LiveText
  <2>7. LiveOf(client', Strict(provider'), said', conv', sent')
    BY <1>3, <2>3, <2>6
  <2>. QED  BY <1>4, <1>5, <1>7, <2>1, <2>7, StaysLive
<1>. QED  BY <1>6, <1>7

-----------------------------------------------------------------------------
(* A call begins, goes on and is done.                                     *)

LEMMA OpenCallKeeps ==
  ASSUME Relay!PiecesAssumption, StreamInv, Relay!OpenCall
  PROVE  StreamInv'
<1>. USE DEF Relay!OpenCall, Relay!Steady
<1>1. PICK n : n = Len(Relay!CallsOf(said)) + 1
  OBVIOUS
<1>2. said \in Seq(Parts)
  BY DEF StreamInv, PartsKept
<1>3. Len(Relay!CallsOf(said)) \in Nat /\ n \in Nat
  <2>1. Len(Relay!CallsOf(said)) \in Nat
    BY <1>2, CallsSome
  <2>. QED  BY <1>1, <2>1
<1>4. PICK p : p = Relay!Call(n, n, <<>>)
  OBVIOUS
<1>5. p \in Parts /\ Relay!IsCall(p) /\ p.id = n
  <2>1. p = [kind |-> "call", id |-> n, name |-> n, v |-> <<>>, signed |-> FALSE] /\ <<>> \in Seq(Nat)
    BY <1>4 DEF Relay!Call
  <2>. QED  BY ONLY <1>3, <2>1 DEF Parts, Relay!IsCall
<1>6. said' = Append(said, p)
  BY <1>1, <1>4 DEF Relay!NewId
<1>7. /\ Placing' /\ said' \in Seq(Parts) /\ Len(said') = Len(said) + 1 /\ Len(said') <= pieces'
           /\ pieces' \in Nat
      /\ Len(said) \in Nat /\ Len(items) \in Nat /\ Len(items) <= Len(said)
      /\ Len(Relay!CallsOf(said)) \in Nat /\ Len(Relay!CallsOf(said')) = Len(Relay!CallsOf(said)) + 1
  <2>1. closed' \in BOOLEAN
    BY DEF StreamInv, Placing
  <2>. QED  BY <1>5, <1>6, <2>1, Appends
<1>8. PICK e : e \in CallsEvents /\ e.t = "added" /\ Relay!Pass(<<e>>) /\ items' \in Seq(Parts) /\ PartsKept'
  <2>1. CASE provider = "codex"
    <3>1. PICK e : e = Relay!Event("added", Relay!ItemId(Len(said')), n, n, <<>>)
      OBVIOUS
    <3>2. <<>> \in Seq(Nat) /\ Len(said') \in Nat
      BY <1>7
    <3>3. e \in CallsEvents
      BY <1>3, <3>1, <3>2, CallsEventIs
    <3>4. e.t = "added"
      BY <3>1 DEF Relay!Event
    <3>5. Relay!Pass(<<e>>) /\ items' = items
      BY <1>1, <2>1, <3>1 DEF Relay!NewId, Relay!Added
    <3>6. items' \in Seq(Parts) /\ Len(items') <= Len(said')
      BY <1>7, <3>5 DEF StreamInv, PartsKept
    <3>7. PartsKept'
      BY <1>7, <2>1, <3>6 DEF PartsKept
    <3>. QED  BY <3>3, <3>4, <3>5, <3>6, <3>7
  <2>2. CASE provider = "workbuddy"
    <3>1. PICK next : next = Relay!WorkbuddyOpen([output |-> items, out |-> <<>>], n, n)
      OBVIOUS
    <3>2. items' = next.output /\ Relay!Pass(next.out)
      BY <1>1, <2>2, <3>1 DEF Relay!NewId
    <3>3. items \in Seq(Parts) /\ Len(Relay!CallsOf(items)) = Len(Relay!CallsOf(said))
      BY <2>2 DEF StreamInv, PartsKept
    <3>4. PICK e : e = Relay!Event("added", Relay!ItemId(Len(items) + 1), 0, 0, <<>>)
      OBVIOUS
    <3>5. Items(items, next, next.output, <<e>>, 1, 1)
      BY <1>3, <3>1, <3>3, <3>4, OpenItems DEF Relay!Added
    <3>6. /\ items' \in Seq(Parts) /\ next.out = <<e>> /\ Len(items') \in Nat /\ Len(items') <= Len(items) + 1
          /\ Len(Relay!CallsOf(items')) = Len(Relay!CallsOf(items)) + 1
      BY <3>2, <3>5 DEF Items
    <3>7. Len(Relay!CallsOf(items')) = Len(Relay!CallsOf(said'))
      BY <1>7, <3>3, <3>6
    <3>8. Len(items') <= Len(said')
      BY <1>7, <3>6
    <3>9. <<>> \in Seq(Nat) /\ Len(items) + 1 \in Nat
      BY <1>7
    <3>10. e \in CallsEvents
      BY <3>4, <3>9, CallsEventIs
    <3>11. e.t = "added"
      BY <3>4 DEF Relay!Event
    <3>12. Relay!Pass(<<e>>)
      BY <3>2, <3>6
    <3>. QED  BY <1>7, <3>6, <3>7, <3>8, <3>10, <3>11, <3>12 DEF PartsKept
  <2>. QED  BY <2>1, <2>2 DEF StreamInv, Placing
<1>9. PICK x : x = Relay!ConvertAll(client, conv, <<e>>)
  OBVIOUS
<1>10. conv' = x.st /\ sent' = sent \o x.out
  BY <1>8, <1>9 DEF Relay!Pass
<1>11. LiveOf(client, Strict(provider), said, conv, sent)
  BY DEF StreamInv, HeardLive
<1>12. CallSaid(client, Strict(provider), said, conv, sent, p, e, x)
  BY <1>1, <1>5, <1>8, <1>9, <1>11 DEF CallSaid
<1>13. LiveOf(client, Strict(provider), Append(said, p), x.st, sent \o x.out)
         /\ (client = "anthropic" => x.st.kind = "tool")
  BY <1>12, LiveCall
<1>14. LiveOf(client', Strict(provider'), said', conv', sent')
  BY <1>6, <1>10, <1>13
<1>15. CallOpened'
  <2>1. CASE provider = "codex"
    <3>1. said'[Len(said')] = p /\ said' # <<>>
      BY <1>2, <1>5, <1>6
    <3>. QED  BY <1>5, <1>10, <1>13, <2>1, <3>1 DEF CallOpened
  <2>2. CASE provider # "codex"
    BY <2>2 DEF CallOpened
  <2>. QED  BY <2>1, <2>2
<1>. QED  BY <1>7, <1>8, <1>14, <1>15, StaysLive

LEMMA ArgsKeeps ==
  ASSUME Relay!PiecesAssumption, StreamInv, NEW n \in 1..MaxPieces, Relay!SayArgs(n)
  PROVE  StreamInv'
<1>. USE DEF Relay!SayArgs, Relay!Steady
<1>1. PICK v : v = <<pieces'>>
  OBVIOUS
<1>2. v \in Seq(Nat) /\ pieces' \in Nat /\ pieces' \in 0..MaxPieces /\ pieces \in Nat /\ pieces <= pieces'
  <2>1. MaxPieces \in Nat
    BY DEF Relay!PiecesAssumption
  <2>2. pieces \in 0..MaxPieces /\ pieces < MaxPieces /\ pieces' = pieces + 1
    BY DEF StreamInv, Placing, Relay!Fragment
  <2>3. pieces' \in Nat /\ pieces' \in 0..MaxPieces /\ pieces \in Nat /\ pieces <= pieces'
    BY ONLY <2>1, <2>2
  <2>. QED  BY <1>1, <2>3, OnePiece
<1>3. LiveOf(client, Strict(provider), said, conv, sent)
  BY DEF StreamInv, HeardLive
<1>4. /\ said \in Seq(Parts) /\ items \in Seq(Parts) /\ HasIds(said) /\ Len(items) <= Len(said)
           /\ Len(said) <= pieces
      /\ Len(said) \in Nat /\ Len(items) \in Nat
  BY <1>3 DEF StreamInv, PartsKept, LiveOf
<1>5. PICK i : i = Relay!NthSaid(n)
  OBVIOUS
<1>6. i \in DOMAIN said /\ Relay!IsCall(said[i])
  <2>1. \E j \in DOMAIN said : Relay!IsCall(said[j]) /\ said[j].id = n
    BY <1>4 DEF HasIds
  <2>. QED  BY <1>5, <2>1 DEF Relay!NthSaid
<1>7. PICK w, u : w = Append(said[i].v, pieces') /\ u = [said EXCEPT ![i].v = w]
  OBVIOUS
<1>8. said' = u
  BY <1>5, <1>7
<1>9. Edits(said, i, w, u)
  <2>1. said[i].v \in Seq(Nat)
    BY <1>4, <1>6, PartsAre
  <2>2. w \in Seq(Nat)
    BY <1>2, <1>7, <2>1
  <2>. QED  BY <1>4, <1>6, <1>7, <2>2 DEF Edits
<1>10. Edited(said, i, u) /\ Alters(said, u)
  BY <1>6, <1>9, EditIs, EditAlters
<1>11. HasCall(said)
  BY <1>6 DEF HasCall
<1>12. u \in Seq(Parts) /\ Len(u) = Len(said) /\ Len(Relay!CallsOf(u)) = Len(Relay!CallsOf(said))
  <2>1. u \in Seq(Parts) /\ Len(said) = Len(u)
          /\ \A k \in 1..Len(said) : Relay!IsCall(said[k]) <=> Relay!IsCall(u[k])
    BY <1>10 DEF Edited
  <2>2. Len(Relay!CallsOf(said)) = Len(Relay!CallsOf(u))
    BY ONLY <1>4, <2>1, CallsSame
  <2>. QED  BY <2>1, <2>2
<1>13. Placing'
  BY <1>2 DEF StreamInv, Placing
<1>14. Len(u) <= pieces'
  BY <1>2, <1>4, <1>12
<1>15. PICK e : /\ e \in CallsEvents /\ e.t = "args" /\ Relay!Pass(<<e>>) /\ PartsKept'
                /\ provider = "codex" => ~closed /\ i = Len(said)
  <2>1. CASE provider = "codex"
    <3>1. PICK e : e = Relay!Event("args", Relay!ItemId(Len(said)), 0, 0, v)
      OBVIOUS
    <3>2. e \in CallsEvents
      BY <1>2, <1>4, <3>1, CallsEventIs
    <3>3. e.t = "args"
      BY <3>1 DEF Relay!Event
    <3>4. Relay!Pass(<<e>>) /\ items' = items /\ ~closed /\ i = Len(said)
      BY <1>1, <1>5, <2>1, <3>1 DEF Relay!ArgsDelta
    <3>5. PartsKept'
      BY <1>4, <1>8, <1>12, <1>14, <2>1, <3>4 DEF PartsKept
    <3>. QED  BY <3>2, <3>3, <3>4, <3>5
  <2>2. CASE provider = "workbuddy"
    <3>1. PICK next : next = Relay!WorkbuddyArgs([output |-> items, out |-> <<>>], n, v)
      OBVIOUS
    <3>2. items' = next.output /\ Relay!Pass(next.out)
      BY <1>1, <2>2, <3>1
    <3>3. items \in Seq(Parts) /\ Len(Relay!CallsOf(items)) = Len(Relay!CallsOf(said))
      BY <2>2 DEF StreamInv, PartsKept
    <3>4. n \in 1..Len(Relay!CallsOf(items))
      BY <3>3
    <3>5. PICK k \in Nat : Items(items, next, next.output, <<Relay!ArgsDelta(Relay!ItemId(k), 0, v)>>, 0, 0)
      BY <1>2, <3>1, <3>3, <3>4, ArgsItems
    <3>6. PICK e : e = Relay!Event("args", Relay!ItemId(k), 0, 0, v)
      OBVIOUS
    <3>7. e \in CallsEvents
      BY <1>2, <3>6, CallsEventIs
    <3>8. e.t = "args"
      BY <3>6 DEF Relay!Event
    <3>9. /\ items' \in Seq(Parts) /\ next.out = <<e>> /\ Len(items') \in Nat /\ Len(items') <= Len(items) + 0
          /\ Len(Relay!CallsOf(items')) = Len(Relay!CallsOf(items)) + 0
      BY <3>2, <3>5, <3>6 DEF Items, Relay!ArgsDelta
    <3>10. Relay!Pass(<<e>>)
      BY <3>2, <3>9
    <3>11. Len(Relay!CallsOf(items')) = Len(Relay!CallsOf(said')) /\ Len(items') <= Len(said')
      <4>1. Len(Relay!CallsOf(items)) \in Nat
        BY <3>3, CallsSome
      <4>2. Len(Relay!CallsOf(items')) = Len(Relay!CallsOf(said'))
        <5>1. Len(Relay!CallsOf(items')) = Len(Relay!CallsOf(items)) + 0
          BY <3>9
        <5>2. Len(Relay!CallsOf(items')) = Len(Relay!CallsOf(items))
          BY ONLY <4>1, <5>1
        <5>3. Len(Relay!CallsOf(said')) = Len(Relay!CallsOf(said))
          BY ONLY <1>8, <1>12
        <5>. QED  BY ONLY <3>3, <5>2, <5>3
      <4>3. Len(items') <= Len(said')
        BY <1>4, <1>8, <1>12, <3>9
      <4>. QED  BY <4>2, <4>3
    <3>12. PartsKept'
      BY <1>8, <1>12, <1>14, <3>9, <3>11 DEF PartsKept
    <3>. QED  BY <2>2, <3>7, <3>8, <3>10, <3>12
  <2>. QED  BY <2>1, <2>2 DEF StreamInv, Placing
<1>16. PICK x : x = Relay!ConvertAll(client, conv, <<e>>)
  OBVIOUS
<1>17. conv' = x.st /\ sent' = sent \o x.out
  BY <1>15, <1>16 DEF Relay!Pass
<1>18. Strict(provider) /\ client = "anthropic" /\ e.t = "args" => conv.kind = "tool"
  BY <1>15 DEF Strict, StreamInv, CallOpened
<1>19. CallGoesOn(client, Strict(provider), said, conv, sent, u, e, x)
  BY <1>3, <1>10, <1>11, <1>15, <1>16, <1>18 DEF CallGoesOn
<1>20. /\ LiveOf(client, Strict(provider), u, x.st, sent \o x.out)
       /\ client = "anthropic" /\ e.t = "args" => x.st.kind = conv.kind
  BY <1>19, LiveGoesOn
<1>21. LiveOf(client', Strict(provider'), said', conv', sent')
  BY <1>8, <1>17, <1>20
<1>22. CallOpened'
  <2>. SUFFICES ASSUME ~closed
                PROVE  provider = "codex" /\ u # <<>> /\ Relay!IsCall(u[Len(u)])
                         /\ (client = "anthropic" => x.st.kind = "tool")
    BY <1>8, <1>17 DEF CallOpened
  <2>1. provider = "codex" /\ Relay!IsCall(said[Len(said)]) /\ (client = "anthropic" => conv.kind = "tool")
    BY DEF StreamInv, CallOpened
  <2>2. Len(said) \in 1..Len(said)
    BY <1>4, <1>6, <1>15, <2>1
  <2>3. Relay!IsCall(u[Len(u)])
    BY <1>10, <1>12, <2>1, <2>2 DEF Edited
  <2>4. u # <<>>
    BY <1>4, <1>12, <2>2
  <2>. QED  BY <1>15, <1>20, <2>1, <2>3, <2>4
<1>23. provider' # "antigravity"
  OBVIOUS
<1>. QED  BY <1>13, <1>15, <1>21, <1>22, <1>23, StaysLive

LEMMA CloseKeeps ==
  ASSUME StreamInv, Relay!CloseCall
  PROVE  StreamInv'
<1>. USE DEF Relay!CloseCall, Relay!Steady
<1>1. provider = "codex" /\ said # <<>> /\ Relay!IsCall(said[Len(said)])
  BY DEF StreamInv, CallOpened
<1>2. LiveOf(client, Strict(provider), said, conv, sent)
  BY <1>1 DEF StreamInv, HeardLive
<1>3. said \in Seq(Parts) /\ Len(said) \in Nat /\ Len(said) \in 1..Len(said) /\ Relay!Last(said) = said[Len(said)]
  <2>1. said \in Seq(Parts)
    BY DEF StreamInv, PartsKept
  <2>2. Len(said) \in Nat /\ Len(said) \in 1..Len(said)
    BY ONLY <1>1, <2>1
  <2>. QED  BY <2>1, <2>2 DEF Relay!Last
<1>4. PICK last : last = said[Len(said)]
  OBVIOUS
<1>5. last \in Parts /\ last.id \in Nat /\ last.name \in Nat /\ last.v \in Seq(Nat)
  <2>1. last \in Parts
    BY <1>3, <1>4
  <2>. QED  BY <2>1 DEF Parts
<1>6. PICK e : e = Relay!Event("done", Relay!ItemId(Len(said)), last.id, last.name, last.v)
  OBVIOUS
<1>7. e \in CallsEvents
  BY <1>3, <1>5, <1>6, CallsEventIs
<1>8. e.t = "done"
  BY <1>6 DEF Relay!Event
<1>9. Relay!Pass(<<e>>)
  BY <1>3, <1>4, <1>6 DEF Relay!Done
<1>10. PICK x : x = Relay!ConvertAll(client, conv, <<e>>)
  OBVIOUS
<1>11. conv' = x.st /\ sent' = sent \o x.out
  BY <1>9, <1>10 DEF Relay!Pass
<1>12. HasCall(said)
  <2>1. Len(said) \in DOMAIN said
    BY <1>3
  <2>. QED  BY <1>1, <2>1 DEF HasCall
<1>13. Alters(said, said)
  BY <1>3 DEF Alters
<1>14. CallGoesOn(client, Strict(provider), said, conv, sent, said, e, x)
  BY <1>2, <1>7, <1>8, <1>10, <1>12, <1>13 DEF CallGoesOn
<1>15. LiveOf(client, Strict(provider), said, x.st, sent \o x.out)
  BY <1>14, LiveGoesOn
<1>16. LiveOf(client', Strict(provider'), said', conv', sent')
  BY <1>11, <1>15
<1>17. Placing' /\ PartsKept' /\ CallOpened'
  <2>1. Placing'
    BY DEF StreamInv, Placing
  <2>2. PartsKept'
    BY SameLists DEF StreamInv
  <2>3. CallOpened'
    BY DEF CallOpened
  <2>. QED  BY <2>1, <2>2, <2>3
<1>. QED  BY <1>1, <1>16, <1>17, StaysLive

\* A call of Antigravity, which is sent at the end.
LEMMA CallKeeps ==
  ASSUME Relay!PiecesAssumption, StreamInv, Relay!SayCall
  PROVE  StreamInv'
<1>. USE DEF Relay!SayCall, Relay!Steady
<1>1. said \in Seq(Parts)
  BY DEF StreamInv, PartsKept
<1>2. PICK p : p \in Parts /\ said' = Append(said, p)
  <2>1. PICK signed \in BOOLEAN, n \in 1..Relay!NewId :
          said' = Append(said, IF signed THEN Relay!Signed(Relay!Call(n, n, <<n>>)) ELSE Relay!Call(n, n, <<n>>))
    OBVIOUS
  <2>2. n \in Nat
    <3>1. Len(Relay!CallsOf(said)) \in Nat
      BY <1>1, CallsSome
    <3>2. Relay!NewId \in Nat
      BY ONLY <3>1 DEF Relay!NewId
    <3>. QED  BY ONLY <3>2, n \in 1..Relay!NewId
  <2>3. <<n>> \in Seq(Nat)
    BY <2>2, OnePiece
  <2>4. PICK p : p = IF signed THEN Relay!Signed(Relay!Call(n, n, <<n>>)) ELSE Relay!Call(n, n, <<n>>)
    OBVIOUS
  <2>5. p \in Parts
    BY <2>2, <2>3, <2>4, CallPart
  <2>. QED  BY <2>1, <2>4, <2>5
<1>3. Placing' /\ said' \in Seq(Parts) /\ Len(said') = Len(said) + 1 /\ Len(said') <= pieces'
        /\ Len(said) \in Nat /\ Len(items) \in Nat
      /\ Len(items) <= Len(said)
  <2>1. closed' \in BOOLEAN
    BY DEF StreamInv, Placing
  <2>. QED  BY <1>2, <2>1, Appends
<1>4. PartsKept'
  BY <1>3 DEF StreamInv, PartsKept
<1>5. conv' = Relay!Blank /\ sent' = <<>> /\ closed'
  BY DEF StreamInv, NothingYet, Silence
<1>. QED  BY <1>3, <1>4, <1>5, StaysDark

-----------------------------------------------------------------------------
(* The end of the stream.                                                  *)

LEMMA FinishKeeps ==
  ASSUME StreamInv, NEW t \in {"completed", "incomplete"}, Relay!Finish(t)
  PROVE  StreamInv'
<1>. USE DEF Relay!Finish, Relay!Steady
<1>1. Placing' /\ PartsKept' /\ said \in Seq(Parts) /\ items \in Seq(Parts)
  <2>1. Placing'
    BY DEF StreamInv, Placing, Relay!Phases
  <2>2. PartsKept'
    BY SameLists DEF StreamInv
  <2>. QED  BY <2>1, <2>2 DEF StreamInv, PartsKept
<1>2. PICK x : x = Relay!ConvertAll(client, conv, Relay!Ends(t))
  OBVIOUS
<1>3. conv' = x.st /\ sent' = sent \o x.out
  BY <1>2 DEF Relay!Pass
<1>4. OverOf(client, Strict(provider), said, x.st, sent \o x.out)
  <2>1. CASE provider = "codex"
    <3>1. LiveOf(client, Strict(provider), said, conv, sent)
      BY <2>1 DEF StreamInv, HeardLive
    <3>2. x = Relay!ConvertAll(client, conv, <<Relay!Ended(t, said)>>)
      BY <1>2, <2>1 DEF Relay!Ends
    <3>. QED  BY <3>1, <3>2, LiveEnds
  <2>2. CASE provider = "workbuddy"
    <3>1. LiveOf(client, Strict(provider), said, conv, sent)
      BY <2>2 DEF StreamInv, HeardLive
    <3>2. LiveOf(client, FALSE, said, conv, sent)
      BY <3>1, LooseLive
    <3>3. Len(Relay!CallsOf(items)) = Len(Relay!CallsOf(said))
      BY <2>2 DEF StreamInv, PartsKept
    <3>4. x = Relay!ConvertAll(client, conv, Relay!WorkbuddyEnd([output |-> items, out |-> <<>>]).out)
      BY <1>2, <2>2 DEF Relay!Ends
    <3>5. OverOf(client, FALSE, said, x.st, sent \o x.out)
      BY <1>1, <3>2, <3>3, <3>4, WorkbuddyOver
    <3>6. ~Strict(provider)
      BY <2>2 DEF Strict
    <3>. QED  BY <3>5, <3>6, LooseOver
  <2>3. CASE provider = "antigravity"
    <3>1. conv = Relay!Blank /\ sent = <<>>
      BY <2>3 DEF StreamInv, NothingYet, Silence
    <3>2. PICK blocked : blocked = FALSE
      OBVIOUS
    <3>3. x = Relay!ConvertAll(client, Relay!Blank, Relay!CloudEvents(said, blocked))
      BY <1>2, <2>3, <3>1, <3>2 DEF Relay!Ends
    <3>4. client \in ClientKinds
      BY DEF StreamInv, Placing
    <3>5. OverOf(client, FALSE, said, x.st, <<>> \o x.out)
      BY <1>1, <3>2, <3>3, <3>4, CloudOver
    <3>6. ~Strict(provider)
      BY <2>3 DEF Strict
    <3>. QED  BY <3>1, <3>5, <3>6, LooseOver
  <2>. QED  BY <2>1, <2>2, <2>3 DEF StreamInv, Placing
<1>5. AllTold'
  BY <1>3, <1>4 DEF AllTold
<1>. QED  BY <1>1, <1>5, HasStopped

LEMMA BlockKeeps ==
  ASSUME StreamInv, Relay!Block
  PROVE  StreamInv'
<1>. USE DEF Relay!Block, Relay!Steady
<1>1. Placing' /\ PartsKept' /\ said \in Seq(Parts)
  <2>1. Placing'
    BY DEF StreamInv, Placing, Relay!Phases
  <2>2. PartsKept'
    BY SameLists DEF StreamInv
  <2>. QED  BY <2>1, <2>2 DEF StreamInv, PartsKept
<1>2. conv = Relay!Blank /\ sent = <<>> /\ client \in ClientKinds
  BY DEF StreamInv, NothingYet, Silence, Placing
<1>3. PICK blocked : blocked = TRUE
  OBVIOUS
<1>4. PICK x : x = Relay!ConvertAll(client, Relay!Blank, Relay!CloudEvents(said, blocked))
  OBVIOUS
<1>5. conv' = x.st /\ sent' = <<>> \o x.out
  BY <1>2, <1>3, <1>4 DEF Relay!Pass
<1>6. blocked => said = <<>>
  OBVIOUS
<1>7. OverOf(client, FALSE, said, x.st, <<>> \o x.out)
  BY <1>1, <1>2, <1>4, <1>6, CloudOver
<1>8. ~Strict(provider)
  BY DEF Strict
<1>9. OverOf(client, Strict(provider), said, x.st, <<>> \o x.out)
  BY <1>7, <1>8, LooseOver
<1>10. AllTold'
  BY <1>5, <1>9 DEF AllTold
<1>. QED  BY <1>1, <1>10, HasStopped

LEMMA FailKeeps ==
  ASSUME StreamInv, Relay!Fail
  PROVE  StreamInv'
<1>. USE DEF Relay!Fail, Relay!Steady
<1>1. Placing' /\ PartsKept'
  <2>1. Placing'
    BY DEF StreamInv, Placing, Relay!Phases
  <2>2. PartsKept'
    BY SameLists DEF StreamInv
  <2>. QED  BY <2>1, <2>2
<1>2. PICK x : x = Relay!ConvertAll(client, conv, <<Relay!Failed>>)
  OBVIOUS
<1>3. conv' = x.st /\ sent' = sent \o x.out
  BY <1>2 DEF Relay!Pass
<1>4. LiveOf(client, Strict(provider), said, conv, sent)
  BY DEF StreamInv, HeardLive
<1>5. FailedOf(client, Strict(provider), x.st, sent \o x.out)
  BY <1>2, <1>4, LiveFails
<1>6. AllTold'
  BY <1>3, <1>5 DEF AllTold
<1>. QED  BY <1>1, <1>6, HasStopped

LEMMA BreakKeeps ==
  ASSUME StreamInv, Relay!BreakLate
  PROVE  StreamInv'
<1>. USE DEF Relay!BreakLate, Relay!Steady
<1>1. Placing' /\ PartsKept'
  <2>1. Placing'
    BY DEF StreamInv, Placing, Relay!Phases
  <2>2. PartsKept'
    BY SameLists DEF StreamInv
  <2>. QED  BY <2>1, <2>2
<1>2. OverOf(client, Strict(provider), said, conv, sent)
  BY DEF StreamInv, AllTold
<1>3. CASE client = "chat"
  <2>1. conv' = conv /\ sent' = sent \o <<Relay!Plain("error"), Relay!Plain("DONE")>>
    BY <1>3
  <2>2. conv \in Convs /\ conv.open < conv.next /\ sent \in Seq(Chunks) /\ client \in ClientKinds
    BY <1>2 DEF OverOf, Over
  <2>3. PICK a, b : a = Relay!Plain("error") /\ b = Relay!Plain("DONE")
    OBVIOUS
  <2>4. a \in Chunks /\ b \in Chunks
    <3>1. "error" \in Kinds /\ "DONE" \in Kinds
      BY DEF Kinds
    <3>. QED  BY <2>3, <3>1, PlainIs
  <2>5. <<a, b>> \in Seq(Chunks)
    BY ONLY <2>4
  <2>6. sent \o <<a, b>> \in Seq(Chunks)
    BY ONLY <2>2, <2>5
  <2>7. FailedOf(client, Strict(provider), conv, sent \o <<a, b>>)
    BY <1>3, <2>2, <2>6 DEF FailedOf
  <2>8. AllTold'
    BY <2>1, <2>3, <2>7 DEF AllTold
  <2>. QED  BY <1>1, <2>8, HasStopped
<1>4. CASE client # "chat"
  <2>1. PICK x : x = Relay!ConvertAll(client, conv, <<Relay!Failed>>)
    OBVIOUS
  <2>2. conv' = x.st /\ sent' = sent \o x.out
    BY <1>4, <2>1 DEF Relay!Pass
  <2>3. FailedOf(client, Strict(provider), x.st, sent \o x.out)
    BY <1>2, <2>1, OverFails
  <2>4. AllTold'
    BY <2>2, <2>3 DEF AllTold
  <2>. QED  BY <1>1, <2>4, HasStopped
<1>. QED  BY <1>3, <1>4

LEMMA StreamKeeps ==
  ASSUME Relay!PiecesAssumption, StreamInv, [Relay!Next]_(Relay!vars)
  PROVE  StreamInv'
<1>1. CASE Relay!Begin
  BY <1>1, BeginKeeps
<1>2. CASE Relay!SayText
  BY <1>2, TextKeeps
<1>3. CASE Relay!OpenCall
  BY <1>3, OpenCallKeeps
<1>4. CASE Relay!CloseCall
  BY <1>4, CloseKeeps
<1>5. CASE Relay!SayCall
  BY <1>5, CallKeeps
<1>6. CASE Relay!Block
  BY <1>6, BlockKeeps
<1>7. CASE Relay!Fail
  BY <1>7, FailKeeps
<1>8. CASE Relay!BreakLate
  BY <1>8, BreakKeeps
<1>9. ASSUME NEW n \in 1..MaxPieces, Relay!SayArgs(n) PROVE StreamInv'
  BY <1>9, ArgsKeeps
<1>10. ASSUME NEW t \in {"completed", "incomplete"}, Relay!Finish(t) PROVE StreamInv'
  BY <1>10, FinishKeeps
<1>11. CASE UNCHANGED Relay!vars
  BY <1>11 DEF Relay!vars, StreamInv, Placing, PartsKept, NothingYet, Silence, HeardLive, CallOpened,
               AllTold
<1>. QED  BY <1>1, <1>2, <1>3, <1>4, <1>5, <1>6, <1>7, <1>8, <1>9, <1>10, <1>11 DEF Relay!Next

-----------------------------------------------------------------------------
(* What follows.                                                           *)

LEMMA BlankIs == Relay!Blank \in Convs /\ Relay!Blank.open < Relay!Blank.next
<1>1. <<>> \in Seq(Nat) /\ <<>> \in Seq(Tools) /\ <<>> \in Seq(Parts) /\ -1 \in Int /\ 0 \in Nat
  OBVIOUS
<1>2. "none" \in {"none", "text", "tool"} /\ "none" \in Relay!StopReasons \cup {"none"} /\ FALSE \in BOOLEAN
  OBVIOUS
<1>3. Relay!Blank \in Convs
  BY ONLY <1>1, <1>2 DEF Relay!Blank, Convs
<1>4. Relay!Blank.open = -1 /\ Relay!Blank.next = 0
  BY DEF Relay!Blank
<1>. QED  BY <1>3, <1>4

LEMMA ConvIs ==
  ASSUME StreamInv
  PROVE  conv \in Convs /\ conv.open < conv.next
<1>1. phase \in {"new", "open", "ended", "failed", "broken"}
  BY DEF StreamInv, Placing, Relay!Phases
<1>2. CASE Silence
  <2>1. conv = Relay!Blank
    BY <1>2 DEF StreamInv, NothingYet
  <2>. QED  BY <2>1, BlankIs
<1>3. CASE phase = "open" /\ provider # "antigravity"
  BY <1>3 DEF StreamInv, HeardLive, LiveOf, Talk
<1>4. CASE phase = "ended"
  BY <1>4 DEF StreamInv, AllTold, OverOf, Over
<1>5. CASE phase \in {"failed", "broken"}
  BY <1>5 DEF StreamInv, AllTold, FailedOf
<1>. QED  BY <1>1, <1>2, <1>3, <1>4, <1>5 DEF Silence

LEMMA StreamTyped ==
  ASSUME Relay!PiecesAssumption, StreamInv
  PROVE  Relay!TypeOK
<1>1. conv \in Convs /\ conv.open < conv.next
  BY ConvIs
<1>2. conv.kind \in {"none", "text", "tool"} /\ conv.tools \in Seq(Tools)
  BY <1>1 DEF Convs
<1>3. \A i \in DOMAIN conv.tools : conv.tools[i].call # 0
  <2>. SUFFICES ASSUME NEW i \in DOMAIN conv.tools PROVE conv.tools[i].call # 0
    OBVIOUS
  <2>1. conv.tools[i] \in Tools
    BY <1>2
  <2>. QED  BY <2>1 DEF Tools
<1>4. Len(said) <= MaxPieces /\ Len(items) <= MaxPieces
  <2>1. said \in Seq(Parts) /\ items \in Seq(Parts) /\ Len(items) <= Len(said) /\ Len(said) <= pieces
    BY DEF StreamInv, PartsKept
  <2>2. Len(said) \in Nat /\ Len(items) \in Nat
    BY <2>1
  <2>3. pieces \in 0..MaxPieces /\ MaxPieces \in Nat
    BY DEF StreamInv, Placing, Relay!PiecesAssumption
  <2>. QED  BY ONLY <2>1, <2>2, <2>3
<1>. QED  BY <1>1, <1>2, <1>3, <1>4 DEF StreamInv, Placing, Relay!TypeOK

\* A message that has begun is made of blocks.
LEMMA BlocksAre ==
  ASSUME StreamInv, client = "anthropic", sent # <<>>
  PROVE  \E n, o, k : Blocks(sent, n, o, k, Strict(provider))
<1>1. phase \in {"new", "open", "ended", "failed", "broken"}
  BY DEF StreamInv, Placing, Relay!Phases
<1>2. ~Silence
  BY DEF StreamInv, NothingYet
<1>3. CASE phase = "open" /\ provider # "antigravity"
  <2>1. Talk(client, conv, sent, Strict(provider))
    BY <1>3 DEF StreamInv, HeardLive, LiveOf
  <2>. QED  BY <2>1 DEF Talk
<1>4. CASE phase = "ended"
  <2>1. Over(client, conv, sent, Strict(provider))
    BY <1>4 DEF StreamInv, AllTold, OverOf
  <2>. QED  BY <2>1 DEF Over
<1>5. CASE phase \in {"failed", "broken"}
  BY <1>5 DEF StreamInv, AllTold, FailedOf
<1>. QED  BY <1>1, <1>2, <1>3, <1>4, <1>5 DEF Silence

LEMMA StreamFormed ==
  ASSUME StreamInv
  PROVE  Relay!WellFormed
<1>. SUFFICES ASSUME client = "anthropic"
     PROVE  /\ \A p \in DOMAIN sent : (sent[p].k = "message_start") <=> (p = 1)
            /\ \A p \in Relay!Starts :
                 /\ sent[p].i = Cardinality({q \in Relay!Starts : q < p})
                 /\ \A q \in Relay!Starts : q > p =>
                      \E r \in Relay!Position("block_stop", sent[p].i) : p < r /\ r < q
            /\ \A p \in DOMAIN sent : sent[p].k \in {"text_delta", "json_delta"} =>
                 \E s \in Relay!Starts :
                   /\ s < p /\ sent[s].i = sent[p].i /\ \A r \in Relay!Position("block_stop", sent[p].i) : r > p
                   /\ provider = "codex" => (sent[s].k = "block_start:text") = (sent[p].k = "text_delta")
            /\ phase = "ended" =>
                 /\ Relay!Last(sent).k = "message_stop" /\ conv.open = -1
                 /\ \A s \in Relay!Starts : Cardinality(Relay!Position("block_stop", sent[s].i)) = 1
  BY DEF Relay!WellFormed, Relay!Cardinality, Cardinality
<1>1. Relay!Starts = StartsOf(sent) /\ \A i : Relay!Position("block_stop", i) = StopsOf(sent, i)
  BY DEF Relay!Starts, StartsOf, Relay!Position, StopsOf
<1>2. phase = "ended" => sent # <<>> /\ Relay!Last(sent).k = "message_stop" /\ conv.open = -1
        /\ BlocksApart(sent, conv.next, -1)
  <2>. SUFFICES ASSUME phase = "ended"
                PROVE  sent # <<>> /\ Relay!Last(sent).k = "message_stop" /\ conv.open = -1
                         /\ BlocksApart(sent, conv.next, -1)
    OBVIOUS
  <2>1. Over(client, conv, sent, Strict(provider))
    BY DEF StreamInv, AllTold, OverOf
  <2>2. sent[Len(sent)].k = "message_stop" /\ conv.open = -1 /\ Headed(sent) /\ BlocksApart(sent, conv.next, -1)
    BY <2>1 DEF Over, Blocks
  <2>3. sent # <<>>
    BY <2>2 DEF Headed
  <2>. QED  BY <2>2, <2>3 DEF Relay!Last
<1>3. CASE sent = <<>>
  <2>1. DOMAIN sent = {}
    BY <1>3
  <2>2. Relay!Starts = {}
    BY <2>1 DEF Relay!Starts
  <2>. QED  BY <1>2, <1>3, <2>1, <2>2
<1>4. CASE sent # <<>>
  <2>1. PICK n, o, k : Blocks(sent, n, o, k, Strict(provider))
    BY <1>4, BlocksAre
  <2>2. \A p \in DOMAIN sent : (sent[p].k = "message_start") <=> (p = 1)
    BY <2>1 DEF Blocks, Headed
  <2>3. \A p \in Relay!Starts : sent[p].i = Cardinality({q \in Relay!Starts : q < p})
    BY <1>1, <2>1 DEF Blocks, BlockNumbers
  <2>4. \A p, q \in Relay!Starts : q > p => \E r \in Relay!Position("block_stop", sent[p].i) : p < r /\ r < q
    BY <1>1, <2>1 DEF Blocks, BlocksApart
  <2>5. \A p \in DOMAIN sent : sent[p].k \in {"text_delta", "json_delta"} =>
          \E s \in Relay!Starts :
            /\ s < p /\ sent[s].i = sent[p].i /\ \A r \in Relay!Position("block_stop", sent[p].i) : r > p
            /\ provider = "codex" => (sent[s].k = "block_start:text") = (sent[p].k = "text_delta")
    <3>1. DeltasLie(sent, Strict(provider))
      BY <2>1 DEF Blocks
    <3>2. Strict(provider) <=> provider = "codex"
      BY DEF Strict
    <3>3. \A p \in DOMAIN sent : sent[p].k \in {"text_delta", "json_delta"} =>
            \E q \in StartsOf(sent) :
              /\ q < p /\ sent[q].i = sent[p].i /\ \A r \in StopsOf(sent, sent[p].i) : r > p
              /\ provider = "codex" => ((sent[q].k = "block_start:text") <=> (sent[p].k = "text_delta"))
      BY <3>1, <3>2 DEF DeltasLie, Deltas
    <3>. QED  BY ONLY <1>1, <3>3
  <2>6. phase = "ended" => \A s \in Relay!Starts : Cardinality(Relay!Position("block_stop", sent[s].i)) = 1
    <3>. SUFFICES ASSUME phase = "ended", NEW s \in Relay!Starts
                  PROVE Cardinality(Relay!Position("block_stop", sent[s].i)) = 1
      OBVIOUS
    <3>1. sent[s].i # -1
      <4>1. sent[s].i \in Nat
        BY <1>1, <2>1 DEF Blocks, BlockNumbers
      <4>. QED  BY <4>1
    <3>2. PICK r : StopsOf(sent, sent[s].i) = {r}
      BY <1>1, <1>2, <3>1 DEF BlocksApart
    <3>3. Cardinality({r}) = 1
      BY FS_Singleton
    <3>. QED  BY <1>1, <3>2, <3>3
  <2>. QED  BY <1>2, <2>2, <2>3, <2>4, <2>5, <2>6
<1>. QED  BY <1>3, <1>4

LEMMA StreamStops ==
  ASSUME StreamInv
  PROVE  Relay!StopsForAReason
<1>. SUFFICES ASSUME phase = "ended", client # "gemini"
     PROVE  /\ Cardinality(Reasons(sent)) = 1
            /\ Reasons(sent) \subseteq {"tool_calls", "tool_use"} => Relay!CallsOf(said) # <<>>
            /\ Reasons(sent) \subseteq {"stop", "end_turn"} => Relay!CallsOf(said) = <<>>
  BY DEF Relay!StopsForAReason, Reasons, Relay!Cardinality, Cardinality
<1>1. Over(client, conv, sent, Strict(provider)) /\ said \in Seq(Parts) /\ (conv.tools # <<>> <=> HasCall(said))
  BY DEF StreamInv, AllTold, OverOf
<1>2. PICK r : /\ Reasons(sent) = {r}
               /\ r \in {"tool_calls", "tool_use"} => conv.tools # <<>>
               /\ r \in {"stop", "end_turn"} => conv.tools = <<>>
  BY <1>1 DEF Over
<1>3. Cardinality({r}) = 1
  BY FS_Singleton
<1>4. Relay!CallsOf(said) # <<>> <=> HasCall(said)
  BY <1>1, CallsSome
<1>. QED  BY <1>1, <1>2, <1>3, <1>4

LEMMA StreamHeard ==
  ASSUME StreamInv
  PROVE  Relay!TextIsHeard
<1>. SUFFICES ASSUME phase = "ended" PROVE Relay!Heard.text = Relay!AllText(said)
  BY DEF Relay!TextIsHeard
<1>1. Over(client, conv, sent, Strict(provider)) /\ conv.text = Relay!AllText(said) /\ client \in ClientKinds
  BY DEF StreamInv, AllTold, OverOf
<1>2. Relay!AllText(said) = Said(sent, TextKind(client))
  BY <1>1 DEF Over
<1>3. CASE client = "chat"
  BY <1>2, <1>3 DEF Relay!Heard, Relay!ChatHeard, Said, TextKind
<1>4. CASE client = "anthropic"
  BY <1>2, <1>4 DEF Relay!Heard, Relay!AnthropicHeard, Said, TextKind
<1>5. CASE client = "gemini"
  BY <1>2, <1>5 DEF Relay!Heard, Relay!GeminiHeard, Said, TextKind
<1>. QED  BY <1>1, <1>3, <1>4, <1>5 DEF ClientKinds

\* The stream that a client gets is a message of its protocol: it begins once,
\* its blocks open and close one at a time and every delta is for the open one;
\* when the answer has ended, it gives the right reason to stop, and its text
\* is the text that the provider said.
THEOREM AnswersFormedAlways ==
  Relay!PiecesAssumption =>
    (Relay!Spec => [](Relay!TypeOK /\ Relay!WellFormed /\ Relay!StopsForAReason /\ Relay!TextIsHeard))
<1>. SUFFICES ASSUME Relay!PiecesAssumption PROVE Relay!Spec =>
                       [](Relay!TypeOK /\ Relay!WellFormed /\ Relay!StopsForAReason /\ Relay!TextIsHeard)
  OBVIOUS
<1>1. Relay!Init => StreamInv
  BY StreamBegins
<1>2. StreamInv /\ [Relay!Next]_(Relay!vars) => StreamInv'
  BY StreamKeeps
<1>3. StreamInv => Relay!TypeOK /\ Relay!WellFormed /\ Relay!StopsForAReason /\ Relay!TextIsHeard
  BY StreamTyped, StreamFormed, StreamStops, StreamHeard
<1>. QED  BY <1>1, <1>2, <1>3, PTL DEF Relay!Spec
=============================================================================
