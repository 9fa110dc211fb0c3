------------------------------ MODULE VideoJobs ------------------------------
(***************************************************************************)
(* Videos: the request that submits one, its job row, the polls of the     *)
(* user and of the maintenance loop, and the bill that waits for the       *)
(* result.  src/app/codex_gateway.py, src/app/api/codex_gateway.py.        *)
(*                                                                         *)
(* Each video has one submitting request and one bill.  All jobs of the    *)
(* model belong to one key and one account.  How the provider renders is   *)
(* external.  The bill is here only in its states; Wallet has the money.   *)
(***************************************************************************)
EXTENDS Integers, Sequences, FiniteSets, SequencesExt

CONSTANTS Videos,
          Timed,    \* the videos whose result names its length
          Metered,  \* those whose failed result reports a usage that has a price
          Pollers,  \* GET requests of the user
          Limit     \* the maintenance loop polls that many jobs a round

LimitAssumption ==
  /\ Videos # {} /\ Timed \subseteq Videos /\ Metered \subseteq Videos
  /\ Limit \in Nat \ {0} /\ "maintenance" \notin Pollers

VARIABLES
  render,    \* the provider's side of each video
  call,      \* where the submitting request is
  bill,      \* billing_requests.state
  jobs,      \* video_jobs, by created_at
  poll,      \* what each poll is doing; Loop is the maintenance loop's
  round,     \* the jobs the maintenance loop has read and not polled yet
  account,   \* accounts.status = 'active'
  early      \* for the properties: the rows that were finished past their bill

vars == <<render, call, bill, jobs, poll, round, account, early>>

Loop == "maintenance"
Polls == Pollers \cup {Loop}
Row == [video : Videos, status : {"queued", "completed", "failed"}, linked : BOOLEAN]
Rest == [pc |-> "idle", row |-> CHOOSE r \in Row : TRUE, result |-> "queued"]
RowsOf(v) == {x \in DOMAIN jobs : jobs[x].video = v}
HasJob(v) == RowsOf(v) # {}
With(v, field, value) ==
  [x \in DOMAIN jobs |-> IF jobs[x].video = v THEN [jobs[x] EXCEPT ![field] = value] ELSE jobs[x]]

TypeOK ==
  /\ render \in [Videos -> {"none", "queued", "completed", "failed"}]
  /\ call \in [Videos -> {"new", "submit", "insert", "link", "finish", "over"}]
  /\ bill \in [Videos -> {"none", "reserved", "pending", "settled", "released"}]
  /\ jobs \in Seq(Row) /\ \A x, y \in DOMAIN jobs : jobs[x].video = jobs[y].video => x = y
  /\ poll \in [Polls -> [pc : {"idle", "fetch", "settle", "touch"}, row : Row, result : {"queued", "completed", "failed"}]]
  /\ round \in Seq(Row) /\ Len(round) <= Limit
  /\ account \in BOOLEAN /\ early \subseteq Videos

Init ==
  /\ render = [v \in Videos |-> "none"]
  /\ call = [v \in Videos |-> "new"]
  /\ bill = [v \in Videos |-> "none"]
  /\ jobs = <<>>
  /\ poll = [p \in Polls |-> Rest]
  /\ round = <<>>
  /\ account = TRUE /\ early = {}

Steps(v, pc) == call' = [call EXCEPT ![v] = pc]
Bills(v, state) == bill' = [bill EXCEPT ![v] = state]
Open(v) == bill[v] \in {"reserved", "pending"}

-----------------------------------------------------------------------------
(* The submitting request.                                                 *)

\* create_video(); the money is reserved by begin_call().
Create(v) ==
  /\ call[v] = "new"
  /\ Bills(v, "reserved") /\ Steps(v, "submit")
  /\ UNCHANGED <<render, jobs, poll, round, account, early>>

\* _grok_job_content_url(): the source of an edit or an extension must be a
\* finished video of the same key.
Source(w) == account /\ HasJob(w) /\ render[w] = "completed"
Edit(v, w) == Source(w) /\ Create(v)    \* edit_video(), remix_video()
Extend(v, w) == Source(w) /\ Create(v)  \* extend_video()

\* _submit_grok_video(): the provider takes it, and may be done with it at once;
\* the row is written with the status of that answer, then the request it is
\* billed to, each in a transaction of its own.
Submit(v) ==
  /\ call[v] = "submit" /\ account
  /\ \E status \in {"queued", "completed", "failed"} : render' = [render EXCEPT ![v] = status]
  /\ Steps(v, "insert")
  /\ UNCHANGED <<bill, jobs, poll, round, account, early>>
Insert(v) ==
  /\ call[v] = "insert"
  /\ \E status \in {"queued", render[v]} :
       /\ jobs' = Append(jobs, [video |-> v, status |-> status, linked |-> FALSE])
       /\ early' = IF status = "queued" THEN early ELSE early \cup {v}
  /\ Steps(v, "link")
  /\ UNCHANGED <<render, bill, poll, round, account>>
Link(v) ==
  /\ call[v] = "link"
  /\ jobs' = With(v, "linked", TRUE)
  /\ Steps(v, "finish")
  /\ UNCHANGED <<render, bill, poll, round, account, early>>

\* finish_call(): settle() without usage leaves the bill open for the polls
\* after a success, and ends it after a failure or a lost client.
StayOpen(v) == IF Open(v) THEN "pending" ELSE bill[v]
Finish(v) ==
  /\ call[v] = "finish"
  /\ Bills(v, StayOpen(v)) /\ Steps(v, "over")
  /\ UNCHANGED <<render, jobs, poll, round, account, early>>
Fail(v) ==
  /\ call[v] \in {"submit", "insert", "link", "finish"}
  /\ Bills(v, IF Open(v) THEN "released" ELSE bill[v])
  /\ Steps(v, "over")
  /\ UNCHANGED <<render, jobs, poll, round, account, early>>

-----------------------------------------------------------------------------
(* The polls.                                                              *)

Render(v) ==
  /\ render[v] = "queued"
  /\ render' = [render EXCEPT ![v] = "completed"] \/ render' = [render EXCEPT ![v] = "failed"]
  /\ UNCHANGED <<call, bill, jobs, poll, round, account, early>>

Moves(p, pc, row, result) == poll' = [poll EXCEPT ![p] = [pc |-> pc, row |-> row, result |-> result]]

\* get_video() reads the row and the account.  list_videos() names a row from its
\* INSERT on, before it is linked to its request.
Get(p, v) ==
  /\ poll[p].pc = "idle" /\ p # Loop /\ account
  /\ \E x \in RowsOf(v) : Moves(p, "fetch", jobs[x], "queued")
  /\ UNCHANGED <<render, call, bill, jobs, round, account, early>>

\* _maintenance_loop() reads the oldest unfinished jobs whose bill is pending
\* (ORDER BY created_at LIMIT), and polls one after the other.
UnfinishedAny(row) == row.linked /\ bill[row.video] = "pending"
Unfinished(row) == row.linked /\ bill[row.video] = "pending" /\ row.status = "queued"
Read ==
  /\ poll[Loop].pc = "idle" /\ round = <<>>
  /\ LET due == {x \in DOMAIN jobs : Unfinished(jobs[x])}
         n == IF Cardinality(due) < Limit THEN Cardinality(due) ELSE Limit
     IN /\ n > 0
        /\ \E at \in [1..n -> due] :
             /\ \A i, j \in 1..n : i < j => at[i] < at[j]
             /\ \A x \in due : (\E i \in 1..n : at[i] = x) \/ (\A i \in 1..n : at[i] < x)
             /\ round' = [i \in 1..n |-> jobs[at[i]]]
  /\ UNCHANGED <<render, call, bill, jobs, poll, account, early>>
Take ==
  /\ poll[Loop].pc = "idle" /\ round # <<>>
  /\ round' = Tail(round)
  /\ IF account THEN Moves(Loop, "fetch", Head(round), "queued") ELSE UNCHANGED poll
  /\ UNCHANGED <<render, call, bill, jobs, account, early>>

\* _get_grok_video(): what the provider says; then the bill; then the row.
AfterFetch == "settle"
TouchFirst == "touch"
Then == AfterFetch
Fetch(p) ==
  /\ poll[p].pc = "fetch"
  /\ Moves(p, Then, poll[p].row, render[poll[p].row.video])
  /\ UNCHANGED <<render, call, bill, jobs, round, account, early>>
FetchFails(p) ==
  /\ poll[p].pc = "fetch"
  /\ poll' = [poll EXCEPT ![p] = Rest]
  /\ UNCHANGED <<render, call, bill, jobs, round, account, early>>
Outcome(v, result) ==
  CASE result = "completed" /\ v \in Timed /\ Open(v) -> "settled"
    [] result = "failed" /\ Open(v) -> IF v \in Metered THEN "settled" ELSE "released"
    [] OTHER -> bill[v]
Settle(p) ==
  LET v == poll[p].row.video
      result == poll[p].result
  IN /\ poll[p].pc = "settle"
     /\ IF poll[p].row.linked
        THEN /\ Bills(v, Outcome(v, result))
             /\ early' = IF result = "completed" THEN early \ {v} ELSE early
        ELSE UNCHANGED <<bill, early>>
     /\ Moves(p, "touch", poll[p].row, result)
     /\ UNCHANGED <<render, call, jobs, round, account>>

\* A poll that read the row before it was linked skips the bill, and finishes
\* the row all the same.
Touch(p) ==
  LET v == poll[p].row.video
      result == poll[p].result
  IN /\ poll[p].pc = "touch"
     /\ jobs' = With(v, "status", result)
     /\ early' = IF poll[p].row.linked \/ result = "queued" THEN early ELSE early \cup {v}
     /\ poll' = [poll EXCEPT ![p] = Rest]
     /\ UNCHANGED <<render, call, bill, round, account>>

\* delete_video().
Delete(v) ==
  /\ account
  /\ \E x \in RowsOf(v) : jobs' = RemoveAt(jobs, x)
  /\ UNCHANGED <<render, call, bill, poll, round, account, early>>

-----------------------------------------------------------------------------
\* The account is disabled and enabled; a bill expires; the process starts
\* again: the requests are gone, and the bills of those under way are kept
\* pending or released.
Account(on) ==
  /\ account' = on
  /\ UNCHANGED <<render, call, bill, jobs, poll, round, early>>
ExpireBill(v) ==
  /\ Open(v) /\ Bills(v, "released")
  /\ UNCHANGED <<render, call, jobs, poll, round, account, early>>
Restart ==
  /\ call' = [v \in Videos |-> IF call[v] = "new" THEN "new" ELSE "over"]
  /\ bill' \in [Videos -> {"none", "reserved", "pending", "settled", "released"}]
  /\ \A v \in Videos :
       bill'[v] \in IF bill[v] = "reserved" THEN {"pending", "released"} ELSE {bill[v]}
  /\ poll' = [p \in Polls |-> Rest] /\ round' = <<>>
  /\ UNCHANGED <<render, jobs, account, early>>

Next ==
  \/ \E v \in Videos :
       \/ Create(v) \/ Submit(v) \/ Insert(v) \/ Link(v) \/ Finish(v) \/ Fail(v)
       \/ Render(v) \/ Delete(v) \/ ExpireBill(v)
       \/ \E p \in Pollers : Get(p, v)
       \/ \E w \in Videos : Edit(v, w) \/ Extend(v, w)
  \/ Read \/ Take
  \/ \E p \in Polls : Fetch(p) \/ FetchFails(p) \/ Settle(p) \/ Touch(p)
  \/ \E on \in BOOLEAN : Account(on)
  \/ Restart

Spec == Init /\ [][Next]_vars

\* The loop goes on: it runs every minute, and an error of one poll does not stop
\* it.  A provider that is asked about a video again and again answers in the end.
Works == Read \/ Take \/ Fetch(Loop) \/ FetchFails(Loop) \/ Settle(Loop) \/ Touch(Loop)
Answers(v) == poll[Loop].row.video = v /\ Fetch(Loop)
FairSpec == Spec /\ WF_vars(Works) /\ \A v \in Videos : SF_vars(Answers(v))

-----------------------------------------------------------------------------
(* What must hold.                                                         *)

\* A video is charged for a finished result whose length is known, or for the
\* usage that a failed one reports, and for nothing else (_get_grok_video, settle).
ChargedForResult ==
  \A v \in Videos : bill[v] = "settled" =>
    \/ render[v] = "completed" /\ v \in Timed
    \/ render[v] = "failed" /\ v \in Metered

\* Once the row says that a video is finished, nobody polls it for the bill any
\* more: by then a bill of known length has been dealt with.  Two ways past it
\* are left, and early names them: a provider that is done at once, and a poll
\* that read the row before it was linked.
FinishedIsBilled ==
  \A x \in DOMAIN jobs :
    LET v == jobs[x].video
    IN /\ jobs[x].linked /\ jobs[x].status = "completed"
       /\ v \in Timed /\ v \notin early
       => bill[v] # "pending"

\* A bill is charged for what was delivered, and no row closes before its bill.
VideosCharged == ChargedForResult /\ FinishedIsBilled

\* A bill that waits for a finished video does not wait for the user to poll, nor
\* behind older videos that are finished as well, more of them than one round
\* polls, once the account stays on and the process no longer starts again (what does
\* the same as a restart is then the end of a poll).  Those that never finish would
\* fill every round: the premise excludes them (_maintenance_loop: ORDER BY
\* v.created_at LIMIT).
Due(v) ==
  /\ HasJob(v) /\ render[v] = "completed" /\ v \in Timed /\ bill[v] = "pending"
  /\ \A x \in RowsOf(v) : jobs[x].linked /\ jobs[x].status = "queued"
Quiet == <>[]account /\ <>[][Restart => Works]_vars /\ \A w \in Videos : []<>(render[w] # "queued")
BilledInTheEnd == Quiet => \A v \in Timed : []<>~Due(v)
=============================================================================
